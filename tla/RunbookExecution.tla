------------------------- MODULE RunbookExecution -------------------------
(***************************************************************************)
(* The life of a runbook execution row, from the request that inserts it   *)
(* to the commit of its outcome.  Three kinds of actors share the table    *)
(* runbook_executions:                                                     *)
(*                                                                         *)
(*   - the HTTP handlers of routers/remediation.py, which read a row,      *)
(*     check it, change the loaded object and commit;                      *)
(*   - the background ExecutionWorker, which selects a batch of rows and   *)
(*     runs them one after the other, through RunbookExecutor, on the      *)
(*     objects loaded when the batch was selected;                         *)
(*   - the scheduler, the alert triggers and the step tester, which only   *)
(*     insert rows.                                                        *)
(*                                                                         *)
(* All run on one event loop, so a step of the model is what one of them   *)
(* does between two awaits that reach the database or the target host.     *)
(* A commit is a unit of work: it writes the columns the session changed   *)
(* and no others, whatever the row holds by then (Flush).  Sessions keep   *)
(* their objects after a commit (expire_on_commit=False), so the worker    *)
(* never sees what others wrote to the rows of its batch.                  *)
(***************************************************************************)
EXTENDS Naturals, FiniteSets

CONSTANTS
    MaxExecutions,      \* bound: rows that may ever be inserted
    Clients,            \* concurrent HTTP requests
    Operations,         \* which endpoints the clients call in an instance
    Requests,           \* [approval_required, dry_run, alert_id] of new executions
    BatchLimit,         \* .limit(5) of the worker's query
    Steps,              \* steps of the runbook
    FailureThreshold,   \* CircuitBreaker.failure_threshold
    MaxCrashes,         \* bound: process deaths without clean-up
    MaxStops            \* bound: orderly shutdowns

Executions == 1 .. MaxExecutions

AllOperations ==
    {"execute", "retry", "test", "schedule", "trigger",
     "approve", "reject", "cancel", "open", "close"}

ASSUME BoundsAssumption ==
    /\ MaxExecutions \in Nat \ {0}
    /\ BatchLimit \in Nat \ {0}
    /\ Steps \in Nat \ {0}
    /\ FailureThreshold \in Nat \ {0}
    /\ MaxCrashes \in Nat
    /\ MaxStops \in Nat

ASSUME EnvironmentAssumption ==
    /\ Operations \subseteq AllOperations
    /\ Requests \subseteq [approval_required : BOOLEAN, dry_run : BOOLEAN, alert_id : BOOLEAN]

---------------------------------------------------------------------------
(* Rows and the unit of work                                               *)

Statuses ==
    {"none", "pending", "pending_approval", "approved", "running",
     "success", "failed", "timeout", "cancelled"}

\* completed_at and alert_id say whether the column is set; approval_expires_at
\* whether it is null, ahead of the clock or passed.  A row with status "none"
\* has not been inserted.
Row == [status : Statuses, completed_at : BOOLEAN,
        approval_expires_at : {"none", "ahead", "past"},
        approval_required : BOOLEAN, dry_run : BOOLEAN, alert_id : BOOLEAN,
        steps_completed : Nat, steps_failed : Nat]

NoRow == [status |-> "none", completed_at |-> FALSE, approval_expires_at |-> "none",
          approval_required |-> FALSE, dry_run |-> FALSE, alert_id |-> FALSE,
          steps_completed |-> 0, steps_failed |-> 0]

\* What a row's column holds after a session that loaded `seen` flushes `new`.
Column(stored, seen, new) == IF new = seen THEN stored ELSE new

Flush(stored, seen, new) ==
    [stored EXCEPT
        !.status          = Column(@, seen.status, new.status),
        !.completed_at    = Column(@, seen.completed_at, new.completed_at),
        !.steps_completed = Column(@, seen.steps_completed, new.steps_completed),
        !.steps_failed    = Column(@, seen.steps_failed, new.steps_failed)]

---------------------------------------------------------------------------
(* The circuit breaker of the runbook                                      *)

Breaker == [state : {"closed", "open", "half_open"},
            failure_count : Nat, success_count : Nat]

ClosedBreaker == [state |-> "closed", failure_count |-> 0, success_count |-> 0]

FlushBreaker(stored, seen, new) ==
    [state         |-> Column(stored.state, seen.state, new.state),
     failure_count |-> Column(stored.failure_count, seen.failure_count, new.failure_count),
     success_count |-> Column(stored.success_count, seen.success_count, new.success_count)]

ClosingThreshold ==
    IF FailureThreshold \div 2 = 0 THEN 1 ELSE FailureThreshold \div 2

OnSuccess(b) ==
    IF b.state = "half_open" /\ b.success_count + 1 >= ClosingThreshold
    THEN ClosedBreaker
    ELSE [b EXCEPT !.success_count = @ + 1]

\* Variant: the threshold compared with > in place of >=.
OnFailurePastThreshold(b) ==
    [state |-> IF \/ b.state = "closed" /\ b.failure_count + 1 > FailureThreshold
                  \/ b.state = "half_open"
               THEN "open" ELSE b.state,
     failure_count |-> b.failure_count + 1,
     success_count |-> 0]

OnFailure(b) ==
    [state |-> IF \/ b.state = "closed" /\ b.failure_count + 1 >= FailureThreshold
                  \/ b.state = "half_open"
               THEN "open" ELSE b.state,
     failure_count |-> b.failure_count + 1,
     success_count |-> 0]

OnResult(b, succeeded) == IF succeeded THEN OnSuccess(b) ELSE OnFailure(b)

\* "close" and "reset" differ in timestamps only.
OnOverride(b, action) ==
    IF action = "open" THEN [b EXCEPT !.state = "open"] ELSE ClosedBreaker

---------------------------------------------------------------------------
VARIABLES
    db,             \* the table: [Executions -> Row]
    cb,             \* the breaker row
    resolved,       \* executions whose alert and incident were marked resolved
    req,            \* per client, the handler in flight and what it has read
    pc,             \* where the worker's task is
    batch,          \* rows of the batch not yet processed
    session,        \* the worker's loaded objects, [Executions -> Row]
    current,        \* the execution being run, 0 when none
    step,           \* index of the next step of the run, Steps + 1 at the end
    all_success,    \* no step of this run has failed
    completed_steps,\* a step of this run has succeeded: the list is not empty
    outcome,        \* final status assigned but not committed
    cb_seen,        \* the breaker as the finished run has read it
    overdue,        \* rows the approval time-out scan has loaded
    (* History, read by no action's guard but its own bound *)
    authorised,     \* executions whose commands someone or some policy allowed
    runs,           \* how many times each execution's steps were started
    failures,       \* failing verdicts committed since the last manual close
    crashes, stops

dbVars == <<db, cb, resolved>>
runVars == <<current, step, all_success, completed_steps, outcome, cb_seen>>
workerVars == <<pc, batch, session, runVars, overdue>>
historyVars == <<authorised, runs, failures, crashes, stops>>
vars == <<dbVars, req, workerVars, historyVars>>

Idle == [op |-> "idle", exec |-> 0, row |-> NoRow, breaker |-> ClosedBreaker]

Request == [op : AllOperations \cup {"idle", "expire"},
            exec : Executions \cup {0}, row : Row, breaker : Breaker]

RunningPcs == {"step", "command", "rollback", "verdict"}

Pcs == {"select", "next", "loaded", "resolve", "scan", "expire", "down"} \cup RunningPcs

TypeOK ==
    /\ db \in [Executions -> Row]
    /\ cb \in Breaker
    /\ resolved \subseteq Executions
    /\ req \in [Clients -> Request]
    /\ pc \in Pcs
    /\ batch \subseteq Executions
    /\ session \in [Executions -> Row]
    /\ current \in Executions \cup {0}
    /\ step \in 1 .. (Steps + 1)
    /\ all_success \in BOOLEAN /\ completed_steps \in BOOLEAN
    /\ outcome \in {"none", "success", "failed"}
    /\ cb_seen \in Breaker
    /\ overdue \subseteq Executions
    /\ authorised \subseteq Executions
    /\ runs \in [Executions -> Nat]
    /\ failures \in Nat
    /\ crashes \in Nat /\ stops \in Nat

Init ==
    /\ db = [e \in Executions |-> NoRow]
    /\ cb = ClosedBreaker
    /\ resolved = {}
    /\ req = [c \in Clients |-> Idle]
    /\ pc = "select"
    /\ batch = {}
    /\ session = [e \in Executions |-> NoRow]
    /\ current = 0 /\ step = 1 /\ all_success = TRUE /\ completed_steps = FALSE
    /\ outcome = "none"
    /\ cb_seen = ClosedBreaker
    /\ overdue = {}
    /\ authorised = {}
    /\ runs = [e \in Executions |-> 0]
    /\ failures = 0 /\ crashes = 0 /\ stops = 0

Up == pc # "down"

---------------------------------------------------------------------------
(* Inserting rows                                                          *)

NextFree(e) == db[e].status = "none" /\ \A f \in 1 .. (e - 1) : db[f].status # "none"

NewRow(r, status, expires) ==
    [NoRow EXCEPT !.status = status, !.approval_expires_at = expires,
                  !.approval_required = r.approval_required,
                  !.dry_run = r.dry_run, !.alert_id = r.alert_id]

MustWait(r) == r.approval_required /\ ~r.dry_run

\* The status of a manual, retried or scheduled execution.
SubmittedRow(r) ==
    IF MustWait(r) THEN NewRow(r, "pending", "ahead") ELSE NewRow(r, "running", "none")

\* Inserts `row`; `free` says that no approval stands between it and the worker.
Insert(row, free) ==
    \E e \in Executions :
        /\ NextFree(e)
        /\ db' = [db EXCEPT ![e] = row]
        /\ authorised' = IF free THEN authorised \cup {e} ELSE authorised

\* POST /executions up to the insert: the breaker is checked here ...
SubmitCheck(c, r, bypass_cooldown) ==
    /\ Up /\ "execute" \in Operations /\ req[c].op = "idle"
    /\ cb.state = "open" => bypass_cooldown
    /\ req' = [req EXCEPT ![c] = [Idle EXCEPT !.op = "execute", !.row = SubmittedRow(r)]]
    /\ UNCHANGED <<dbVars, workerVars, historyVars>>

\* ... and the row is inserted after further queries.
SubmitInsert(c) ==
    /\ Up /\ req[c].op = "execute"
    /\ Insert(req[c].row, ~MustWait(req[c].row))
    /\ req' = [req EXCEPT ![c] = Idle]
    /\ UNCHANGED <<cb, resolved, workerVars, runs, failures, crashes, stops>>

\* POST /executions/{id}/retry: any execution, whatever its status; neither the
\* breaker nor the blackout windows are looked at.
Retry(e, approval_required) ==
    LET r == [approval_required |-> approval_required,
              dry_run |-> db[e].dry_run, alert_id |-> db[e].alert_id]
    IN  /\ Up /\ "retry" \in Operations /\ db[e].status # "none"
        /\ Insert(SubmittedRow(r), ~MustWait(r))
        /\ UNCHANGED <<cb, resolved, req, workerVars, runs, failures, crashes, stops>>

\* POST /runbooks/{id}/steps/{id}/test leaves a row that looks like any execution
\* that is ready to run.
TestStep ==
    /\ Up /\ "test" \in Operations
    /\ Insert(NewRow([approval_required |-> FALSE, dry_run |-> TRUE, alert_id |-> FALSE],
                     "running", "none"), TRUE)
    /\ UNCHANGED <<cb, resolved, req, workerVars, runs, failures, crashes, stops>>

\* The APScheduler job: no breaker, no blackout window.
ScheduledRun(approval_required) ==
    LET r == [approval_required |-> approval_required, dry_run |-> FALSE, alert_id |-> FALSE]
    IN  /\ Up /\ "schedule" \in Operations
        /\ Insert(SubmittedRow(r), ~MustWait(r))
        /\ UNCHANGED <<cb, resolved, req, workerVars, runs, failures, crashes, stops>>

\* A semi-automatic trigger matched an alert.
TriggeredRun ==
    /\ Up /\ "trigger" \in Operations
    /\ cb.state # "open"
    /\ Insert(NewRow([approval_required |-> FALSE, dry_run |-> FALSE, alert_id |-> TRUE],
                     "pending_approval", "ahead"), FALSE)
    /\ UNCHANGED <<cb, resolved, req, workerVars, runs, failures, crashes, stops>>

---------------------------------------------------------------------------
(* Deciding about rows: each handler reads and checks, then commits         *)

\* The clock passes a row's approval_expires_at.
ApprovalExpires(e) ==
    /\ db[e].approval_expires_at = "ahead"
    /\ db' = [db EXCEPT ![e].approval_expires_at = "past"]
    /\ UNCHANGED <<cb, resolved, req, workerVars, historyVars>>

Decidable == {"pending", "queued", "pending_approval"}

\* POST /executions/{id}/approve, for both values of `approved`.
ReadForDecision(c, e, op) ==
    /\ Up /\ req[c].op = "idle"
    /\ op \in {"approve", "reject"} \cap Operations
    /\ db[e].status \in Decidable
    /\ req' = [req EXCEPT ![c] =
                  [Idle EXCEPT !.op = IF db[e].approval_expires_at = "past" THEN "expire" ELSE op,
                               !.exec = e, !.row = db[e]]]
    /\ UNCHANGED <<dbVars, workerVars, historyVars>>

\* Variant: no check of the status.
CancellableAnyStatus == Statuses \ {"none"}
Cancellable == {"pending", "approved", "running"}

\* POST /executions/{id}/cancel
ReadForCancel(c, e) ==
    /\ Up /\ req[c].op = "idle" /\ "cancel" \in Operations
    /\ db[e].status \in Cancellable
    /\ req' = [req EXCEPT ![c] = [Idle EXCEPT !.op = "cancel", !.exec = e, !.row = db[e]]]
    /\ UNCHANGED <<dbVars, workerVars, historyVars>>

\* Variant: a status the table does not know.
DecidedRejected(op, row) ==
    CASE op = "approve" -> [row EXCEPT !.status = "approved"]
      [] op = "reject"  -> [row EXCEPT !.status = "rejected"]
      [] op = "expire"  -> [row EXCEPT !.status = "timeout"]
      [] op = "cancel"  -> [row EXCEPT !.status = "cancelled", !.completed_at = TRUE]

\* The object a handler commits.  Neither a rejection nor an expiry found by the
\* approve endpoint sets completed_at.
Decided(op, row) ==
    CASE op = "approve" -> [row EXCEPT !.status = "approved"]
      [] op = "reject"  -> [row EXCEPT !.status = "cancelled"]
      [] op = "expire"  -> [row EXCEPT !.status = "timeout"]
      [] op = "cancel"  -> [row EXCEPT !.status = "cancelled", !.completed_at = TRUE]

CommitDecision(c) ==
    LET r == req[c]
    IN  /\ Up /\ r.op \in {"approve", "reject", "expire", "cancel"}
        /\ db' = [db EXCEPT ![r.exec] = Flush(@, r.row, Decided(r.op, r.row))]
        /\ authorised' = IF r.op = "approve" THEN authorised \cup {r.exec} ELSE authorised
        /\ req' = [req EXCEPT ![c] = Idle]
        /\ UNCHANGED <<cb, resolved, workerVars, runs, failures, crashes, stops>>

\* POST /runbooks/{id}/circuit-breaker
ReadForOverride(c, action) ==
    /\ Up /\ req[c].op = "idle"
    /\ action \in {"open", "close"} \cap Operations
    /\ req' = [req EXCEPT ![c] = [Idle EXCEPT !.op = action, !.breaker = cb]]
    /\ UNCHANGED <<dbVars, workerVars, historyVars>>

CommitOverride(c) ==
    LET r == req[c]
    IN  /\ Up /\ r.op \in {"open", "close"}
        /\ cb' = FlushBreaker(cb, r.breaker, OnOverride(r.breaker, r.op))
        /\ failures' = IF r.op = "close" THEN 0 ELSE failures
        /\ req' = [req EXCEPT ![c] = Idle]
        /\ UNCHANGED <<db, resolved, workerVars, authorised, runs, crashes, stops>>

---------------------------------------------------------------------------
(* The worker: selecting a batch                                           *)

\* Variants of the query: rows still pending too; failed rows again; approved
\* rows left out.
EligibleWithPending ==
    {e \in Executions : /\ db[e].status \in {"pending", "approved", "running", "queued"}
                        /\ ~db[e].completed_at}

EligibleFailedToo ==
    {e \in Executions : db[e].status \in {"approved", "running", "queued", "failed"}}

EligibleRunningOnly ==
    {e \in Executions : db[e].status \in {"running", "queued"} /\ ~db[e].completed_at}

Eligible ==
    {e \in Executions : /\ db[e].status \in {"approved", "running", "queued"}
                        /\ ~db[e].completed_at}

\* .order_by(queued_at).limit(BatchLimit): rows are numbered in insertion order.
FirstQueued(S) == {e \in S : Cardinality({f \in S : f < e}) < BatchLimit}

SelectBatch ==
    /\ pc = "select"
    /\ batch' = FirstQueued(Eligible)
    /\ session' = [e \in Executions |-> IF e \in batch' THEN db[e] ELSE NoRow]
    /\ pc' = "next"
    /\ UNCHANGED <<dbVars, req, runVars, overdue, historyVars>>

\* The worker's session changes its object of `e` to `new` and commits.
Save(e, new) ==
    /\ db' = [db EXCEPT ![e] = Flush(@, session[e], new)]
    /\ session' = [session EXCEPT ![e] = new]

\* The next row is marked running on the strength of the loaded object alone.
BeginExecution ==
    /\ pc = "next"
    /\ \E e \in batch :
        /\ \A f \in batch : e <= f
        /\ current' = e
        /\ Save(e, [session[e] EXCEPT !.status = "running"])
    /\ pc' = "loaded"
    /\ UNCHANGED <<cb, resolved, req, batch, step, all_success, completed_steps, outcome,
                   cb_seen, overdue, historyVars>>

LeaveExecution ==
    /\ batch' = batch \ {current}
    /\ current' = 0
    /\ step' = 1 /\ all_success' = TRUE /\ completed_steps' = FALSE /\ outcome' = "none"
    /\ cb_seen' = ClosedBreaker
    /\ pc' = "next"

\* No runbook, no server_id, or the server is gone: failed before any step, and
\* the breaker is not told.
RefuseExecution ==
    /\ pc = "loaded"
    /\ Save(current, [session[current] EXCEPT !.status = "failed", !.completed_at = TRUE])
    /\ LeaveExecution
    /\ UNCHANGED <<cb, resolved, req, overdue, historyVars>>

EndBatch ==
    /\ pc = "next" /\ batch = {}
    /\ session' = [e \in Executions |-> NoRow]
    /\ pc' = "scan"
    /\ UNCHANGED <<dbVars, req, batch, runVars, overdue, historyVars>>

---------------------------------------------------------------------------
(* The worker: running one execution                                       *)

StartRun ==
    /\ pc = "loaded"
    /\ Save(current, [session[current] EXCEPT !.status = "running"])
    /\ runs' = [runs EXCEPT ![current] = @ + 1]
    /\ pc' = "step"
    /\ UNCHANGED <<cb, resolved, req, batch, runVars, overdue, authorised, failures,
                   crashes, stops>>

\* The step does not apply to this host, its condition is not met or it has no
\* command: its StepExecution is committed as skipped.
SkipStep ==
    /\ pc = "step" /\ step <= Steps
    /\ step' = step + 1
    /\ UNCHANGED <<dbVars, req, pc, batch, session, current, all_success, completed_steps,
                   outcome, cb_seen, overdue, historyVars>>

\* Rendering the template fails: the run has failed, steps_failed stays.
RenderingFails(continue_on_fail) ==
    /\ pc = "step" /\ step <= Steps
    /\ all_success' = FALSE
    /\ step' = IF continue_on_fail THEN step + 1 ELSE Steps + 1
    /\ UNCHANGED <<dbVars, req, pc, batch, session, current, completed_steps, outcome, cb_seen,
                   overdue, historyVars>>

\* Variant: one step past the last.
IssueCommandPastEnd ==
    /\ pc = "step" /\ step <= Steps + 1
    /\ pc' = "command"
    /\ UNCHANGED <<dbVars, req, batch, session, runVars, overdue, historyVars>>

\* The command goes to the target host, or nowhere when dry_run is set.
IssueCommand ==
    /\ pc = "step" /\ step <= Steps
    /\ pc' = "command"
    /\ UNCHANGED <<dbVars, req, batch, session, runVars, overdue, historyVars>>

StepSucceeds ==
    /\ pc = "command"
    /\ Save(current, [session[current] EXCEPT !.steps_completed = @ + 1])
    /\ step' = step + 1
    /\ completed_steps' = TRUE
    /\ pc' = "step"
    /\ UNCHANGED <<cb, resolved, req, batch, current, all_success, outcome, cb_seen, overdue,
                   historyVars>>

StepFails(continue_on_fail) ==
    /\ pc = "command"
    /\ Save(current, [session[current] EXCEPT !.steps_failed = @ + 1])
    /\ all_success' = FALSE
    /\ step' = IF continue_on_fail THEN step + 1 ELSE Steps + 1
    /\ pc' = "step"
    /\ UNCHANGED <<cb, resolved, req, batch, current, completed_steps, outcome, cb_seen, overdue,
                   historyVars>>

\* The final status is assigned, and the breaker read, before anything of them
\* is committed.
Conclude(verdict) ==
    /\ outcome' = verdict
    /\ cb_seen' = cb
    /\ pc' = "verdict"
    /\ UNCHANGED <<dbVars, req, batch, session, current, step, all_success, completed_steps,
                   overdue, historyVars>>

\* Some step of this run has succeeded (completed_steps is the run's own, unlike
\* steps_completed, which a run after a crash inherits) and the commands were real.
CanRollBack == completed_steps /\ ~session[current].dry_run

EndOfSteps ==
    /\ pc = "step" /\ step = Steps + 1
    /\ all_success \/ ~CanRollBack
    /\ Conclude(IF all_success THEN "success" ELSE "failed")

\* The status is already assigned while rollback commands go to the host.
StartRollback ==
    /\ pc = "step" /\ step = Steps + 1
    /\ ~all_success /\ CanRollBack
    /\ outcome' = "failed"
    /\ pc' = "rollback"
    /\ UNCHANGED <<dbVars, req, batch, session, current, step, all_success, completed_steps,
                   cb_seen, overdue, historyVars>>

EndRollback == pc = "rollback" /\ Conclude("failed")

\* The connection or anything else in the step loop raises.
RunRaises ==
    /\ pc \in {"step", "command"}
    /\ Conclude("failed")

\* _update_circuit_breaker commits the breaker and the execution together.
CommitVerdict ==
    /\ pc = "verdict"
    /\ Save(current, [session[current] EXCEPT !.status = outcome, !.completed_at = TRUE])
    /\ cb' = FlushBreaker(cb, cb_seen, OnResult(cb_seen, outcome = "success"))
    /\ failures' = IF outcome = "success" THEN failures ELSE failures + 1
    /\ pc' = "resolve"
    /\ UNCHANGED <<resolved, req, batch, runVars, overdue, authorised, runs, crashes, stops>>

\* The incident and the alert follow in a commit of their own.
ResolveAlert ==
    /\ pc = "resolve"
    /\ resolved' = IF outcome = "success" /\ session[current].alert_id
                   THEN resolved \cup {current} ELSE resolved
    /\ LeaveExecution
    /\ UNCHANGED <<db, cb, req, session, overdue, historyVars>>

---------------------------------------------------------------------------
(* The worker: approval time-outs                                          *)

\* Variant: looks for the rows of alert triggers only.
ScanTimeoutsOfTriggers ==
    /\ pc = "scan"
    /\ overdue' = {e \in Executions : /\ db[e].status = "pending_approval"
                                      /\ db[e].approval_expires_at = "past"}
    /\ pc' = IF overdue' = {} THEN "select" ELSE "expire"
    /\ UNCHANGED <<dbVars, req, batch, session, runVars, historyVars>>

ScanTimeouts ==
    /\ pc = "scan"
    /\ overdue' = {e \in Executions : /\ db[e].status = "pending"
                                      /\ db[e].approval_expires_at = "past"}
    /\ pc' = IF overdue' = {} THEN "select" ELSE "expire"
    /\ UNCHANGED <<dbVars, req, batch, session, runVars, historyVars>>

CommitTimeouts ==
    /\ pc = "expire"
    /\ db' = [e \in Executions |->
                IF e \in overdue
                THEN [db[e] EXCEPT !.status = "timeout", !.completed_at = TRUE]
                ELSE db[e]]
    /\ overdue' = {}
    /\ pc' = "select"
    /\ UNCHANGED <<cb, resolved, req, batch, session, runVars, historyVars>>

---------------------------------------------------------------------------
(* The process                                                             *)

LoseMemory ==
    /\ pc' = "down"
    /\ batch' = {} /\ session' = [e \in Executions |-> NoRow]
    /\ current' = 0 /\ step' = 1 /\ all_success' = TRUE /\ completed_steps' = FALSE
    /\ outcome' = "none"
    /\ cb_seen' = ClosedBreaker
    /\ overdue' = {}
    /\ req' = [c \in Clients |-> Idle]

Crash ==
    /\ Up /\ crashes < MaxCrashes
    /\ crashes' = crashes + 1
    /\ LoseMemory
    /\ UNCHANGED <<dbVars, authorised, runs, failures, stops>>

\* The object committed when a stop interrupts the run.
Interrupted ==
    [session[current] EXCEPT !.status = IF pc = "rollback" THEN "failed" ELSE @,
                             !.completed_at = TRUE]

\* Shutdown, after the last response: the worker's task is cancelled.  In the
\* step loop no except clause takes the CancelledError, the finally clause does
\* its work with the status still "running" ("failed" in a rollback), and the
\* error goes on.  In the finally clause itself the rest is skipped and the
\* verdict is lost, which counts as a crash.
Stop ==
    /\ Up /\ stops < MaxStops
    /\ \A c \in Clients : req[c].op = "idle"
    /\ stops' = stops + 1
    /\ IF pc \in {"step", "command", "rollback"}
       THEN /\ db' = [db EXCEPT ![current] = Flush(@, session[current], Interrupted)]
            /\ cb' = OnResult(cb, FALSE)
            /\ failures' = failures + 1
       ELSE UNCHANGED <<db, cb, failures>>
    /\ crashes' = IF pc = "verdict" THEN crashes + 1 ELSE crashes
    /\ LoseMemory
    /\ UNCHANGED <<resolved, authorised, runs>>

Restart ==
    /\ pc = "down"
    /\ pc' = "select"
    /\ UNCHANGED <<dbVars, req, batch, session, runVars, overdue, historyVars>>

---------------------------------------------------------------------------
WorkerStep ==
    \/ SelectBatch \/ BeginExecution \/ RefuseExecution \/ EndBatch
    \/ StartRun \/ SkipStep \/ IssueCommand \/ StepSucceeds
    \/ \E b \in BOOLEAN : RenderingFails(b) \/ StepFails(b)
    \/ EndOfSteps \/ StartRollback \/ EndRollback \/ RunRaises \/ CommitVerdict \/ ResolveAlert
    \/ ScanTimeouts \/ CommitTimeouts

ClientStep ==
    \E c \in Clients :
        \/ \E r \in Requests, bypass \in BOOLEAN : SubmitCheck(c, r, bypass)
        \/ SubmitInsert(c)
        \/ \E e \in Executions, op \in {"approve", "reject"} : ReadForDecision(c, e, op)
        \/ \E e \in Executions : ReadForCancel(c, e)
        \/ CommitDecision(c)
        \/ \E action \in {"open", "close"} : ReadForOverride(c, action)
        \/ CommitOverride(c)

InsertStep ==
    \/ \E e \in Executions, r \in Requests : Retry(e, r.approval_required)
    \/ TestStep
    \/ \E r \in Requests : ScheduledRun(r.approval_required)
    \/ TriggeredRun

ProcessStep == Crash \/ Stop \/ Restart

Next ==
    \/ WorkerStep \/ ClientStep \/ InsertStep \/ ProcessStep
    \/ \E e \in Executions : ApprovalExpires(e)

\* The worker's loop never ends of itself, and the process is restarted after a
\* crash (the container's restart policy); nothing obliges a client to act.
Fairness == WF_vars(WorkerStep) /\ WF_vars(Restart)

Spec == Init /\ [][Next]_vars

FairSpec == Spec /\ Fairness

---------------------------------------------------------------------------
(* Properties                                                              *)

\* No step of an execution is started unless an approval was committed for it or
\* its runbook (as it was when the row was inserted) asked for none.  The worker
\* judges by a status that handlers, the time-out scan and itself overwrite.
NoRunWithoutAuthority == \A e \in Executions : runs[e] > 0 => e \in authorised

\* The steps of an execution are started once, and once more per crash at most:
\* neither a stale batch, nor a cancelled or timed-out row, nor an orderly stop
\* in the middle of a run makes the worker start it again.
OneRunPerBoot == \A e \in Executions : runs[e] <= 1 + crashes

\* The counters shown for an execution never tell of more steps than its runs had,
\* though a run after a crash goes on counting from what the dead one committed.
TalliesWithinRuns ==
    \A e \in Executions : db[e].steps_completed + db[e].steps_failed <= Steps * runs[e]

\* When FailureThreshold runs have failed since the breaker was last closed by
\* hand the breaker is open, whichever way the overrides of administrators and
\* the worker's update read and wrote it.
\* For a threshold above 1 (the table's default is 3, and nothing writes it): a verdict
\* that read the breaker open, before it was closed by hand, leaves it closed and adds
\* the first failure.
ThresholdTrips == failures >= FailureThreshold => cb.state = "open"

\* A committed success or failure is changed only by a handler that had read the
\* row before the run ended: the checks of approve and cancel, and the worker's
\* query, keep everyone else away from a finished execution.
OutcomeChangedByStaleRequestOnly ==
    [][\A e \in Executions :
        db[e].status \in {"success", "failed"} /\ db'[e].status # db[e].status =>
            \E c \in Clients : /\ req[c].op # "idle" /\ req'[c].op = "idle"
                              /\ req[c].exec = e
                              /\ req[c].row.status \notin {"success", "failed"}]_vars

\* The table, the batch and the worker together keep the promise made by
\* ExecutionPromise.
phase ==
    [e \in Executions |->
        IF db[e].status = "none" THEN "absent"
        ELSE IF current = e /\ pc \in RunningPcs THEN "active"
        ELSE IF db[e].completed_at /\ (e \notin batch \/ (current = e /\ pc = "resolve")) THEN "done"
        ELSE IF e \in authorised THEN "cleared" ELSE "held"]

Promise == INSTANCE ExecutionPromise WITH deaths <- crashes
KeepsPromise == Promise!Spec

\* An execution the worker may pick up comes to an end: it is completed, unless
\* someone who had read it while it was pending cancels or expires it.
ReadyEventuallyEnds ==
    \A e \in Executions :
        (db[e].status \in {"approved", "running"} /\ ~db[e].completed_at)
            ~> (db[e].completed_at \/ db[e].status \in {"cancelled", "timeout"})

\* A pending execution whose approval window has passed does not stay pending.
OverdueEventuallyLeaves ==
    \A e \in Executions :
        (db[e].status = "pending" /\ db[e].approval_expires_at = "past")
            ~> db[e].status # "pending"

\* What approve_execution says of the rows it approves: "The background
\* ExecutionWorker will pick up and execute approved runbooks".  The worker takes
\* no row that has a completed_at.
ApprovedCanBePickedUp ==
    \A e \in Executions : db[e].status = "approved" => ~db[e].completed_at

\* What POST /executions/{id}/cancel says it does: "Cancel a pending or running
\* execution".  Once a row is cancelled no command of it is sent.
CancelStopsCommands ==
    [][\A e \in Executions :
        db[e].status = "cancelled" /\ current = e => ~(pc = "step" /\ pc' = "command")]_vars

=============================================================================
