# Formal models of the remediation engine

This directory holds TLA+ specifications of the engine in `src/app`: what its parts do to the
state they share, what must never happen to it, and what must happen in the end. The modules
are checked on small instances with TLC, and the theorems about them are checked by TLAPS for
every value of the constants. Paths below are relative to `src/app` unless they begin with `src/`.

## 1. The system

The engine is a FastAPI process: one event loop, one PostgreSQL database, and background jobs
started with the application (`main.py:178-265`). The container restarts it when it dies
(`src/docker-compose.yml`, `restart: unless-stopped`).

| component | state | operations | what makes it correct |
|---|---|---|---|
| **Execution lifecycle** (`services/execution_worker.py`, `services/runbook_executor.py`) | rows of `runbook_executions`, the worker's batch of loaded objects, the alert and its incident | select a batch, begin, run, conclude, resolve the alert, expire approvals | nothing runs without authority; a run starts once per boot; counters and verdicts tell what happened; ready rows finish |
| **Execution endpoints** (`routers/remediation.py`) | the same rows, read in one round trip and written in another | execute, approve, reject, cancel, retry, test a step, override the breaker | a decision is not taken on a stale row; an outcome is not overwritten |
| **Runbook circuit breaker** (`runbook_executor.py:987`, `routers/remediation.py:1665`) | state and counters per runbook | check, count a result, override | enough failures open it, whoever writes meanwhile |
| **Step loop of a run** (`runbook_executor.py:180-400`) | step executions, captured variables, list of completed steps | condition, render, attempt, retry, capture, stop, roll back | order, retries only where harmless, verdict agrees with the steps, rollback of exactly what succeeded |
| **Executors** (`services/executor_*.py`) | one cached executor per server, with one connection | connect, execute, disconnect | a user's commands go through a connection that is open |
| **Trigger matcher and webhook** (`services/trigger_matcher.py`, `routers/webhook.py`) | triggers, rate limits, cooldowns, alerts by fingerprint | match, admit, insert a pending approval, deduplicate | limits hold under concurrent alerts; one row per alert |
| **Scheduler** (`services/scheduler_service.py`, `routers/scheduler.py`) | rows of scheduled jobs, APScheduler's persistent job store | create, update, pause, resume, delete, trigger, fire, reload at start | table and job store agree; a paused job does not fire; a one-shot fires once; the statistics tell the executions |
| **Agent session** (`routers/agent_api.py`) | agent session and steps; per connection an event and the flags it wakes the agent for; one task entry per session | start, connect, propose, approve, reject, answer, stop | an approval is used for the command it was given for; the record tells what ran; `max_steps` holds; a stop stops |
| **Agent pool** (`services/agent_orchestrator.py`, `workers/background_agent.py`) | pool limits, task rows, asyncio tasks | spawn, schedule, finish, stop | out of reach: no router that uses it is included in `main.py` |
| **ITSM synchronisation** (`services/itsm_sync_worker.py`, `services/itsm_connector.py`, `routers/itsm.py`, `routers/changes.py`) | `last_sync` per integration, change events, analyses | periodic and manual sync, change webhook | what lies behind `last_sync` is stored, what is stored is analysed, every change comes in |
| **Alert clustering** (`services/alert_clustering_service.py`, `services/clustering_worker.py`, `routers/clusters.py`, `routers/alerts.py`) | clusters and the alerts in them | cluster a batch, time out, close, merge, resolve, delete, clean up | an alert keeps its cluster; figures are those of its alerts; clusters close and go for the right reason |
| **Change sets** (`services/changeset_service.py`) | change items and backups | apply, partial failure, roll back | out of reach: `routers/file_ops_api.py` is not included in `main.py` |
| **Query cache** (`services/query_cache.py`) | entries with expiry and last access | get, set, evict | never an expired entry; never above capacity |
| **Safety mechanisms** (`services/safety_mechanisms.py`) | breakers, rate limits, blackout windows | check, record | no live caller; the module is exported and unused |

The rest (agents and tools around language models, dashboards, knowledge base, accounts,
terminals, observability queries) is listed in `PROJECT.json` with the reason it has no model:
its state is text, or rows that a single request reads and writes.

### How the parts interact

* An execution row is inserted by an endpoint, a firing job, or an alert trigger. The worker
  polls the table; nothing wakes it.
* Handlers and worker share rows only through the database. Each session keeps the objects it
  loaded (`database.py:30-45`, `expire_on_commit=False`) and a commit writes the columns that
  session changed, so a writer neither sees nor removes what another wrote to other columns.
* The worker tests `_cancelled` on its executor object. No handler sets it.
* The run, connection tests and ad-hoc commands for a server share the executor object cached
  in `ExecutorFactory._pool`, and each of them connects and disconnects it.
* Breaker rows are written by the worker after a run and by administrators at any time.
* A firing schedule and `POST trigger` insert an execution row for the worker and record it in the
  schedule's statistics in a later commit.
* The clustering job and the cleanup run in threads of APScheduler's executor: between any two
  of their database calls the event loop may run a webhook or a handler, and they commit between
  the statements of one. A successful run resolves its alert, without a word to its cluster.
* The ITSM job, the manual sync and the change webhook are coroutines without an await that
  yields: they exclude each other, and everything else, on the event loop.

### What is hard about it

Reads that are acted upon one round trip later; batches of objects that are stale by the time
they are used; a worker that dies or is stopped between any two awaits; a time-out that leaves
the command running on the host; a connection closed by somebody else; rollback after the
connection has gone; an event and two flags shared by every wait of an agent; two stores (table
and job store) without a common commit; a thread that commits what it read before a merge or a
deletion, or between the statements of a merge; windows that are closed although their fetch was
not complete or their analyses failed. `PROJECT.json` lists these hazards line by line with the
properties that address them.

## 2. Modules

| module | models |
|---|---|
| `ExecutionPromise` | the abstract specification: what an execution goes through, seen from outside |
| `RunbookExecution` | endpoints, worker, breaker, process: the life of execution rows |
| `MCRunbookExecution` | instances of it |
| `RunbookExecutionProofs` | theorems about it: types, authority, number of runs |
| `RunbookResultProofs` | theorems about it: outcomes, tallies, breaker, and that it implements `ExecutionPromise` |
| `StepRunner` | one run: step loop, retries, rollback, over the shared executor |
| `MCStepRunner` | instances of it |
| `StepRunnerProofs` | theorems about it, among them that it implements the worker of `RunbookExecution` |
| `AgentSession`, `MCAgentSession`, `AgentSessionProofs` | one agent session: its connections, their agents, the REST endpoints; theorems about it |
| `Scheduler`, `MCScheduler`, `SchedulerProofs` | one schedule: its row, its job in APScheduler, the requests and the callback; theorems about it |
| `AlertClustering`, `MCAlertClustering`, `AlertClusteringProofs` | the status, the link and the figures of alerts and clusters, and everything that writes them; theorems about it |
| `ITSMSync`, `MCITSMSync`, `ITSMSyncProofs` | external changes, the windows that fetch them, and their analysis; theorems about it |

The modules meet in the execution row: what `Scheduler` inserts is `ScheduledRun` of
`RunbookExecution` (the model of a firing does not depend on what becomes of the row), and
`StepRunner` refines the core's view of one run.

### RunbookExecution

An action is what an actor does between two awaits that reach the database or the host.

* *Rows.* `db` is the table. A row keeps its status, whether `completed_at` is set, its approval
  window (none, ahead, past), the flags the code branches on, and the two step counters. `Flush`
  is the unit of work: column by column, what the session changed.
* *Handlers* are pairs of actions through `req[c]`, the object the handler loaded:
  `ReadForDecision` / `CommitDecision` for approve and reject, `ReadForCancel`, `SubmitCheck` /
  `SubmitInsert`, `ReadForOverride` / `CommitOverride`. Handlers that only insert (`Retry`,
  `TestStep`, `ScheduledRun`, `TriggeredRun`) are one action.
* *Worker.* `pc` follows `_worker_loop`: `select` → (`next` → `loaded` → run → `resolve`)* →
  `scan` → `expire`. `session` holds the objects of the batch, as loaded. A run is `StartRun`,
  then per step `SkipStep`, `RenderingFails` or `IssueCommand` with `StepSucceeds` /
  `StepFails`, then `EndOfSteps` or `StartRollback` / `EndRollback`, or `RunRaises` from
  anywhere in the loop, then `CommitVerdict` (breaker and row in one commit) and `ResolveAlert`.
* *Process.* `Crash` forgets everything but the table. `Stop` cancels the worker's task: in the
  step loop no `except` takes the `CancelledError`, and the `finally` clause commits
  `completed_at` with the status the run had. `Restart` starts over.
* *History.* `authorised`, `runs`, `failures`, `crashes` and `stops` are read by no guard except
  for the two bounds.

`ExecutionPromise` says, per execution: it appears held or cleared; clearing it takes a decision;
only a cleared one becomes active; an active one is done or, when the process dies, cleared
again. `phase` is the refinement mapping and `KeepsPromise` the refinement.

### StepRunner

A `job` is the runbook as the run sees it: per step whether there is a command and whether it
renders, `retry_count`, `continue_on_fail`, the rollback command, and the step whose output it
is conditional on. The executor is `conn`, the connection it holds, and `live`, the connections
that are open; they differ when somebody closed a connection (`BeginClose` … `EndClose` has an
await in between for SSH and API) or replaced it. `tried` records every command given to the
executor and its fate: refused, answered, garbled (answered, and not understood), or left (given
up, the host may go on).

Per transport: SSH without connection answers "Not connected" and may be retried; WinRM and API
reopen. A command step whose answer was read is never retryable; a time-out always is; an API
answer may be. WinRM decodes the output inside the `try` of `execute` (`services/executor_winrm.py:130-169`):
when it is not UTF-8 the answer becomes a retryable connection error (`AnswerGarbled`), and the
command is sent again.
A lost SSH connection may leave a missing exit status, which `exit_status or 0` makes a success
for the step check when 0 is expected (`LostResults`).

`Testers` are the handlers of `routers/servers.py` that enter and leave the same executor.

`RefinesCore` substitutes the run's state into `RunbookExecution` and says that each step of the
run is one of the core's worker, or changes nothing the core sees. The attempts of a step are
inside the core's `command`, connecting and disconnecting inside its `step`.

### AgentSession

A connection is modelled from one await to the next. `pc[c]` is where its agent waits: opening
the SSH connection, the model's reply (`llm`), after each send (`shown`, `asking`, `asked`,
`starting`, `reported`, `resumed`), for the event (`waiting`, `question`), for the command
(`running`). `loaded` is the part of the ORM object that outlives an await: after a commit it is
expired and read again on the next access, but the number read at the loop's head is still the
one used after the model's call. `event`, `approved`, `answer` and `stop_requested` are the
variables the two tasks share; nothing resets the flags between steps.

A client's message names the step it means, which the code never looks at: `granted` records the
approvals, and `astray` that a message ended a wait it was not meant for. `overlap` records that
a task was registered while another connection had not cleaned up. Cancellation reaches an agent
at its await; a send may raise; `Restart` takes all locals along and leaves the row.

### Scheduler

`row` is the table's, `job` what APScheduler has under the same id; both carry the version of the
definition. `req[c]` is a handler between its awaits: read, committed, refreshed, and the call to
APScheduler, which is synchronous. `Replace` is remove-then-add, with remove raising on a job that
is not there, so nothing is added. `Fire` needs fewer running callbacks of the job than
`max_instances`, and takes a one-shot out of the store; `Miss` is a misfire or a full house.

`over` holds the versions whose trigger has no run time left: `TriggerEnds` is the `end_date` of an
interval (`services/scheduler_service.py:202-208`) going by. APScheduler then drops the job after
its last fire (`Handled`), adds it without a run time, which is its paused, on a reload or a PUT
(`Registered`), and removes it when it is resumed (`ApplyResume`). The row stays enabled throughout.

`callback[s]` goes from start over the committed execution to the committed statistics, or to the
failure branch. `Crash` leaves both stores; `Load` adds every enabled schedule again.

Excuses are recorded where they arise: `disturbed` (requests overlapped or were cut off by a
crash), `orphaned` (the row went without its job), `refused` (the last request to end was answered
with an error), `lost` (the commit of the statistics failed).

### AlertClustering

A pass of the job is its database steps: `Read`, a `LookUp` per key, `Commit` (or `RollBack` when
a row it would update is gone: `StaleDataError`), `FindInactive`, `CloseInactive`. The cleanup is
`FindExpired` and `DeleteExpired`.

No handler awaits, so that no two of them overlap, but the threads commit between the statements of
one. Closing and merging go statement by statement through `request`: `Close` and `Merge` read the
rows, `Move` is the bulk UPDATE, which nobody else sees yet, `Recount` the SELECT of `update_stats`,
`CommitRequest` the flush and the commit, and `LoseRequest` what happens when the cleanup has deleted
one of the rows. The statements of the other handlers write one row of an alert and look at nothing
the threads write but `Resolve`'s test for the last alert, which commutes with their commits; each is
one step. `ResolveByRun` is the runbook executor's own (`services/runbook_executor.py:410-428`). The
reason for closing is the user's, and may be `timeout`. `Exact`
is layer 1; layers 2 and 3 may make any disjoint groups of two or more of what is left. `Written`
is the unit of work: a column goes to the database when its value differs from the one read, so a
batch of the size that was read does not overwrite a count merged meanwhile.

`reused`, `thinned`, `untold` and `overtaken` record which clusters had their figures taken from
one batch (alone, or while a merge counted), lost alerts since they were counted, had alerts
resolved or linked past `resolve_alert`, or were written by a handler after a job had chosen them.

### ITSMSync

`change` is the external system's: when a change happened and what its record is like. The connector
drops records without a `change_id` or a timestamp; of those it returns

* a *good* one can be stored by everybody;
* a *dated* one holds a datetime, as every timestamp with a `datetime` transformation does. The job keeps
  the record as JSON (`change_metadata=record`, `services/itsm_sync_worker.py:120`), which refuses it;
  the manual sync and the webhook store it;
* a *nested* one has an object for a `change_id`, at which the query raises before it is sent;
* a *bad* one the database refuses: a text too long, a `change_id` that is a number.

`sync` is the one synchronisation in progress, between two commits: `begun` (window fixed), `fetched`,
`stored`, `marked`, with what the fetch missed and what has yet to be analysed. `Begin` takes any
integration of those left: the job's query has no ORDER BY. `Fetch` returns any part of what was asked
for, since a failing page ends it quietly. `Fail` is the job's handler for an integration
(`Misconfigured`, `TripOver`); `BreakOff` is the same handler after a database error, when its own
access raises. `Analyse` commits one analysis, and `AnalysisFails` is the error its callers log and
forget. `FetchByHand`, `StoreByHand`, `MarkByHand` are the manual sync; `Push` the change webhook.

`lost` and `left` record, per change, that a window was closed without it or that its analysis will
not come by itself; a change that is stored after all is no longer lost, one that is analysed or
deleted no longer left.

## 3. Runs

| run | instance | distinct states | shows |
|---|---|---|---|
| `execution_races` | 1 execution from execute or trigger, 2 clients (symmetric), 2 steps, one crash, one stop | 1.4 million | no run without authority, one run per boot, tallies within runs, outcomes overwritten by stale requests only |
| `execution_batches` | 2 executions from schedule, retry, test and approve, 1 client, 1 step, batches of 1 row, one crash | 60 thousand | refinement of `ExecutionPromise`; ready executions end; overdue approvals leave `pending` |
| `breaker_overrides` | 2 scheduled executions, batches of 2, threshold 2, 2 administrators (symmetric), 1 step, one stop | 1 million | enough failures since the last manual close leave the breaker open |
| `step_loop` | 3 steps, 36 plans, each over the 3 transports and as a dry run, 1 retry, 1 tester | 300 thousand | order, retries, conditions, verdict, rollback, termination, refinement of the core |
| `agent_session` | 2 connections, `max_steps` up to 2, 2 steps, 2 messages or REST requests, restarts | 3.2 million | consent, truth of the records, the step counter, stops |
| `scheduler` | 2 requests at once (symmetric), 1 callback, `max_instances` 1, 1 edit, triggers that end, 1 crash, 2 firings | 2.8 million | table against job store, one-shots, statistics |
| `alert_clustering` | 3 alerts (2 alike, symmetric), 3 keys, windows that end with the hour, 2 hours, 7 handler changes | 2.7 million | figures, open alerts, time-outs, retention, membership |
| `itsm_sync` | 2 integrations, one of them filtering by time, 2 changes, one of them odd at most, 3 moments, 1 crash | 1.1 million | what is behind the mark, what is analysed, what comes in |
| `cancel_ignored` | 1 execution, 1 client, 1 step | violation | finding 1 |
| `late_approval` | 1 execution, 1 client, 1 step | violation | finding 2 |
| `rollback_lost` | SSH, 2 steps with rollback, no tester | violation | finding 3 |
| `run_disturbed` | SSH, 2 steps, 1 tester | violation | finding 4 |

*Why the bounds are enough for the questions asked.* Two clients and the worker give every
interleaving of two stale reads with the worker's stale object. One execution suffices for
races on a row, since handlers and worker touch one row at a time. Two with a batch of one are
needed for starvation and for the order of the queue, two with a batch of two and a threshold of
two for a breaker that opens after failures of different runs. One crash and one stop suffice to leave a
row in each intermediate state and to run it again. Three steps are the fewest where a step can
depend on one that depends on another, where two successes can be rolled back with a failure
after or between them. One retry separates the first, the last and no attempt. One tester can
replace, close or be closed at each await of the run.

Two connections give both an overlap and a client that comes back; two messages give one that is
stale and one that is meant; two steps give a step after the first and reach the maximum. Two
requests race for every pair of handlers of a schedule, and the second firing tells a one-shot
that was registered again from one that was not. Three alerts are the fewest that fill an exact
cluster and leave one over for another layer or a later batch, and seven changes allow receiving
three, resolving, deleting and two merges or closings; the windows are 0, so that they end with the
hour, and the second hour is behind the end of each of them: what is clustered in the first is
inactive, and what is closed in it expired, in the second. Two integrations and two changes place a
record that is not good before, behind and beside a good one, and `OddBound` keeps one of the two
good. Each excuse in these properties was taken out in turn and TLC found the property violated:
none of them stands for a case that cannot happen.

### Fairness

`RunbookExecution` assumes `WF(WorkerStep)`: the loop of `_worker_loop` catches every exception
and sleeps, and each command is bounded by its time-out; and `WF(Restart)`: the container's
restart policy. No client is assumed to act, and no row has to be approved. `StepRunner` assumes
`WF(RunStep)`: commands are bounded by `wait_for` or the HTTP time-out; connecting, closing and
database calls are assumed to return. Nothing is assumed of the testers. `ITSMSync` assumes
`SF(StartPass)`: APScheduler fires the job every 15 minutes whatever else happens, and the step is
disabled while a request is served, so that weak fairness would not say it; and `WF(SyncStep)`: what
is begun awaits nothing but HTTP calls with a time-out. `AgentSession`, `Scheduler` and
`AlertClustering` assume no fairness and state no liveness: an agent waits for its client, a
schedule for the clock, and nothing in the code promises that a cluster closes.

### Findings

1. **A cancelled execution goes on.** `cancel_execution` writes `cancelled` to the row. The run
   does not read the row, `RunbookExecutor.cancel` has no caller, and the verdict overwrites the
   status. The endpoint says it cancels a "pending or running execution".
2. **An approval can come after the end.** An approve that loaded the row before a cancel or a
   time-out leaves it `approved` with `completed_at` set; the worker wants `completed_at` null,
   so the row is never picked up, although the code says it will be.
3. **Rollback over SSH reaches nobody.** It is started after `async with executor` has ended.
   Each rollback command is answered "Not connected" and logged; `rollback_executed` is set.
   WinRM and API reopen a connection, and nobody closes it.
4. **Testing a server takes the connection from a run.** `get_executor` says it creates an
   executor and returns the cached one. A test that leaves it closes what the run uses; the
   run's next SSH attempt finds no connection, and fails the step once the retries are used up.

5. **`POST approve` approves nothing.** It broadcasts `approval_received` and returns success; the
   agent waits for a message of its own socket. "Approve the pending step in an agent session",
   says its docstring. `POST answer` is alike, and `POST reject` marks the step without waking the
   agent, which a later approval over the socket still runs.
6. **The last alert of a cluster cannot be resolved by hand.** `resolve_alert` calls
   `close_cluster`, which the service does not have.
7. **One refused record stops every integration that comes after its own.** The handler that should
   "mark as failed but continue with others" uses a session that has to be rolled back first. Which
   integrations come after is for the database to say, and may change with every pass. The job
   refuses each new record with a datetime in it, and a `datetime` transformation of the timestamp is
   what the shipped templates configure (`services/itsm_connector.py`).
8. **Alerts with metrics cannot be deleted.** The relationship has no cascade and the column is
   NOT NULL; the webhook gives metrics to each alert it stores.
9. **`max_instances` does not prevent overlapping executions**, only overlapping callbacks.
10. **A schedule outlives its `end_date`.** The row stays enabled; nothing fires, and resuming it
    removes its job and answers with success.
11. **A WinRM command that ran is sent again** when its output is not UTF-8 and the step has retries.
12. **A change whose analysis fails is never analysed**, unless it is asked for by hand, or a manual
    sync falls within its first day.

Findings 1 to 4 are runs. 5 to 12 are read off the code where the model has the guard or the
missing action they name.

Seen while modelling and not turned into runs: nothing moves a breaker from `open` to
`half_open`, except by hand; a success does not reset `failure_count`; a successful dry run of an
alert's runbook resolves the alert; `api_retry_on_status_codes` of a step is stored and not read;
API steps with a credential profile go to the server's executor (`_get_executor_for_step` has no
caller); a row `pending_approval` never expires by itself; `POST trigger` can not answer "Failed to
trigger schedule", since the callback keeps its exceptions; a repeated webhook turns an acknowledged
alert back to firing; clusters are closed for inactivity only by a pass that has something to
cluster; a summary written by `_generate_summaries_async` goes to objects of a session that has been
closed, and is not stored; one `change_id` in two systems is one row.

## 4. Proofs

Every safety invariant, action property and refinement that a passing run checks is a theorem,
`Spec => []P` or `Spec => P`, for every value of the constants. The proofs use the named
assumptions of the modules: bounds are natural numbers (some of them positive), `Requests`,
`Operations` and the like are subsets of what exists, and `ITSMSync` has an integration. The
invariants were checked by TLC on the instances above before they were proved.

Each proof has the same layout: an inductive invariant in named parts; lemmas that say what each
action writes, variable by variable; one lemma per group of actions; and a theorem that combines
initialisation and step with PTL.

### RunbookExecution

`RunbookExecutionProofs` has **TypeCorrect**, **Authority** (`NoRunWithoutAuthority`) and
**RunsOnce** (`OneRunPerBoot`):

* `TypeInv` is `TypeOK` with `ControlOK`: where the worker is tells whether an execution is
  current, that it belongs to the batch, that a command is issued within the steps, and that an
  outcome is assigned exactly from the end of the loop to the alert's resolution; a handler that
  decides has a row. `TypeOK` alone is not inductive: `CommitVerdict` needs an outcome and
  `session[current]` a current row.
* `AuthorityInv`: every row that is approved or running and every row of the worker's batch is
  authorised, and a submission about to be inserted as running needs no approval. The worker
  itself never checks: the invariant follows the status through handlers, stale objects and
  restarts.
* `RunsInv`: a row that has been run more often than the process died is either completed, and
  out of the query for good, or the one being run now; and the batch holds neither sort. Rows may
  be overwritten to `approved` or `cancelled` by stale handlers: none clears `completed_at`.

`RunbookResultProofs` goes on from there:

* **OutcomeStands** (`OutcomeChangedByStaleRequestOnly`). `OutcomeInv`: no row of the batch has an
  outcome but the one whose outcome was committed just now, none of those found overdue has one,
  and no request in flight has read a row with one.
* **TalliesAreTrue** (`TalliesWithinRuns`). `TallyInv`: the worker's objects hold the tallies of the
  table, which nobody else writes, and inside a run the tallies with what the steps ahead may add
  stay within `Steps` per run: `Tally + Steps + 1 <= Steps * runs + step`. So a run after a crash, which
  counts on from what the dead one committed, has room for its own.
* **BreakerTrips** (`ThresholdTrips`), for a threshold above 1. `BreakerInv`: the breaker has counted
  at least the failures since the last manual close, and so has the one a verdict has read; and a
  verdict that has read the breaker open commits to an open one, or is the first failure since a
  close. The latter is why the hypothesis is there. With a threshold of 1 the claim is false: the
  verdict had read the breaker open, an administrator closed it, and the verdict's flush adds its
  failure and leaves the state alone. No code writes `failure_threshold`, whose default is 3
  (`models_remediation.py:392`).
* **PromiseIsKept** (`KeepsPromise`), the refinement of `ExecutionPromise`. `Advances` says what
  any step leaves true of one execution: its row stays, and stays completed; only rows that are
  not completed are taken into the batch; only a loaded execution becomes the running one; a run
  is left by completing the row, or by a death. `PhaseMoves` turns this, with the three
  invariants above before and after the step, into a move of the abstract specification.

### StepRunner

`StepRunnerProofs`, from `StepInv == RowInv /\ TriedInv`. `RowInv` relates the steps' rows to the loop:
the steps behind the index are over, or were never touched because one of them failed, none ahead
is touched, one is running while its command is; the counters and `all_success` are those of the
rows; `completed_steps` is the successful steps in order, until the rollback takes them off its
end. `TriedInv` relates what was given to the executor to where the run is: nothing beyond the
present attempt, one command open at most and it the last, what was answered and read behind the run, and
a rollback tried exactly for the successful steps that are no longer to be rolled back.
**TypeCorrect**, **FatalFailureEndsTheLoop**, **ThePlanIsFollowed**, **NothingAnsweredTwice**, **ConditionsAreKept**,
**VerdictIsTrue** and **SuccessesAreRolledBack** follow from it. Testers appear in none of this: what they do
to the connection decides how an attempt ends, not which command is next.

**ImplementsCore** (`RefinesCore`): under the substitution every step is `SkipStep`, `RenderingFails`, `IssueCommand`,
`StepSucceeds`, `StepFails`, `EndOfSteps`, `StartRollback`, `EndRollback` or `RunRaises` of the core's worker, or changes none
of the core's variables. It needs the invariant: the core rolls back when some step succeeded, the
run when `completed_steps` is not empty.

### AgentSession

`AgentSessionProofs`. `PhaseOK`: the step an agent is busy with is its own, and of the kind its place
says. `AloneInv`: without an overlap one agent at most is at work, and the entry is its own
(**TheRunningTaskIsFound**); those a stop reached are on their way out, which gives **StopIsKept**. `RowInv`:
without an overlap, what an agent holds while the model thinks is what the row says, a stop aside,
and below the maximum; hence **StepsAreCounted** and **RowIsClosed**. `FateInv`: a command has not run
before `running`, is open only there or where its agent was cut off (**RecordIsTrue**). `ConsentInv`: an
approval or an answer that wakes an agent is for the step it waits with (**NothingRunsUnasked**). The
last one is where the shared `approved` flag has to be followed from step to step.

### Scheduler

`SchedulerProofs`. `CountInv`: each count is fed by the callbacks, started, then inserted, then recorded or
failed (**RunsAreCounted**, with cardinalities of the callbacks at each place). `OneShotInv`: a date schedule
was handed over at most once per registration, the one still in the store aside (**OneShotIsOnce**). `PairInv`,
for requests that did not overlap: what the one request in flight may count on at each of its awaits
(`Holds`), and that row and job agree when it has changed neither, the end of a trigger aside, which
may leave the row without a job or with one that is paused (**OffIsQuiet**, **OnIsKept**).

### AlertClustering

`AlertClusteringProofs`. `RowInv` is `TypeOK` with `PassInv`: what a pass holds between `Read` and `Commit` is
disjoint groups of alerts that have no cluster yet, and a key it found free is free, since only the pass
makes clusters. `RequestInv` says the same of a request: its rows are there unless they are known to
be gone, what it moved is still linked to its source until it commits, and (`CountInv`) the figures it
read of its target are those of the row and what it counted are the target's alerts, unless the job's
commit crossed it, which `reused` then records. `TypeInv`, both together, gives **AlertsKeepTheirHome** and
**FiguresAreTrue**, the latter with the cardinalities and the latest alert of unions and differences of
member sets.
`ChosenInv`: what was chosen to be closed or deleted is as it was then, or a handler wrote it since
(**TimeoutIsQuiet**, **RetentionIsKept**). **LastAlertStaysOpen** is inductive with the types.

### ITSMSync

`ITSMSyncProofs`. `ClockOK`: nothing is dated after the present. **Analysed** (`StoredIsAnalysed`) is inductive with the
phases of the synchronisation. **NothingLeftBehind** (`BehindTheMark`) needs `WindowInv`: for the window in progress
a change that is wanted is asked for, then among the records fetched, then stored, or its loss is
known; only then does the mark move.

### What stays model-checked

Liveness under fairness is out of TLAPS's reach: `ReadyEventuallyEnds`, `OverdueEventuallyLeaves`, `RunEnds` and
`ComesInUnlessBlocked` are checked by TLC only. The four violations are single counterexamples and need no proof.
That `StepRunner` and `RunbookExecution` compose, as one system with several runs, is not stated: `RefinesCore` is
about the steps of one run.

## 5. Not modelled

* Errors of the database itself: a failing commit in the middle of a run.
* `execute_single_step` (called with arguments it does not have) and `execute_dry_run`.
* Steps whose type does not fit the server's protocol; a step that expects exit code -1, which
  is also what the executors report when there was no answer.
* Shutdown in the middle of an attempt is an action of `RunbookExecution` (`Stop`), not of
  `StepRunner`.
* Credentials, templates, patterns and outputs are abstracted to what the control depends on.
* `AgentSession`: the conversation with the model, SSH connections that cannot be closed, messages
  that are not JSON (they are ignored).
* `Scheduler`: `next_run_at`, two schedules under one name, coalescing of missed runs (each is a
  `Miss` or a `Fire`).
* `AlertClustering`: severity, `first_seen` and metadata, which are written with the count and from
  the same alerts; summaries; the row locks of a pass between flush and commit (those of a merge are
  what `DeleteExpired` waits for); the unique index on
  the key, which one writer of clusters cannot violate.
* `ITSMSync`: updates of rows that are there already, field mapping and pagination apart from what
  they leave out, the same `change_id` in two systems, an integration that is created later. A record
  stays as it is once the change has happened. One whose mapped `change_type` is null, which the
  webhook may bring in all the same, counts as bad. An analysis that fails does so before it touches
  the database; errors of the database there are those of the first item.
* The agent pool and the change sets: nothing reaches their code (the routers are not included
  in `main.py`), so that no behaviour of the system is theirs.
* Components without a module: see `PROJECT.json`.

## 6. Plan

Done: `RunbookExecution`, `StepRunner`, `AgentSession`, `Scheduler`, `AlertClustering`, `ITSMSync`, and the
proofs of everything about them that is not liveness. What is left, in this order:

1. **TriggerAdmission**: rate limit, cooldown and breaker as check-then-act between concurrent alerts,
   deduplication by fingerprint as query-then-insert; with the bound on what concurrent alerts add.
2. **QueryCache**: expiry and eviction against a reference map; never an expired entry, never above
   capacity.
3. Stronger statements about what is modelled: what exactly a stale decision can leave in a row
   (`approved` with `completed_at` set), and the breaker's counters under concurrent overrides.
