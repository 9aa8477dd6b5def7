------------------------------ MODULE Scheduler ------------------------------
(***************************************************************************)
(* One schedule: its row in scheduled_jobs, the job of the same id in      *)
(* APScheduler's persistent store, the handlers of routers/scheduler.py    *)
(* that keep the two in step, the restart of the application, and the      *)
(* callback that turns a firing into an execution for the worker.          *)
(*                                                                         *)
(* A handler is modelled from one await to the next: it reads the row,     *)
(* commits what it changed, and then asks APScheduler, whose calls are     *)
(* synchronous.  SQLAlchemy writes the columns whose value differs from    *)
(* the one that was read.  next_run_at, which is only shown, is left out.  *)
(***************************************************************************)
EXTENDS Integers, FiniteSets

CONSTANTS
    Clients,        \* requests that can be in flight at once
    Slots,          \* callbacks that can be in flight at once
    MaxInstances,   \* max_instances of the schedule
    EditBound,      \* bound: changes of the definition by PUT
    RestartBound,   \* bound: crashes
    StartBound      \* bound: callbacks started

ASSUME MaxInstancesAssumption == MaxInstances \in Nat \ {0}
ASSUME BoundsAssumption == {EditBound, RestartBound, StartBound} \subseteq Nat

\* A definition is a version and whether a trigger can be made of it: PUT validates
\* neither the cron expression nor the time zone.
Definition == [version : 0 .. EditBound, valid : BOOLEAN]

VARIABLES
    kind,           \* schedule_type: "recurring" (cron, interval) or "date"
    runbook,        \* the runbook exists
    row,            \* [state, enabled, definition]
    over,           \* versions whose trigger has no run time left
    job,            \* [state, version]: the job in the store
    up,             \* "loading" while main.py starts the scheduler, then "up"
    req,            \* the request of each client
    callback,       \* _execute_scheduled_runbook, each call in a slot
    executions,     \* executions inserted for the schedule
    run_count, failure_count,
    fired,          \* history: times a date's job was handed to the callback
    started,        \* history: callbacks started
    restarts,       \* history: crashes
    readds,         \* history: a date's registrations after the first, up to StartBound
    disturbed,      \* history: two requests overlapped, or a crash cut one off
    orphaned,       \* history: the row went without its job being removed
    refused,        \* history: the last request to end was answered with an error
    lost            \* history: the commit of the statistics failed

storeVars == <<row, job>>
statVars == <<executions, run_count, failure_count>>
callVars == <<callback, fired, started>>
causeVars == <<disturbed, orphaned, refused, lost>>
vars == <<kind, runbook, over, storeVars, up, req, callVars, statVars, restarts, readds, causeVars>>

Ops == {"create", "update", "pause", "resume", "delete"}

\* A request holds what it last read of the row, as long as it is going to use it.
Idle == [op |-> "none", at |-> "idle", enabled |-> FALSE,
         definition |-> [version |-> 0, valid |-> TRUE]]

Request == [op : Ops \cup {"none"},
            at : {"idle", "read", "committed", "refreshed", "removed", "undo"},
            enabled : BOOLEAN, definition : Definition]

TypeOK ==
    /\ kind \in {"recurring", "date"}
    /\ runbook \in BOOLEAN
    /\ over \subseteq 0 .. EditBound
    /\ row \in [state : {"none", "present", "gone"}, enabled : BOOLEAN, definition : Definition]
    /\ job \in [state : {"absent", "active", "paused"}, version : 0 .. EditBound]
    /\ up \in {"loading", "up"}
    /\ req \in [Clients -> Request]
    /\ callback \in [Slots -> [at : {"idle", "started", "inserted", "failing"}, manual : BOOLEAN]]
    /\ executions \in 0 .. StartBound
    /\ run_count \in 0 .. StartBound
    /\ failure_count \in 0 .. StartBound
    /\ fired \in 0 .. StartBound /\ started \in 0 .. StartBound
    /\ restarts \in 0 .. RestartBound
    /\ readds \in 0 .. StartBound
    /\ {disturbed, orphaned, refused, lost} \subseteq BOOLEAN

NoCallback == [at |-> "idle", manual |-> FALSE]

NoJob == [state |-> "absent", version |-> 0]

Init ==
    /\ kind \in {"recurring", "date"}
    /\ runbook = TRUE
    /\ over = {}
    /\ row = [state |-> "none", enabled |-> FALSE, definition |-> [version |-> 0, valid |-> TRUE]]
    /\ job = NoJob
    /\ up = "up"
    /\ req = [c \in Clients |-> Idle]
    /\ callback = [s \in Slots |-> NoCallback]
    /\ executions = 0 /\ run_count = 0 /\ failure_count = 0
    /\ fired = 0 /\ started = 0 /\ restarts = 0 /\ readds = 0
    /\ disturbed = FALSE /\ orphaned = FALSE /\ refused = FALSE /\ lost = FALSE

---------------------------------------------------------------------------
(* APScheduler's store, and the wrappers of SchedulerService               *)

Present == row.state = "present"
Known == job.state # "absent"

\* A job without a next run time is what APScheduler calls paused: so is one that is
\* added when its trigger has none, after the end_date of an interval.
Registered(definition) ==
    [state |-> IF definition.version \in over THEN "paused" ELSE "active",
     version |-> definition.version]

\* add_schedule: no trigger, no job.
Add(definition) ==
    /\ job' = IF definition.valid THEN Registered(definition) ELSE job
    /\ readds' = IF kind = "date" /\ definition.valid /\ readds < StartBound
                 THEN readds + 1 ELSE readds

\* Mutant: adds without looking at enabled.
ReplaceAlways(enabled, definition) ==
    IF ~Known \/ ~definition.valid
    THEN job' = NoJob /\ UNCHANGED readds
    ELSE Add(definition)

\* update_schedule: remove_job raises on a job that is not there, and nothing is added;
\* otherwise the job is added again if the row is enabled.
Replace(enabled, definition) ==
    IF ~Known \/ ~enabled \/ ~definition.valid
    THEN job' = NoJob /\ UNCHANGED readds
    ELSE Add(definition)

\* Mutant: the error of remove_job is swallowed, as DELETE does.
ReplaceFailsSwallowed(enabled, definition) == enabled /\ ~definition.valid

ReplaceFails(enabled, definition) == ~Known \/ (enabled /\ ~definition.valid)

---------------------------------------------------------------------------
(* Requests                                                                *)

Busy(c) == req[c] # Idle

Begins(c) ==
    /\ up = "up"
    /\ ~Busy(c)
    /\ disturbed' = (disturbed \/ \E d \in Clients \ {c} : Busy(d))

Ends(c, error) ==
    /\ req' = [req EXCEPT ![c] = Idle]
    /\ refused' = error

GoesTo(c, at) ==
    /\ req' = [req EXCEPT ![c] = [Idle EXCEPT !.op = req[c].op, !.at = at]]
    /\ UNCHANGED refused

requestFrame == UNCHANGED <<kind, runbook, over, up, callVars, statVars, restarts, lost>>

\* POST: the row is committed first.
Create(c, enabled, valid) ==
    /\ runbook /\ row.state = "none"
    /\ Begins(c)
    /\ row' = [state |-> "present", enabled |-> enabled,
               definition |-> [version |-> 0, valid |-> valid]]
    /\ IF enabled
       THEN /\ req' = [req EXCEPT ![c] = [Idle EXCEPT !.op = "create", !.at = "committed"]]
            /\ UNCHANGED refused
       ELSE Ends(c, FALSE)
    /\ UNCHANGED <<job, readds, orphaned>>
    /\ requestFrame

\* PUT, pause, resume and DELETE start by reading the row.
Read(c, op) ==
    /\ op \in {"update", "pause", "resume", "delete"}
    /\ Present
    /\ Begins(c)
    /\ req' = [req EXCEPT ![c] = 
            [op |-> op, at |-> "read",
             enabled |-> op # "delete" /\ row.enabled,
             definition |-> IF op = "update" THEN row.definition ELSE Idle.definition]]
    /\ UNCHANGED <<storeVars, readds, orphaned, refused>>
    /\ requestFrame

\* The commit of enabled = e: a column set to the value read is not written, and an
\* UPDATE of a row that is gone raises.
Committed(c, e) ==
    IF Present
    THEN /\ row' = IF e = req[c].enabled THEN row ELSE [row EXCEPT !.enabled = e]
         /\ GoesTo(c, "committed")
    ELSE /\ Ends(c, TRUE)
         /\ UNCHANGED row

CommitPause(c) ==
    /\ req[c].op = "pause" /\ req[c].at = "read"
    /\ Committed(c, FALSE)
    /\ UNCHANGED <<job, readds, disturbed, orphaned>>
    /\ requestFrame

CommitResume(c) ==
    /\ req[c].op = "resume" /\ req[c].at = "read"
    /\ Committed(c, TRUE)
    /\ UNCHANGED <<job, readds, disturbed, orphaned>>
    /\ requestFrame

\* PUT with or without `enabled` among its fields.
CommitEnabled(c, e) ==
    /\ req[c].op = "update" /\ req[c].at = "read"
    /\ Committed(c, e)
    /\ UNCHANGED <<job, readds, disturbed, orphaned>>
    /\ requestFrame

\* PUT with another cron expression, date or time zone.
CommitDefinition(c, valid) ==
    LET definition == [version |-> req[c].definition.version + 1, valid |-> valid] IN
    /\ req[c].op = "update" /\ req[c].at = "read"
    /\ definition.version <= EditBound
    /\ IF Present
       THEN row' = [row EXCEPT !.definition = definition] /\ GoesTo(c, "committed")
       ELSE Ends(c, TRUE) /\ UNCHANGED row
    /\ UNCHANGED <<job, readds, disturbed, orphaned>>
    /\ requestFrame

\* POST and PUT read the row again after their commit.
Refresh(c) ==
    /\ req[c].op \in {"create", "update"} /\ req[c].at = "committed"
    /\ IF Present
       THEN /\ req' = [req EXCEPT ![c].at = "refreshed", ![c].enabled = row.enabled,
                                  ![c].definition = row.definition]
            /\ UNCHANGED refused
       ELSE Ends(c, TRUE)
    /\ UNCHANGED <<storeVars, readds, disturbed, orphaned>>
    /\ requestFrame

\* When the job cannot be added, or next_run_at (if there is one) cannot be written
\* after it was, the row is deleted again; the job is not.
AddCreated(c, written) ==
    /\ req[c].op = "create" /\ req[c].at = "refreshed"
    /\ written \/ req[c].definition.version \notin over
    /\ job' = IF req[c].definition.valid THEN Registered(req[c].definition) ELSE job
    /\ IF req[c].definition.valid /\ written THEN Ends(c, FALSE) ELSE GoesTo(c, "undo")
    /\ UNCHANGED <<row, readds, disturbed, orphaned>>
    /\ requestFrame

UndoCreate(c) ==
    /\ req[c].op = "create" /\ req[c].at = "undo"
    /\ row' = [row EXCEPT !.state = "gone"]
    /\ orphaned' = (orphaned \/ Known)
    /\ Ends(c, TRUE)
    /\ UNCHANGED <<job, readds, disturbed>>
    /\ requestFrame

ApplyUpdate(c) ==
    /\ req[c].op = "update" /\ req[c].at = "refreshed"
    /\ Replace(req[c].enabled, req[c].definition)
    /\ Ends(c, ReplaceFails(req[c].enabled, req[c].definition))
    /\ UNCHANGED <<row, disturbed, orphaned>>
    /\ requestFrame

\* Mutant: a state the store does not know.
ApplyPauseDisabled(c) ==
    /\ req[c].op = "pause" /\ req[c].at = "committed"
    /\ job' = IF Known THEN [job EXCEPT !.state = "disabled"] ELSE job
    /\ Ends(c, ~Known)
    /\ UNCHANGED <<row, readds, disturbed, orphaned>>
    /\ requestFrame

\* pause_job and resume_job raise on a job that is not there.
ApplyPause(c) ==
    /\ req[c].op = "pause" /\ req[c].at = "committed"
    /\ job' = IF Known THEN [job EXCEPT !.state = "paused"] ELSE job
    /\ Ends(c, ~Known)
    /\ UNCHANGED <<row, readds, disturbed, orphaned>>
    /\ requestFrame

\* resume_job removes a job whose trigger has no next run time, without a word.
ApplyResume(c) ==
    /\ req[c].op = "resume" /\ req[c].at = "committed"
    /\ job' = IF ~Known THEN job
              ELSE IF job.version \in over THEN NoJob ELSE [job EXCEPT !.state = "active"]
    /\ Ends(c, ~Known)
    /\ UNCHANGED <<row, readds, disturbed, orphaned>>
    /\ requestFrame

\* DELETE removes the job, if there is one, and then the row.
RemoveJob(c) ==
    /\ req[c].op = "delete" /\ req[c].at = "read"
    /\ job' = NoJob
    /\ GoesTo(c, "removed")
    /\ UNCHANGED <<row, readds, disturbed, orphaned>>
    /\ requestFrame

DeleteRow(c) ==
    /\ req[c].op = "delete" /\ req[c].at = "removed"
    /\ row' = [row EXCEPT !.state = "gone"]
    /\ Ends(c, FALSE)
    /\ UNCHANGED <<job, readds, disturbed, orphaned>>
    /\ requestFrame

---------------------------------------------------------------------------
(* Firing, and the callback _execute_scheduled_runbook                     *)

callFrame == UNCHANGED <<kind, runbook, over, row, up, req, restarts, readds, disturbed, orphaned, refused>>

Start(s, manual) ==
    /\ callback[s].at = "idle"
    /\ started < StartBound
    /\ started' = started + 1
    /\ callback' = [callback EXCEPT ![s] = [at |-> "started", manual |-> manual]]

\* Mutant: the job of a date stays in the store.
HandledStays == job

\* What is left in the store of a job whose run time has been handled.
Handled == IF kind = "date" \/ job.version \in over THEN NoJob ELSE job

\* The run time has come; callbacks of this job only are counted as its instances.
Fire(s) ==
    /\ job.state = "active"
    /\ Cardinality({t \in Slots : callback[t].at # "idle" /\ ~callback[t].manual}) < MaxInstances
    /\ Start(s, FALSE)
    /\ fired' = IF kind = "date" THEN fired + 1 ELSE fired
    /\ job' = Handled
    /\ UNCHANGED <<statVars, lost>>
    /\ callFrame

\* The run time is past misfire_grace_time, or max_instances is reached.
Miss ==
    /\ job.state = "active"
    /\ job' = Handled
    /\ UNCHANGED <<callVars, statVars, lost>>
    /\ callFrame

\* POST trigger calls the callback itself.
Trigger(s) ==
    /\ up = "up"
    /\ Present
    /\ Start(s, TRUE)
    /\ UNCHANGED <<job, fired, statVars, lost>>
    /\ callFrame

Leads(s, at) ==
    callback' = [callback EXCEPT ![s] = IF at = "idle" THEN NoCallback ELSE [@ EXCEPT !.at = at]]

\* The execution is committed before anything is said of it.
InsertExecution(s) ==
    /\ callback[s].at = "started"
    /\ IF runbook
       THEN Leads(s, "inserted") /\ executions' = executions + 1
       ELSE Leads(s, "failing") /\ UNCHANGED executions
    /\ UNCHANGED <<job, fired, started, run_count, failure_count, lost>>
    /\ callFrame

\* Statistics and history in one commit: the history row needs the schedule's.
RecordRun(s) ==
    /\ callback[s].at = "inserted"
    /\ IF Present
       THEN Leads(s, "idle") /\ run_count' = run_count + 1
       ELSE Leads(s, "failing") /\ UNCHANGED run_count
    /\ UNCHANGED <<job, fired, started, executions, failure_count, lost>>
    /\ callFrame

\* That commit fails.
LoseRecord(s) ==
    /\ callback[s].at = "inserted"
    /\ Leads(s, "failing")
    /\ lost' = TRUE
    /\ UNCHANGED <<job, fired, started, statVars>>
    /\ callFrame

\* Mutant: a failure counts as a run.
RecordFailureAsRun(s) ==
    /\ callback[s].at = "failing"
    /\ Leads(s, "idle")
    /\ failure_count' = IF Present THEN failure_count + 1 ELSE failure_count
    /\ UNCHANGED <<job, fired, started, executions, lost>>
    /\ run_count' = run_count + 1
    /\ callFrame

RecordFailure(s) ==
    /\ callback[s].at = "failing"
    /\ Leads(s, "idle")
    /\ failure_count' = IF Present THEN failure_count + 1 ELSE failure_count
    /\ UNCHANGED <<job, fired, started, executions, run_count, lost>>
    /\ callFrame

---------------------------------------------------------------------------
(* The world around                                                        *)

\* The end_date of an interval passes, or leaves it no run time to begin with.
TriggerEnds(version) ==
    /\ kind = "recurring" /\ version \notin over
    /\ version = row.definition.version \/ (Known /\ version = job.version)
    /\ over' = over \cup {version}
    /\ UNCHANGED <<kind, runbook, storeVars, up, req, callVars, statVars, restarts, readds,
                   causeVars>>

\* DELETE of the runbook takes its schedules along; with executions it fails, for their
\* runbook_id may not be null.  Nobody tells APScheduler.
DeleteRunbook ==
    /\ up = "up"
    /\ runbook /\ executions = 0
    /\ runbook' = FALSE
    /\ row' = IF Present THEN [row EXCEPT !.state = "gone"] ELSE row
    /\ orphaned' = (orphaned \/ Present)
    /\ UNCHANGED <<kind, over, job, up, req, callVars, statVars, restarts, readds, disturbed,
                   refused, lost>>

\* The process ends and APScheduler starts again with the jobs it finds in its store.
Crash ==
    /\ restarts < RestartBound
    /\ restarts' = restarts + 1
    /\ up' = "loading"
    /\ disturbed' = (disturbed \/ \E c \in Clients : Busy(c))
    /\ req' = [c \in Clients |-> Idle]
    /\ callback' = [s \in Slots |-> NoCallback]
    /\ UNCHANGED <<kind, runbook, over, storeVars, fired, started, statVars, readds, orphaned,
                   refused, lost>>

\* main.py adds every enabled schedule again, over the job there may be; a definition
\* that makes no trigger is logged.
Load ==
    /\ up = "loading"
    /\ up' = "up"
    /\ IF Present /\ row.enabled
       THEN /\ Add(row.definition)
            /\ refused' = (refused /\ ~row.definition.valid)
       ELSE UNCHANGED <<job, readds, refused>>
    /\ UNCHANGED <<kind, runbook, over, row, req, callVars, statVars, restarts, disturbed,
                   orphaned, lost>>

ClientStep(c) ==
    \/ \E enabled, valid \in BOOLEAN : Create(c, enabled, valid)
    \/ \E op \in Ops : Read(c, op)
    \/ CommitPause(c) \/ CommitResume(c)
    \/ \E e \in BOOLEAN : CommitEnabled(c, e)
    \/ \E valid \in BOOLEAN : CommitDefinition(c, valid)
    \/ Refresh(c)
    \/ \E written \in BOOLEAN : AddCreated(c, written)
    \/ UndoCreate(c)
    \/ ApplyUpdate(c) \/ ApplyPause(c) \/ ApplyResume(c)
    \/ RemoveJob(c) \/ DeleteRow(c)

CallStep(s) == InsertExecution(s) \/ RecordRun(s) \/ LoseRecord(s) \/ RecordFailure(s)

Next ==
    \/ \E c \in Clients : ClientStep(c)
    \/ \E s \in Slots : Fire(s) \/ Trigger(s) \/ CallStep(s)
    \/ Miss
    \/ \E version \in 0 .. EditBound : TriggerEnds(version)
    \/ DeleteRunbook
    \/ Crash
    \/ Load

Spec == Init /\ [][Next]_vars

---------------------------------------------------------------------------
(* Properties                                                              *)

Quiet == up = "up" /\ \A c \in Clients : ~Busy(c)

\* Table and job store are two stores without a common commit.  When no request is in
\* flight, a disabled schedule has no active job and a deleted one has none at all, so
\* nothing fires that the table says is off, unless requests overlapped, a crash came
\* between the commit and APScheduler's call, or the row went without its handler.
OffStaysQuiet ==
    Quiet /\ ~disturbed =>
        /\ Present /\ ~row.enabled => job.state # "active"
        /\ row.state = "gone" => ~Known \/ orphaned

\* When no request is in flight, an enabled recurring schedule has an active job with the
\* definition in the table, unless its trigger has come to its end (the row stays enabled
\* and nothing fires any more), or the last request was answered with an error (a
\* resume, a pause or a PUT of a schedule whose job an earlier PUT or the end of its
\* trigger removed, and a definition that makes no trigger), and under the same
\* reservations.
OnIsScheduled ==
    Quiet /\ kind = "recurring" /\ Present /\ row.enabled /\ ~disturbed /\ ~refused
        /\ row.definition.version \notin over =>
        job = [state |-> "active", version |-> row.definition.version]

\* A date schedule is handed to the callback once for each time it was registered: a
\* second run takes a PUT, or a restart within the grace time, which registers it again
\* with the date that has passed.
OneShotOnce ==
    kind = "date" => fired <= 1 + readds

\* run_count tells how many executions the schedule has led to, those inserted and not
\* yet recorded aside; a crash or a failed commit in between lets it fall behind, and
\* it never runs ahead.
RunCountTellsExecutions ==
    LET unrecorded == Cardinality({s \in Slots : callback[s].at = "inserted"}) IN
    Present =>
        /\ run_count + unrecorded <= executions
        /\ ~lost /\ restarts = 0 => run_count + unrecorded = executions
        /\ run_count + failure_count <= started

=============================================================================
