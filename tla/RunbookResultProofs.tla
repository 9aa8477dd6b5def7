------------------------ MODULE RunbookResultProofs ------------------------
(***************************************************************************)
(* More theorems about RunbookExecution, on the invariants proved in       *)
(* RunbookExecutionProofs: what becomes of an execution.  Its outcome, its *)
(* tallies and the breaker are true whatever the handlers write meanwhile, *)
(* and the whole keeps the promise made in ExecutionPromise.               *)
(***************************************************************************)
EXTENDS RunbookExecutionProofs

Final == {"success", "failed"}

\* Why only a stale request changes an outcome: the worker has done with a row when
\* it commits the outcome, and no request in flight has read a row with one.
OutcomeInv ==
    /\ \A e \in batch : db[e].status \in Final => current = e /\ pc = "resolve"
    /\ \A e \in overdue : db[e].status \notin Final
    /\ overdue # {} => pc = "expire"
    /\ \A c \in Clients : req[c].op \in Deciding => req[c].row.status \notin Final

Tally(row) == row.steps_completed + row.steps_failed

\* Why no step is counted twice: the worker's objects hold the tallies of the table,
\* which nobody else writes, and a run has counted at most the steps it has left behind.
TallyInv ==
    /\ TalliesWithinRuns
    /\ \A e \in batch : /\ session[e].steps_completed = db[e].steps_completed
                        /\ session[e].steps_failed = db[e].steps_failed
    /\ pc \in {"step", "command"} =>
         Tally(db[current]) + Steps + 1 <= Steps * runs[current] + step
    /\ pc \notin RunningPcs \cup {"resolve"} => step = 1

\* Why the breaker opens: it has counted at least the failures since the last close,
\* and a verdict computed from a breaker that was closed meanwhile is the first since.
BreakerInv ==
    /\ ThresholdTrips
    /\ cb.state # "half_open" /\ cb_seen.state # "half_open"
    /\ \A c \in Clients : req[c].breaker.state # "half_open"
    /\ failures <= cb.failure_count
    /\ pc = "verdict" => /\ failures <= cb_seen.failure_count
                         /\ cb_seen.state = "open" => cb.state = "open" \/ failures = 0

---------------------------------------------------------------------------
(* New rows and requests                                                   *)

\* A row as it is inserted.
Fresh(row) ==
    /\ row \in Row
    /\ row.status \in {"pending", "running", "pending_approval"}
    /\ ~row.completed_at
    /\ row.steps_completed = 0 /\ row.steps_failed = 0

SubmittedInv == \A c \in Clients : req[c].op = "execute" => Fresh(req[c].row)

LEMMA FreshRows ==
    \A r \in [approval_required : BOOLEAN, dry_run : BOOLEAN, alert_id : BOOLEAN] :
        /\ Fresh(SubmittedRow(r))
        /\ Fresh(NewRow(r, "running", "none"))
        /\ Fresh(NewRow(r, "pending_approval", "ahead"))
<1> SUFFICES ASSUME NEW r \in [approval_required : BOOLEAN, dry_run : BOOLEAN, alert_id : BOOLEAN]
             PROVE  /\ Fresh(SubmittedRow(r))
                    /\ Fresh(NewRow(r, "running", "none"))
                    /\ Fresh(NewRow(r, "pending_approval", "ahead"))
  OBVIOUS
<1>1. ASSUME NEW s \in {"pending", "running", "pending_approval"}, NEW x \in {"none", "ahead"}
      PROVE  Fresh(NewRow(r, s, x))
  BY DEF NewRow, NoRow, Fresh, Row, Statuses
<1> QED BY <1>1 DEF SubmittedRow

\* Whoever inserts a row without a request.
LEMMA InsertsFresh ==
    ASSUME TypeInv, InsertStep
    PROVE  /\ UNCHANGED <<cb, resolved, req, workerVars, runs, failures, crashes, stops>>
           /\ \E row \in Row, free \in BOOLEAN : Insert(row, free) /\ Fresh(row)
<1> DEFINE Asked == [approval_required : BOOLEAN, dry_run : BOOLEAN, alert_id : BOOLEAN]
<1>1. ASSUME NEW q \in Asked, Insert(SubmittedRow(q), ~MustWait(q))
      PROVE  \E row \in Row, free \in BOOLEAN : Insert(row, free) /\ Fresh(row)
  BY <1>1, FreshRows DEF MustWait, Fresh
<1>2. ASSUME NEW e \in Executions, NEW r \in Requests, Retry(e, r.approval_required)
      PROVE  /\ UNCHANGED <<cb, resolved, req, workerVars, runs, failures, crashes, stops>>
             /\ \E row \in Row, free \in BOOLEAN : Insert(row, free) /\ Fresh(row)
  <2> DEFINE q == [approval_required |-> r.approval_required,
                   dry_run |-> db[e].dry_run, alert_id |-> db[e].alert_id]
  <2>1. q \in Asked
    BY EnvironmentAssumption DEF TypeInv, TypeOK, Row
  <2>2. Insert(SubmittedRow(q), ~MustWait(q))
    BY <1>2 DEF Retry
  <2>3. UNCHANGED <<cb, resolved, req, workerVars, runs, failures, crashes, stops>>
    BY <1>2 DEF Retry
  <2> HIDE DEF q
  <2> QED BY <1>1, <2>1, <2>2, <2>3
<1>3. CASE TestStep
  <2> DEFINE q == [approval_required |-> FALSE, dry_run |-> TRUE, alert_id |-> FALSE]
             row == NewRow(q, "running", "none")
  <2>1. Fresh(row) /\ row \in Row
    BY FreshRows DEF Fresh
  <2>2. Insert(row, TRUE)
    BY <1>3 DEF TestStep
  <2>3. UNCHANGED <<cb, resolved, req, workerVars, runs, failures, crashes, stops>>
    BY <1>3 DEF TestStep
  <2> HIDE DEF row
  <2> QED BY <2>1, <2>2, <2>3
<1>4. ASSUME NEW r \in Requests, ScheduledRun(r.approval_required)
      PROVE  /\ UNCHANGED <<cb, resolved, req, workerVars, runs, failures, crashes, stops>>
             /\ \E row \in Row, free \in BOOLEAN : Insert(row, free) /\ Fresh(row)
  <2> DEFINE q == [approval_required |-> r.approval_required,
                   dry_run |-> FALSE, alert_id |-> FALSE]
  <2>1. q \in Asked
    BY EnvironmentAssumption
  <2>2. Insert(SubmittedRow(q), ~MustWait(q))
    BY <1>4 DEF ScheduledRun
  <2>3. UNCHANGED <<cb, resolved, req, workerVars, runs, failures, crashes, stops>>
    BY <1>4 DEF ScheduledRun
  <2> HIDE DEF q
  <2> QED BY <1>1, <2>1, <2>2, <2>3
<1>5. CASE TriggeredRun
  <2> DEFINE q == [approval_required |-> FALSE, dry_run |-> FALSE, alert_id |-> TRUE]
             row == NewRow(q, "pending_approval", "ahead")
  <2>1. Fresh(row) /\ row \in Row
    BY FreshRows DEF Fresh
  <2>2. Insert(row, FALSE)
    BY <1>5 DEF TriggeredRun
  <2>3. UNCHANGED <<cb, resolved, req, workerVars, runs, failures, crashes, stops>>
    BY <1>5 DEF TriggeredRun
  <2> HIDE DEF row
  <2> QED BY <2>1, <2>2, <2>3
<1> QED BY <1>2, <1>3, <1>4, <1>5 DEF InsertStep

\* A handler that has read and not yet written.
Reads(c) ==
    /\ UNCHANGED <<dbVars, workerVars, historyVars>>
    /\ \E q : /\ req' = [req EXCEPT ![c] = q]
              /\ q.op = "execute" => Fresh(q.row)
              /\ q.op \in Deciding => q.row.status \notin Final /\ db[q.exec].status # "none"
              /\ q.breaker \in {ClosedBreaker, cb}

\* What a client's step is.
LEMMA ClientSteps ==
    ASSUME TypeInv, ClientStep
    PROVE  \E c \in Clients :
             Reads(c) \/ SubmitInsert(c) \/ CommitDecision(c) \/ CommitOverride(c)
<1>1. PICK c \in Clients :
        \/ \E r \in Requests, bypass \in BOOLEAN : SubmitCheck(c, r, bypass)
        \/ SubmitInsert(c)
        \/ \E e \in Executions, op \in {"approve", "reject"} : ReadForDecision(c, e, op)
        \/ \E e \in Executions : ReadForCancel(c, e)
        \/ CommitDecision(c)
        \/ \E action \in {"open", "close"} : ReadForOverride(c, action)
        \/ CommitOverride(c)
  BY DEF ClientStep
<1>2. ASSUME NEW r \in Requests, NEW bypass \in BOOLEAN, SubmitCheck(c, r, bypass)
      PROVE  Reads(c)
  <2> DEFINE q == [Idle EXCEPT !.op = "execute", !.row = SubmittedRow(r)]
  <2>1. /\ q.op = "execute" /\ q.row = SubmittedRow(r) /\ "execute" \notin Deciding
        /\ q.breaker = ClosedBreaker
    BY DEF Idle, Deciding
  <2>2. Fresh(SubmittedRow(r))
    BY EnvironmentAssumption, FreshRows
  <2>3. req' = [req EXCEPT ![c] = q] /\ UNCHANGED <<dbVars, workerVars, historyVars>>
    BY <1>2 DEF SubmitCheck
  <2> HIDE DEF q
  <2> QED BY <2>1, <2>2, <2>3 DEF Reads
<1>3. ASSUME NEW e \in Executions, NEW op \in {"approve", "reject"}, ReadForDecision(c, e, op)
      PROVE  Reads(c)
  <2> DEFINE q == [Idle EXCEPT !.op = IF db[e].approval_expires_at = "past" THEN "expire" ELSE op,
                               !.exec = e, !.row = db[e]]
  <2>1. q.op # "execute" /\ q.exec = e /\ q.row = db[e] /\ q.breaker = ClosedBreaker
    BY DEF Idle
  <2>2. db[e].status \notin Final /\ db[e].status # "none"
    BY <1>3 DEF ReadForDecision, Decidable, Final
  <2>3. req' = [req EXCEPT ![c] = q] /\ UNCHANGED <<dbVars, workerVars, historyVars>>
    BY <1>3 DEF ReadForDecision
  <2> HIDE DEF q
  <2> QED BY <2>1, <2>2, <2>3 DEF Reads
<1>4. ASSUME NEW e \in Executions, ReadForCancel(c, e)
      PROVE  Reads(c)
  <2> DEFINE q == [Idle EXCEPT !.op = "cancel", !.exec = e, !.row = db[e]]
  <2>1. q.op # "execute" /\ q.exec = e /\ q.row = db[e] /\ q.breaker = ClosedBreaker
    BY DEF Idle
  <2>2. db[e].status \notin Final /\ db[e].status # "none"
    BY <1>4 DEF ReadForCancel, Cancellable, Final
  <2>3. req' = [req EXCEPT ![c] = q] /\ UNCHANGED <<dbVars, workerVars, historyVars>>
    BY <1>4 DEF ReadForCancel
  <2> HIDE DEF q
  <2> QED BY <2>1, <2>2, <2>3 DEF Reads
<1>5. ASSUME NEW action \in {"open", "close"}, ReadForOverride(c, action)
      PROVE  Reads(c)
  <2> DEFINE q == [Idle EXCEPT !.op = action, !.breaker = cb]
  <2>1. q.op # "execute" /\ q.op \notin Deciding /\ q.breaker = cb
    BY DEF Idle, Deciding
  <2>2. req' = [req EXCEPT ![c] = q] /\ UNCHANGED <<dbVars, workerVars, historyVars>>
    BY <1>5 DEF ReadForOverride
  <2> HIDE DEF q
  <2> QED BY <2>1, <2>2 DEF Reads
<1> QED BY <1>1, <1>2, <1>3, <1>4, <1>5

LEMMA IdleRequest == Idle.op = "idle" /\ "idle" # "execute" /\ "idle" \notin Deciding
BY DEF Idle, Deciding

LEMMA SubmittedStep ==
    ASSUME TypeInv, SubmittedInv, [Next]_vars
    PROVE  SubmittedInv'
<1>1. CASE UNCHANGED req
  BY <1>1 DEF SubmittedInv
<1>2. CASE ClientStep
  <2>1. PICK c \in Clients : Reads(c) \/ req' = [req EXCEPT ![c] = Idle]
    BY <1>2, ClientSteps DEF SubmitInsert, CommitDecision, CommitOverride
  <2>2. PICK q : req' = [req EXCEPT ![c] = q] /\ (q.op = "execute" => Fresh(q.row))
    BY <2>1, IdleRequest DEF Reads
  <2> QED BY <2>2 DEF SubmittedInv, TypeInv, TypeOK
<1>3. CASE Crash \/ Stop
  BY <1>3, IdleRequest DEF Crash, Stop, LoseMemory, SubmittedInv
<1>4. CASE WorkerStep
  <2>1. UNCHANGED req
    BY <1>4 DEF WorkerStep, SelectBatch, BeginExecution, RefuseExecution, EndBatch, StartRun,
       SkipStep, IssueCommand, StepSucceeds, RenderingFails, StepFails, EndOfSteps, StartRollback,
       EndRollback, RunRaises, CommitVerdict, ResolveAlert, ScanTimeouts, CommitTimeouts, Conclude
  <2> QED BY <1>1, <2>1
<1>5. CASE InsertStep
  BY <1>1, <1>5, InsertsFresh
<1>6. CASE Restart \/ (\E e \in Executions : ApprovalExpires(e)) \/ UNCHANGED vars
  BY <1>1, <1>6 DEF Restart, ApprovalExpires, vars
<1> QED BY <1>2, <1>3, <1>4, <1>5, <1>6 DEF Next, ProcessStep

LEMMA SubmittedInit == Init => SubmittedInv
BY IdleRequest DEF Init, SubmittedInv

---------------------------------------------------------------------------
(* The breaker                                                             *)

\* No step of these changes the breaker, and a verdict keeps what it has read.
LEMMA BreakerQuiet ==
    ASSUME BreakerInv, UNCHANGED <<cb, failures>>, cb_seen'.state # "half_open",
           \A c \in Clients : req'[c].breaker.state # "half_open",
           pc' = "verdict" => pc = "verdict" /\ cb_seen' = cb_seen
    PROVE  BreakerInv'
BY DEF BreakerInv, ThresholdTrips

\* What a flush leaves of a breaker's state and failure count.
LEMMA FlushBreakerFields ==
    ASSUME NEW b, NEW seen, NEW new
    PROVE  /\ FlushBreaker(b, seen, new).state = Column(b.state, seen.state, new.state)
           /\ FlushBreaker(b, seen, new).failure_count
                = Column(b.failure_count, seen.failure_count, new.failure_count)
BY DEF FlushBreaker

\* What a verdict makes of a breaker that is not half open.
LEMMA ResultFields ==
    ASSUME NEW b \in Breaker, b.state # "half_open"
    PROVE  /\ OnResult(b, TRUE).state = b.state
           /\ OnResult(b, TRUE).failure_count = b.failure_count
           /\ OnResult(b, FALSE).failure_count = b.failure_count + 1
           /\ OnResult(b, FALSE).state =
                IF b.state = "closed" /\ b.failure_count + 1 >= FailureThreshold
                THEN "open" ELSE b.state
BY DEF OnResult, OnSuccess, OnFailure, Breaker

LEMMA OverrideFields ==
    ASSUME NEW b \in Breaker
    PROVE  /\ OnOverride(b, "open").state = "open"
           /\ OnOverride(b, "open").failure_count = b.failure_count
           /\ OnOverride(b, "close").state = "closed"
           /\ OnOverride(b, "close").failure_count = 0
BY DEF OnOverride, ClosedBreaker, Breaker

LEMMA BreakerVerdict ==
    ASSUME FailureThreshold > 1, TypeInv, BreakerInv, CommitVerdict
    PROVE  BreakerInv'
<1>1. /\ cb \in Breaker /\ cb_seen \in Breaker /\ failures \in Nat
      /\ FailureThreshold \in Nat /\ pc = "verdict" /\ pc' = "resolve" /\ cb_seen' = cb_seen
      /\ req' = req /\ outcome \in {"success", "failed"}
  BY BoundsAssumption DEF TypeInv, TypeOK, ControlOK, CommitVerdict, runVars
<1>2. /\ cb.state \in {"closed", "open"} /\ cb_seen.state \in {"closed", "open"}
      /\ cb.failure_count \in Nat /\ cb_seen.failure_count \in Nat
      /\ failures <= cb.failure_count /\ failures <= cb_seen.failure_count
      /\ cb.state = "open" \/ failures < FailureThreshold
      /\ cb_seen.state = "open" => cb.state = "open" \/ failures = 0
  BY <1>1 DEF BreakerInv, ThresholdTrips, Breaker
<1> DEFINE new == OnResult(cb_seen, outcome = "success")
<1>3. /\ cb'.state = Column(cb.state, cb_seen.state, new.state)
      /\ cb'.failure_count = Column(cb.failure_count, cb_seen.failure_count, new.failure_count)
  BY FlushBreakerFields DEF CommitVerdict
<1>4. CASE outcome = "success"
  <2>1. new.state = cb_seen.state /\ new.failure_count = cb_seen.failure_count
    BY <1>1, <1>2, <1>4, ResultFields
  <2>2. cb'.state = cb.state /\ cb'.failure_count = cb.failure_count /\ failures' = failures
    BY <1>3, <1>4, <2>1 DEF Column, CommitVerdict
  <2> QED BY <1>1, <1>2, <2>2 DEF BreakerInv, ThresholdTrips
<1>5. CASE outcome = "failed"
  <2>1. new.failure_count = cb_seen.failure_count + 1
    BY <1>1, <1>2, <1>5, ResultFields
  <2>2. new.state = IF cb_seen.state = "closed" /\ cb_seen.failure_count + 1 >= FailureThreshold
                    THEN "open" ELSE cb_seen.state
    BY <1>1, <1>2, <1>5, ResultFields
  <2> HIDE DEF new
  <2>3. cb'.failure_count = cb_seen.failure_count + 1 /\ failures' = failures + 1
    BY <1>2, <1>3, <1>5, <2>1 DEF Column, CommitVerdict
  <2>4. cb'.state \in {"closed", "open"}
    BY <1>2, <1>3, <2>2 DEF Column
  <2>5. cb'.state = "open" \/ failures + 1 < FailureThreshold
    <3>1. CASE cb_seen.state = "open"
      BY <1>1, <1>2, <1>3, <2>2, <3>1 DEF Column
    <3>2. CASE cb_seen.state = "closed"
      BY <1>1, <1>2, <1>3, <2>2, <3>2 DEF Column
    <3> QED BY <1>2, <3>1, <3>2
  <2> QED BY <1>1, <1>2, <2>3, <2>4, <2>5 DEF BreakerInv, ThresholdTrips
<1> QED BY <1>1, <1>4, <1>5

LEMMA BreakerOverride ==
    ASSUME TypeInv, BreakerInv, NEW c \in Clients, CommitOverride(c)
    PROVE  BreakerInv'
<1> DEFINE seen == req[c].breaker
           new == OnOverride(seen, req[c].op)
<1>1. /\ cb \in Breaker /\ cb_seen \in Breaker /\ seen \in Breaker /\ failures \in Nat
      /\ FailureThreshold \in Nat \ {0} /\ pc' = pc /\ cb_seen' = cb_seen
      /\ req[c].op \in {"open", "close"} /\ seen.state # "half_open"
  BY BoundsAssumption DEF TypeInv, TypeOK, Request, CommitOverride, workerVars, runVars, BreakerInv
<1>2. /\ cb.state \in {"closed", "open"} /\ cb.failure_count \in Nat /\ seen.failure_count \in Nat
      /\ cb_seen.failure_count \in Nat
      /\ failures <= cb.failure_count
      /\ cb.state = "open" \/ failures < FailureThreshold
  BY <1>1 DEF BreakerInv, ThresholdTrips, Breaker
<1>3. /\ cb'.state = Column(cb.state, seen.state, new.state)
      /\ cb'.failure_count = Column(cb.failure_count, seen.failure_count, new.failure_count)
  BY FlushBreakerFields DEF CommitOverride
<1>4. \A d \in Clients : req'[d].breaker.state # "half_open"
  <2>1. req' = [req EXCEPT ![c] = Idle] /\ Idle.breaker.state = "closed"
    BY DEF CommitOverride, Idle, ClosedBreaker
  <2> QED BY <2>1 DEF BreakerInv, TypeInv, TypeOK
<1>5. CASE req[c].op = "open"
  <2>1. new.state = "open" /\ new.failure_count = seen.failure_count
    BY <1>1, <1>5, OverrideFields
  <2> HIDE DEF new
  <2>2. cb'.failure_count = cb.failure_count /\ cb'.state \in {cb.state, "open"}
    BY <1>3, <2>1 DEF Column
  <2>3. failures' = failures
    BY <1>5 DEF CommitOverride
  <2> QED BY <1>1, <1>2, <1>4, <2>2, <2>3 DEF BreakerInv, ThresholdTrips
<1>6. CASE req[c].op = "close"
  <2>1. new.state = "closed" /\ new.failure_count = 0
    BY <1>1, <1>6, OverrideFields
  <2> HIDE DEF new
  <2>2. cb'.failure_count \in Nat /\ cb'.state \in {"closed", "open"}
    BY <1>2, <1>3, <2>1 DEF Column
  <2>3. failures' = 0
    BY <1>6 DEF CommitOverride
  <2> QED BY <1>1, <1>2, <1>4, <2>2, <2>3 DEF BreakerInv, ThresholdTrips
<1> QED BY <1>1, <1>5, <1>6

LEMMA BreakerWorkerStep ==
    ASSUME FailureThreshold > 1, TypeInv, BreakerInv, WorkerStep
    PROVE  BreakerInv'
<1>1. CASE CommitVerdict
  BY <1>1, BreakerVerdict
<1>2. CASE EndOfSteps \/ EndRollback \/ RunRaises
  <2>1. cb_seen' = cb /\ UNCHANGED <<cb, failures, req>>
    BY <1>2 DEF EndOfSteps, EndRollback, RunRaises, Conclude, dbVars, historyVars
  <2> QED BY <2>1 DEF BreakerInv, ThresholdTrips
<1>3. CASE RefuseExecution \/ ResolveAlert
  <2>1. ClosedBreaker.state = "closed"
    BY DEF ClosedBreaker
  <2>2. cb_seen' = ClosedBreaker /\ UNCHANGED <<cb, failures, req>> /\ pc' # "verdict"
    BY <1>3 DEF RefuseExecution, ResolveAlert, LeaveExecution, historyVars
  <2> QED BY <2>1, <2>2, BreakerQuiet DEF BreakerInv
<1>4. CASE \/ SelectBatch \/ BeginExecution \/ EndBatch \/ StartRun \/ SkipStep \/ IssueCommand
           \/ StepSucceeds \/ StartRollback \/ ScanTimeouts \/ CommitTimeouts
           \/ \E b \in BOOLEAN : RenderingFails(b) \/ StepFails(b)
  <2>1. UNCHANGED <<cb, cb_seen, failures, req>> /\ (pc' = "verdict" => pc = "verdict")
    BY <1>4 DEF SelectBatch, BeginExecution, EndBatch, StartRun, SkipStep, IssueCommand,
       StepSucceeds, StartRollback, ScanTimeouts, CommitTimeouts, RenderingFails, StepFails,
       dbVars, runVars, historyVars
  <2> QED BY <2>1, BreakerQuiet DEF BreakerInv
<1> QED BY <1>1, <1>2, <1>3, <1>4 DEF WorkerStep

LEMMA BreakerClientStep ==
    ASSUME TypeInv, BreakerInv, ClientStep
    PROVE  BreakerInv'
<1>1. PICK c \in Clients :
        Reads(c) \/ SubmitInsert(c) \/ CommitDecision(c) \/ CommitOverride(c)
  BY ClientSteps
<1>2. CASE CommitOverride(c)
  BY <1>2, BreakerOverride
<1>3. CASE Reads(c) \/ SubmitInsert(c) \/ CommitDecision(c)
  <2>1. UNCHANGED <<cb, failures, pc, cb_seen>>
    BY <1>3 DEF Reads, SubmitInsert, CommitDecision, dbVars, workerVars, runVars, historyVars
  <2>2. Idle.breaker = ClosedBreaker /\ ClosedBreaker.state = "closed"
    BY DEF Idle, ClosedBreaker
  <2>3. PICK q : req' = [req EXCEPT ![c] = q] /\ q.breaker \in {ClosedBreaker, cb}
    BY <1>3, <2>2 DEF Reads, SubmitInsert, CommitDecision
  <2>4. \A d \in Clients : req'[d].breaker.state # "half_open"
    BY <2>2, <2>3 DEF BreakerInv, TypeInv, TypeOK
  <2> QED BY <2>1, <2>4, BreakerQuiet DEF BreakerInv
<1> QED BY <1>1, <1>2, <1>3

LEMMA BreakerProcessStep ==
    ASSUME TypeInv, BreakerInv, ProcessStep
    PROVE  BreakerInv'
<1>1. Idle.breaker.state = "closed" /\ ClosedBreaker.state = "closed"
  BY DEF Idle, ClosedBreaker
<1>2. /\ cb \in Breaker /\ failures \in Nat /\ FailureThreshold \in Nat
      /\ cb.state \in {"closed", "open"} /\ cb.failure_count \in Nat
  BY BoundsAssumption DEF TypeInv, TypeOK, BreakerInv, Breaker
<1>3. CASE Crash \/ Stop
  <2>1. LoseMemory
    BY <1>3 DEF Crash, Stop
  <2>2. /\ cb_seen'.state = "closed" /\ pc' # "verdict"
        /\ \A c \in Clients : req'[c].breaker.state # "half_open"
    BY <1>1, <2>1 DEF LoseMemory
  <2>3. CASE UNCHANGED <<cb, failures>>
    BY <2>2, <2>3, BreakerQuiet
  <2>4. CASE cb' = OnResult(cb, FALSE) /\ failures' = failures + 1
    <3>1. cb'.failure_count = cb.failure_count + 1
      BY <1>2, <2>4, ResultFields
    <3>2. cb'.state = IF cb.state = "closed" /\ cb.failure_count + 1 >= FailureThreshold
                      THEN "open" ELSE cb.state
      BY <1>2, <2>4, ResultFields
    <3>3. failures <= cb.failure_count /\ (cb.state = "open" \/ failures < FailureThreshold)
      BY <1>2 DEF BreakerInv, ThresholdTrips
    <3>4. cb'.state \in {"closed", "open"} /\ (cb'.state = "open" \/ failures + 1 < FailureThreshold)
      BY <1>2, <3>2, <3>3
    <3>5. failures' = failures + 1 /\ failures \in Nat
      BY <1>2, <2>4
    <3>6. failures' <= cb'.failure_count
      BY <1>2, <3>1, <3>3, <3>5
    <3>7. failures' >= FailureThreshold => cb'.state = "open"
      BY <1>2, <3>4, <3>5
    <3>8. cb'.state # "half_open" /\ cb_seen'.state # "half_open"
      BY <2>2, <3>4
    <3> QED BY <2>2, <3>6, <3>7, <3>8 DEF BreakerInv, ThresholdTrips
  <2> QED BY <1>3, <2>3, <2>4 DEF Crash, Stop, dbVars
<1>4. CASE Restart
  BY <1>4, BreakerQuiet DEF Restart, BreakerInv, dbVars, runVars, historyVars
<1> QED BY <1>3, <1>4 DEF ProcessStep

\* When as many runs have failed since the last manual close as the threshold says, the
\* breaker is open, whichever way overrides and verdicts overtake each other.  With a
\* threshold of 1 the claim is false: a verdict that had read the breaker open before an
\* administrator closed it adds its failure and leaves the breaker closed.  No code
\* writes the threshold of a breaker, which is 3.
THEOREM BreakerTrips == FailureThreshold > 1 => (Spec => []ThresholdTrips)
<1> SUFFICES ASSUME FailureThreshold > 1 PROVE Spec => []ThresholdTrips
  OBVIOUS
<1>1. Init => BreakerInv
  <2> SUFFICES ASSUME Init PROVE BreakerInv
    OBVIOUS
  <2>1. /\ ClosedBreaker.state = "closed" /\ ClosedBreaker.failure_count = 0
        /\ Idle.breaker = ClosedBreaker
    BY DEF ClosedBreaker, Idle
  <2> QED BY <2>1, BoundsAssumption DEF Init, BreakerInv, ThresholdTrips
<1>2. TypeInv /\ BreakerInv /\ [Next]_vars => BreakerInv'
  <2> SUFFICES ASSUME TypeInv, BreakerInv, [Next]_vars PROVE BreakerInv'
    OBVIOUS
  <2>1. CASE WorkerStep
    BY <2>1, BreakerWorkerStep
  <2>2. CASE ClientStep
    BY <2>2, BreakerClientStep
  <2>3. CASE ProcessStep
    BY <2>3, BreakerProcessStep
  <2>4. CASE InsertStep \/ \E e \in Executions : ApprovalExpires(e)
    <3>1. UNCHANGED <<cb, failures, req, pc, cb_seen>>
      BY <2>4 DEF InsertStep, Retry, TestStep, ScheduledRun, TriggeredRun, ApprovalExpires,
         workerVars, runVars, historyVars
    <3> QED BY <3>1, BreakerQuiet DEF BreakerInv
  <2>5. CASE UNCHANGED vars
    BY <2>5, BreakerQuiet DEF BreakerInv, vars, dbVars, workerVars, runVars, historyVars
  <2> QED BY <2>1, <2>2, <2>3, <2>4, <2>5 DEF Next
<1>3. Spec => [](TypeInv /\ BreakerInv)
  BY <1>1, <1>2, TypeInvInit, TypeInvInductive, PTL DEF Spec
<1>4. BreakerInv => ThresholdTrips
  BY DEF BreakerInv
<1> QED BY <1>3, <1>4, PTL

---------------------------------------------------------------------------
(* Outcomes                                                                *)

\* What a commit of the worker's session makes of the columns it may write.
LEMMA FlushColumns ==
    ASSUME NEW stored \in Row, NEW seen \in Row, NEW new \in Row
    PROVE  /\ Flush(stored, seen, new).status = Column(stored.status, seen.status, new.status)
           /\ Flush(stored, seen, new).completed_at
                = Column(stored.completed_at, seen.completed_at, new.completed_at)
           /\ Flush(stored, seen, new).steps_completed
                = Column(stored.steps_completed, seen.steps_completed, new.steps_completed)
           /\ Flush(stored, seen, new).steps_failed
                = Column(stored.steps_failed, seen.steps_failed, new.steps_failed)
BY DEF Flush, Row

LEMMA SaveColumns ==
    ASSUME TypeInv, NEW e \in batch, NEW new \in Row, Save(e, new)
    PROVE  /\ e \in Executions /\ db[e] \in Row /\ session[e] \in Row
           /\ \A f \in Executions : f # e => db'[f] = db[f] /\ session'[f] = session[f]
           /\ session'[e] = new
           /\ db'[e].status = Column(db[e].status, session[e].status, new.status)
           /\ db'[e].completed_at
                = Column(db[e].completed_at, session[e].completed_at, new.completed_at)
           /\ db'[e].steps_completed
                = Column(db[e].steps_completed, session[e].steps_completed, new.steps_completed)
           /\ db'[e].steps_failed
                = Column(db[e].steps_failed, session[e].steps_failed, new.steps_failed)
<1>1. e \in Executions /\ db[e] \in Row /\ session[e] \in Row
  BY DEF TypeInv, TypeOK
<1>2. db'[e] = Flush(db[e], session[e], new) /\ session'[e] = new
  BY <1>1 DEF Save, TypeInv, TypeOK
<1>3. \A f \in Executions : f # e => db'[f] = db[f] /\ session'[f] = session[f]
  BY DEF Save, TypeInv, TypeOK
<1> QED BY <1>1, <1>2, <1>3, FlushColumns

\* What the steps of the worker write into the columns of its object.
Touched == [session[current] EXCEPT !.status = "running"]
Refused == [session[current] EXCEPT !.status = "failed", !.completed_at = TRUE]
Concluded == [session[current] EXCEPT !.status = outcome, !.completed_at = TRUE]
OneMore == [session[current] EXCEPT !.steps_completed = @ + 1]
OneMoreFailed == [session[current] EXCEPT !.steps_failed = @ + 1]

LEMMA EditFields ==
    ASSUME session[current] \in Row
    PROVE  /\ Touched \in Row /\ Touched.status = "running"
           /\ Touched.completed_at = session[current].completed_at
           /\ Touched.steps_completed = session[current].steps_completed
           /\ Touched.steps_failed = session[current].steps_failed
           /\ Refused \in Row /\ Refused.status = "failed" /\ Refused.completed_at
           /\ Refused.steps_completed = session[current].steps_completed
           /\ Refused.steps_failed = session[current].steps_failed
           /\ outcome \in Final => Concluded \in Row
           /\ Concluded.status = outcome /\ Concluded.completed_at
           /\ Concluded.steps_completed = session[current].steps_completed
           /\ Concluded.steps_failed = session[current].steps_failed
           /\ OneMore \in Row /\ OneMore.status = session[current].status
           /\ OneMore.completed_at = session[current].completed_at
           /\ OneMore.steps_completed = session[current].steps_completed + 1
           /\ OneMore.steps_failed = session[current].steps_failed
           /\ OneMoreFailed \in Row /\ OneMoreFailed.status = session[current].status
           /\ OneMoreFailed.completed_at = session[current].completed_at
           /\ OneMoreFailed.steps_completed = session[current].steps_completed
           /\ OneMoreFailed.steps_failed = session[current].steps_failed + 1
<1>1. /\ Touched \in Row /\ Refused \in Row /\ OneMore \in Row /\ OneMoreFailed \in Row
      /\ outcome \in Final => Concluded \in Row
  BY EditTypes DEF Touched, Refused, OneMore, OneMoreFailed, Concluded, Final
<1>2. /\ Touched.status = "running"
      /\ Touched.completed_at = session[current].completed_at
      /\ Touched.steps_completed = session[current].steps_completed
      /\ Touched.steps_failed = session[current].steps_failed
  BY DEF Touched, Row
<1>3. /\ Refused.status = "failed" /\ Refused.completed_at
      /\ Refused.steps_completed = session[current].steps_completed
      /\ Refused.steps_failed = session[current].steps_failed
  BY DEF Refused, Row
<1>4. /\ Concluded.status = outcome /\ Concluded.completed_at
      /\ Concluded.steps_completed = session[current].steps_completed
      /\ Concluded.steps_failed = session[current].steps_failed
  BY DEF Concluded, Row
<1>5. /\ OneMore.status = session[current].status
      /\ OneMore.completed_at = session[current].completed_at
      /\ OneMore.steps_completed = session[current].steps_completed + 1
      /\ OneMore.steps_failed = session[current].steps_failed
  BY DEF OneMore, Row
<1>6. /\ OneMoreFailed.status = session[current].status
      /\ OneMoreFailed.completed_at = session[current].completed_at
      /\ OneMoreFailed.steps_completed = session[current].steps_completed
      /\ OneMoreFailed.steps_failed = session[current].steps_failed + 1
  BY DEF OneMoreFailed, Row
<1> QED BY <1>1, <1>2, <1>3, <1>4, <1>5, <1>6

\* The run the worker is at.
LEMMA CurrentRow ==
    ASSUME TypeInv, pc \in BusyPcs
    PROVE  /\ current \in batch /\ current \in Executions
           /\ db[current] \in Row /\ session[current] \in Row
           /\ pc = "verdict" => outcome \in Final
BY DEF TypeInv, TypeOK, ControlOK, Final

\* The steps of the worker that save, with what they save.
LEMMA WorkerSaves ==
    ASSUME TypeInv
    PROVE  /\ RefuseExecution => Save(current, Refused) /\ pc = "loaded"
           /\ StartRun => Save(current, Touched) /\ pc = "loaded"
           /\ StepSucceeds => Save(current, OneMore) /\ pc = "command"
           /\ \A b \in BOOLEAN : StepFails(b) => Save(current, OneMoreFailed) /\ pc = "command"
           /\ CommitVerdict => Save(current, Concluded) /\ pc = "verdict"
BY DEF RefuseExecution, StartRun, StepSucceeds, StepFails, CommitVerdict,
       Refused, Touched, OneMore, OneMoreFailed, Concluded

\* The first save of a row: the object loaded with the batch, marked running.
LEMMA BeginSaves ==
    ASSUME TypeInv, BeginExecution
    PROVE  \E e \in batch, new \in Row :
             /\ current' = e /\ Save(e, new)
             /\ new.status = "running"
             /\ new.completed_at = session[e].completed_at
             /\ new.steps_completed = session[e].steps_completed
             /\ new.steps_failed = session[e].steps_failed
<1>1. PICK e \in batch : current' = e /\ Save(e, [session[e] EXCEPT !.status = "running"])
  BY DEF BeginExecution
<1> DEFINE new == [session[e] EXCEPT !.status = "running"]
<1>2. session[e] \in Row
  BY DEF TypeInv, TypeOK
<1>3. /\ new \in Row /\ new.status = "running"
      /\ new.completed_at = session[e].completed_at
      /\ new.steps_completed = session[e].steps_completed
      /\ new.steps_failed = session[e].steps_failed
  BY <1>2, EditTypes DEF Row
<1> QED BY <1>1, <1>3

\* A step that writes no outcome and takes nothing in.
LEMMA OutcomeQuiet ==
    ASSUME TypeInv, OutcomeInv, batch' \subseteq batch, overdue' \subseteq overdue,
           overdue' # {} => pc' = "expire",
           \A e \in Executions : db'[e].status \in Final => db[e].status \in Final,
           \A c \in Clients : req'[c].op \in Deciding => req'[c].row.status \notin Final,
           current \in batch' /\ pc = "resolve" => current' = current /\ pc' = "resolve"
    PROVE  OutcomeInv'
BY DEF OutcomeInv, TypeInv, TypeOK

\* No step of the worker changes an outcome, and it writes one when it is done with
\* the row.
LEMMA OutcomeSaves ==
    ASSUME TypeInv, OutcomeInv, NEW e \in batch, NEW new \in Row, Save(e, new),
           pc = "next" \/ (current = e /\ pc # "resolve")
    PROVE  /\ db[e].status \notin Final
           /\ \A f \in Executions : f # e => db'[f] = db[f]
           /\ db'[e].status \in {db[e].status, new.status}
<1>1. db'[e].status = Column(db[e].status, session[e].status, new.status)
  BY SaveColumns
<1>2. \A f \in Executions : f # e => db'[f] = db[f]
  BY SaveColumns
<1>3. db[e].status \notin Final
  BY DEF OutcomeInv
<1> QED BY <1>1, <1>2, <1>3 DEF Column

OutcomesKept == \A e \in Executions : db[e].status \in Final => db'[e].status = db[e].status

LEMMA OutcomeWorkerStep ==
    ASSUME TypeInv, OutcomeInv, WorkerStep
    PROVE  OutcomeInv' /\ OutcomesKept
<1>1. \A c \in Clients : req[c].op \in Deciding => req[c].row.status \notin Final
  BY DEF OutcomeInv
<1>2. pc # "expire" => overdue = {}
  BY DEF OutcomeInv
<1>3. CASE SelectBatch
  <2>1. /\ \A e \in batch' : db[e].status \notin Final
        /\ UNCHANGED <<db, req, overdue>> /\ pc = "select"
    BY <1>3 DEF SelectBatch, FirstQueued, Eligible, Final, dbVars
  <2> QED BY <1>1, <1>2, <2>1 DEF OutcomeInv, OutcomesKept
<1>4. CASE BeginExecution
  <2>1. pc = "next" /\ pc' = "loaded" /\ UNCHANGED <<batch, overdue, req>>
    BY <1>4 DEF BeginExecution
  <2>2. PICK e \in batch, new \in Row : Save(e, new) /\ new.status = "running"
    BY <1>4, BeginSaves
  <2>3. /\ db[e].status \notin Final /\ \A f \in Executions : f # e => db'[f] = db[f]
        /\ db'[e].status \in {db[e].status, "running"}
    BY <2>1, <2>2, OutcomeSaves
  <2>4. \A f \in Executions : db'[f].status \in Final <=> db[f].status \in Final
    BY <2>3 DEF Final
  <2>5. OutcomeInv'
    BY <1>1, <1>2, <2>1, <2>4, OutcomeQuiet
  <2> QED BY <2>3, <2>5 DEF OutcomesKept
<1>5. CASE RefuseExecution
  <2>1. /\ pc = "loaded" /\ Save(current, Refused) /\ batch' = batch \ {current}
        /\ pc' = "next" /\ UNCHANGED <<overdue, req>>
    BY <1>5, WorkerSaves DEF RefuseExecution, LeaveExecution
  <2>2. current \in batch /\ Refused \in Row
    BY <2>1, CurrentRow, EditFields DEF BusyPcs
  <2>3. db[current].status \notin Final /\ \A f \in Executions : f # current => db'[f] = db[f]
    BY <2>1, <2>2, OutcomeSaves
  <2>4. \A f \in batch' : db'[f].status \notin Final
    BY <2>1, <2>3 DEF OutcomeInv, TypeInv, TypeOK
  <2>5. OutcomeInv'
    BY <1>1, <1>2, <2>1, <2>4 DEF OutcomeInv
  <2> QED BY <2>3, <2>5 DEF OutcomesKept
<1>6. CASE StartRun \/ StepSucceeds \/ \E b \in BOOLEAN : StepFails(b)
  <2>1. pc \in {"loaded", "command"} /\ pc' = "step" /\ UNCHANGED <<batch, overdue, req>>
    BY <1>6 DEF StartRun, StepSucceeds, StepFails, runVars
  <2>2. current \in batch /\ session[current] \in Row
    BY <2>1, CurrentRow DEF BusyPcs, RunningPcs
  <2>3. PICK new \in Row : Save(current, new) /\ new.status \in {"running", session[current].status}
    BY <1>6, <2>2, WorkerSaves, EditFields
  <2>4. /\ db[current].status \notin Final
        /\ \A f \in Executions : f # current => db'[f] = db[f]
        /\ db'[current].status \in {db[current].status, "running"}
    <3>1. /\ db[current].status \notin Final
          /\ \A f \in Executions : f # current => db'[f] = db[f]
      BY <2>1, <2>2, <2>3, OutcomeSaves
    <3>2. db'[current].status = Column(db[current].status, session[current].status, new.status)
      BY <2>2, <2>3, SaveColumns
    <3> QED BY <2>3, <3>1, <3>2 DEF Column
  <2>5. \A f \in Executions : db'[f].status \in Final <=> db[f].status \in Final
    BY <2>4 DEF Final
  <2>6. OutcomeInv'
    BY <1>1, <1>2, <2>1, <2>5, OutcomeQuiet
  <2> QED BY <2>4, <2>6 DEF OutcomesKept
<1>7. CASE CommitVerdict
  <2>1. /\ pc = "verdict" /\ pc' = "resolve" /\ Save(current, Concluded)
        /\ UNCHANGED <<batch, current, overdue, req>>
    BY <1>7, WorkerSaves DEF CommitVerdict, runVars
  <2>2. current \in batch /\ Concluded \in Row
    BY <2>1, CurrentRow, EditFields DEF BusyPcs, RunningPcs
  <2>3. db[current].status \notin Final /\ \A f \in Executions : f # current => db'[f] = db[f]
    BY <2>1, <2>2, OutcomeSaves
  <2>4. \A f \in batch' : db'[f].status \in Final => f = current
    BY <2>1, <2>3 DEF OutcomeInv, TypeInv, TypeOK
  <2>5. OutcomeInv'
    BY <1>1, <1>2, <2>1, <2>4 DEF OutcomeInv
  <2> QED BY <2>3, <2>5 DEF OutcomesKept
<1>8. CASE ResolveAlert
  <2>1. /\ batch' = batch \ {current} /\ UNCHANGED <<db, overdue, req>>
        /\ pc = "resolve" /\ pc' = "next"
    BY <1>8 DEF ResolveAlert, LeaveExecution
  <2> QED BY <1>1, <1>2, <2>1 DEF OutcomeInv, OutcomesKept
<1>9. CASE ScanTimeouts
  <2>1. /\ \A e \in overdue' : db[e].status \notin Final
        /\ overdue' # {} => pc' = "expire"
        /\ UNCHANGED <<db, req, batch, current>> /\ pc = "scan"
    BY <1>9 DEF ScanTimeouts, Final, dbVars, runVars
  <2> QED BY <1>1, <2>1 DEF OutcomeInv, OutcomesKept
<1>10. CASE CommitTimeouts
  <2>1. \A e \in Executions : db'[e].status = (IF e \in overdue THEN "timeout" ELSE db[e].status)
    BY <1>10 DEF CommitTimeouts, TypeInv, TypeOK, Row
  <2>2. \A e \in overdue : db[e].status \notin Final
    BY DEF OutcomeInv
  <2>3. overdue' = {} /\ UNCHANGED <<req, batch, current>> /\ pc = "expire" /\ pc' = "select"
    BY <1>10 DEF CommitTimeouts, runVars
  <2>4. \A f \in Executions : db'[f].status \in Final <=> db[f].status \in Final
    BY <2>1, <2>2 DEF Final
  <2>5. OutcomeInv'
    BY <1>1, <2>3, <2>4, OutcomeQuiet
  <2> QED BY <2>1, <2>2, <2>5 DEF OutcomesKept
<1>11. CASE \/ EndBatch \/ SkipStep \/ IssueCommand \/ EndOfSteps \/ StartRollback
            \/ EndRollback \/ RunRaises \/ \E b \in BOOLEAN : RenderingFails(b)
  <2>1. UNCHANGED <<db, req, batch, overdue>> /\ pc \notin {"resolve", "expire"}
    BY <1>11 DEF EndBatch, SkipStep, IssueCommand, EndOfSteps, StartRollback, EndRollback,
       RunRaises, RenderingFails, Conclude, dbVars, runVars
  <2>2. OutcomeInv'
    BY <1>1, <1>2, <2>1, OutcomeQuiet
  <2> QED BY <2>1, <2>2 DEF OutcomesKept
<1> QED BY <1>3, <1>4, <1>5, <1>6, <1>7, <1>8, <1>9, <1>10, <1>11 DEF WorkerStep

\* A new row has no outcome.
LEMMA OutcomeInsert ==
    ASSUME TypeInv, OutcomeInv, NEW row \in Row, NEW free \in BOOLEAN, Insert(row, free),
           row.status \notin Final, UNCHANGED <<batch, overdue, pc, current>>,
           \A c \in Clients : req'[c].op \in Deciding => req'[c].row.status \notin Final
    PROVE  OutcomeInv' /\ OutcomesKept
<1>1. PICK e \in Executions : db[e].status = "none" /\ db' = [db EXCEPT ![e] = row]
  BY DEF Insert, NextFree
<1>2. db'[e] = row /\ \A f \in Executions : f # e => db'[f] = db[f]
  BY <1>1 DEF TypeInv, TypeOK
<1>3. \A f \in Executions : db'[f].status \in Final <=> db[f].status \in Final
  BY <1>1, <1>2 DEF Final
<1>4. overdue' # {} => pc' = "expire"
  BY DEF OutcomeInv
<1>5. OutcomeInv'
  BY <1>3, <1>4, OutcomeQuiet
<1> QED BY <1>1, <1>2, <1>5 DEF OutcomesKept, Final

LEMMA OutcomeClientStep ==
    ASSUME TypeInv, SubmittedInv, OutcomeInv, ClientStep
    PROVE  /\ OutcomeInv'
           /\ OutcomesKept \/ \E c \in Clients :
                /\ req[c].op \in Deciding /\ req'[c].op = "idle"
                /\ req[c].row.status \notin Final
                /\ \A e \in Executions : e # req[c].exec => db'[e] = db[e]
<1>1. PICK c \in Clients :
        Reads(c) \/ SubmitInsert(c) \/ CommitDecision(c) \/ CommitOverride(c)
  BY ClientSteps
<1>2. overdue # {} => pc = "expire"
  BY DEF OutcomeInv
<1>3. UNCHANGED <<batch, overdue, pc, current>>
  BY <1>1 DEF Reads, SubmitInsert, CommitDecision, CommitOverride, workerVars, runVars
<1>4. \A d \in Clients : req'[d].op \in Deciding => req'[d].row.status \notin Final
  <2>1. PICK q : req' = [req EXCEPT ![c] = q] /\ (q.op \in Deciding => q.row.status \notin Final)
    BY <1>1, IdleRequest DEF Reads, SubmitInsert, CommitDecision, CommitOverride
  <2> QED BY <2>1 DEF OutcomeInv, TypeInv, TypeOK
<1>5. CASE Reads(c) \/ CommitOverride(c)
  <2>1. UNCHANGED db
    BY <1>5 DEF Reads, CommitOverride, dbVars
  <2> QED BY <1>2, <1>3, <1>4, <2>1, OutcomeQuiet DEF OutcomesKept
<1>6. CASE SubmitInsert(c)
  <2>1. Fresh(req[c].row) /\ (~MustWait(req[c].row)) \in BOOLEAN
    BY <1>6 DEF SubmitInsert, SubmittedInv, MustWait
  <2>2. Insert(req[c].row, ~MustWait(req[c].row))
    BY <1>6 DEF SubmitInsert
  <2>3. req[c].row \in Row /\ req[c].row.status \notin Final
    BY <2>1 DEF Fresh, Final
  <2> QED BY <1>3, <1>4, <2>1, <2>2, <2>3, OutcomeInsert
<1>7. CASE CommitDecision(c)
  <2> DEFINE e == req[c].exec
             op == req[c].op
             row == req[c].row
             new == Decided(op, row)
  <2>1. op \in Deciding /\ e \in Executions /\ row \in Row
    BY <1>7 DEF CommitDecision, Deciding, TypeInv, TypeOK, ControlOK, Request
  <2>2. new \in Row /\ db[e] \in Row
    BY <2>1, DecidedType DEF TypeInv, TypeOK
  <2>3. new.status \in {"approved", "cancelled", "timeout"}
    BY <2>1 DEF Decided, Deciding, Row
  <2>4. db' = [db EXCEPT ![e] = Flush(db[e], row, new)]
    BY <1>7 DEF CommitDecision
  <2>5. req' = [req EXCEPT ![c] = Idle]
    BY <1>7 DEF CommitDecision
  <2> HIDE DEF new
  <2>6. Flush(db[e], row, new).status \in {db[e].status, new.status}
    BY <2>1, <2>2, FlushFields DEF Column
  <2>7. /\ \A f \in Executions : f # e => db'[f] = db[f]
        /\ db'[e].status \in {db[e].status, new.status}
    BY <2>1, <2>4, <2>6 DEF TypeInv, TypeOK
  <2>8. \A f \in Executions : db'[f].status \in Final => db[f].status \in Final
    BY <2>3, <2>7 DEF Final
  <2>9. OutcomeInv'
    BY <1>2, <1>3, <1>4, <2>8, OutcomeQuiet
  <2>10. req'[c].op = "idle" /\ row.status \notin Final
    BY <2>1, <2>5, IdleRequest DEF OutcomeInv, TypeInv, TypeOK
  <2> QED BY <2>1, <2>7, <2>9, <2>10
<1> QED BY <1>1, <1>5, <1>6, <1>7

LEMMA OutcomeProcessStep ==
    ASSUME TypeInv, OutcomeInv, ProcessStep
    PROVE  OutcomeInv' /\ OutcomesKept
<1>1. CASE Crash \/ Stop
  <2>1. LoseMemory
    BY <1>1 DEF Crash, Stop
  <2>2. batch' = {} /\ overdue' = {} /\ \A c \in Clients : req'[c].op \notin Deciding
    BY <2>1, IdleRequest DEF LoseMemory
  <2>3. OutcomeInv'
    BY <2>2 DEF OutcomeInv
  <2>4. CASE UNCHANGED db
    BY <2>3, <2>4 DEF OutcomesKept
  <2>5. CASE /\ pc \in {"step", "command", "rollback"}
             /\ db' = [db EXCEPT ![current] = Flush(db[current], session[current], Interrupted)]
    <3>1. current \in batch /\ current \in Executions /\ pc # "resolve"
      BY <2>5, CurrentRow DEF BusyPcs, RunningPcs
    <3>2. db[current].status \notin Final
      BY <3>1 DEF OutcomeInv
    <3>3. \A f \in Executions : f # current => db'[f] = db[f]
      BY <2>5 DEF TypeInv, TypeOK
    <3> QED BY <2>3, <3>2, <3>3 DEF OutcomesKept
  <2> QED BY <1>1, <2>4, <2>5 DEF Crash, Stop, dbVars
<1>2. CASE Restart
  <2>1. UNCHANGED <<db, req, batch, overdue>> /\ pc = "down"
    BY <1>2 DEF Restart, dbVars
  <2>2. overdue' # {} => pc' = "expire"
    BY <2>1 DEF OutcomeInv
  <2> QED BY <2>1, <2>2 DEF OutcomeInv, OutcomesKept
<1> QED BY <1>1, <1>2 DEF ProcessStep

LEMMA OutcomeStep ==
    ASSUME TypeInv, SubmittedInv, OutcomeInv, [Next]_vars
    PROVE  /\ OutcomeInv'
           /\ OutcomesKept \/ \E c \in Clients :
                /\ req[c].op \in Deciding /\ req'[c].op = "idle"
                /\ req[c].row.status \notin Final
                /\ \A e \in Executions : e # req[c].exec => db'[e] = db[e]
<1>1. CASE WorkerStep
  BY <1>1, OutcomeWorkerStep
<1>2. CASE ClientStep
  BY <1>2, OutcomeClientStep
<1>3. CASE ProcessStep
  BY <1>3, OutcomeProcessStep
<1>4. CASE InsertStep
  <2>1. PICK row \in Row, free \in BOOLEAN : Insert(row, free) /\ Fresh(row)
    BY <1>4, InsertsFresh
  <2>2. UNCHANGED <<batch, overdue, pc, current, req>>
    BY <1>4, InsertsFresh DEF workerVars, runVars
  <2>3. row.status \notin Final
    BY <2>1 DEF Fresh, Final
  <2>4. \A c \in Clients : req'[c].op \in Deciding => req'[c].row.status \notin Final
    BY <2>2 DEF OutcomeInv
  <2> QED BY <2>1, <2>2, <2>3, <2>4, OutcomeInsert
<1>5. CASE UNCHANGED <<req, workerVars>> /\ \A e \in Executions : db'[e].status = db[e].status
  <2>1. UNCHANGED <<req, batch, overdue, pc, current>>
    BY <1>5 DEF workerVars, runVars
  <2>2. \A e \in Executions : db'[e].status \in Final => db[e].status \in Final
    BY <1>5
  <2>3. /\ overdue' # {} => pc' = "expire"
        /\ \A c \in Clients : req'[c].op \in Deciding => req'[c].row.status \notin Final
    BY <2>1 DEF OutcomeInv
  <2> QED BY <1>5, <2>1, <2>2, <2>3, OutcomeQuiet DEF OutcomesKept
<1>6. CASE \E e \in Executions : ApprovalExpires(e)
  BY <1>5, <1>6 DEF ApprovalExpires, TypeInv, TypeOK, Row
<1>7. CASE UNCHANGED vars
  BY <1>5, <1>7 DEF vars, dbVars
<1> QED BY <1>1, <1>2, <1>3, <1>4, <1>6, <1>7 DEF Next

LEMMA OutcomeInvHolds == Spec => [](TypeInv /\ SubmittedInv /\ OutcomeInv)
<1>1. Init => OutcomeInv
  BY IdleRequest DEF Init, OutcomeInv
<1> QED BY <1>1, SubmittedInit, TypeInvInit, TypeInvInductive, SubmittedStep, OutcomeStep,
           PTL DEF Spec

\* A committed success or failure is changed by no one but a handler that had read the
\* row before its run ended, and that commits now.
THEOREM OutcomeStands == Spec => OutcomeChangedByStaleRequestOnly
<1>1. TypeInv /\ SubmittedInv /\ OutcomeInv /\ [Next]_vars =>
        [\A e \in Executions :
            db[e].status \in {"success", "failed"} /\ db'[e].status # db[e].status =>
                \E c \in Clients : /\ req[c].op # "idle" /\ req'[c].op = "idle"
                                  /\ req[c].exec = e
                                  /\ req[c].row.status \notin {"success", "failed"}]_vars
  <2> SUFFICES ASSUME TypeInv, SubmittedInv, OutcomeInv, [Next]_vars, NEW e \in Executions,
                      db[e].status \in Final, db'[e].status # db[e].status
               PROVE  \E c \in Clients : /\ req[c].op # "idle" /\ req'[c].op = "idle"
                                        /\ req[c].exec = e
                                        /\ req[c].row.status \notin Final
    BY DEF Final
  <2>1. PICK c \in Clients :
          /\ req[c].op \in Deciding /\ req'[c].op = "idle"
          /\ req[c].row.status \notin Final
          /\ \A f \in Executions : f # req[c].exec => db'[f] = db[f]
    BY OutcomeStep DEF OutcomesKept
  <2> QED BY <2>1, IdleRequest
<1> QED BY <1>1, OutcomeInvHolds, PTL DEF Spec, OutcomeChangedByStaleRequestOnly

---------------------------------------------------------------------------
(* Tallies                                                                 *)

SameTallies ==
    \A e \in Executions : /\ db'[e].steps_completed = db[e].steps_completed
                          /\ db'[e].steps_failed = db[e].steps_failed

\* What the proofs need to know of products.
LEMMA OneRunMore ==
    /\ \A m, n \in Nat : m * n \in Nat /\ m * (n + 1) = m * n + m
    /\ \A m \in Nat : m * 0 = 0
OBVIOUS

LEMMA TallyTypes ==
    ASSUME TypeInv
    PROVE  /\ \A e \in Executions : /\ db[e].steps_completed \in Nat /\ db[e].steps_failed \in Nat
                                    /\ session[e].steps_completed \in Nat
                                    /\ session[e].steps_failed \in Nat
                                    /\ Tally(db[e]) \in Nat
                                    /\ runs[e] \in Nat /\ Steps * runs[e] \in Nat
           /\ step \in Nat /\ Steps \in Nat
<1>1. \A e \in Executions : /\ db[e].steps_completed \in Nat /\ db[e].steps_failed \in Nat
                            /\ session[e].steps_completed \in Nat
                            /\ session[e].steps_failed \in Nat
                            /\ runs[e] \in Nat
  BY DEF TypeInv, TypeOK, Row
<1>2. step \in Nat /\ Steps \in Nat
  BY BoundsAssumption DEF TypeInv, TypeOK
<1> QED BY <1>1, <1>2, OneRunMore DEF Tally

\* The tallies stay, and the worker is no further back in its run.
LEMMA TallyQuiet ==
    ASSUME TypeInv, TallyInv, SameTallies, UNCHANGED <<runs, session>>, batch' \subseteq batch,
           step' \in Nat,
           pc' \in {"step", "command"} =>
               pc \in {"step", "command"} /\ current' = current /\ step' >= step,
           pc' \notin RunningPcs \cup {"resolve"} => step' = 1
    PROVE  TallyInv'
<1>1. \A e \in Executions : Tally(db[e])' = Tally(db[e])
  BY DEF SameTallies, Tally
<1>2. TalliesWithinRuns'
  BY <1>1 DEF TallyInv, TalliesWithinRuns, Tally
<1>3. \A e \in batch' : /\ session'[e].steps_completed = db'[e].steps_completed
                        /\ session'[e].steps_failed = db'[e].steps_failed
  BY DEF TallyInv, SameTallies, TypeInv, TypeOK
<1>4. pc' \in {"step", "command"} =>
        Tally(db[current])' + Steps + 1 <= Steps * runs'[current'] + step'
  <2> SUFFICES ASSUME pc' \in {"step", "command"}
               PROVE  Tally(db[current])' + Steps + 1 <= Steps * runs'[current'] + step'
    OBVIOUS
  <2>1. current \in Executions /\ current' = current /\ step' >= step
    BY CurrentRow DEF BusyPcs, RunningPcs
  <2>2. Tally(db[current])' = Tally(db[current])
    BY <2>1 DEF SameTallies, Tally
  <2>3. Tally(db[current]) + Steps + 1 <= Steps * runs[current] + step
    BY DEF TallyInv
  <2> DEFINE t == Tally(db[current])
             m == Steps * runs[current]
  <2>4. t \in Nat /\ m \in Nat /\ step \in Nat /\ Steps \in Nat
    BY <2>1, TallyTypes
  <2>5. t + Steps + 1 <= m + step
    BY <2>3
  <2>6. Tally(db[current])' = t /\ Steps * runs'[current'] = m
    BY <2>1, <2>2
  <2> HIDE DEF t, m
  <2>7. \A a, b, n, s, z \in Nat : a + n + 1 <= b + s /\ z >= s => a + n + 1 <= b + z
    OBVIOUS
  <2>8. t + Steps + 1 <= m + step'
    BY <2>1, <2>4, <2>5, <2>7
  <2> QED BY <2>6, <2>8
<1> QED BY <1>2, <1>3, <1>4 DEF TallyInv

\* The worker saves a row of its batch and, unless it has finished a step, leaves the
\* tallies alone.
LEMMA TallySaves ==
    ASSUME TypeInv, TallyInv, NEW e \in batch, NEW new \in Row, Save(e, new)
    PROVE  /\ \A f \in Executions : f # e => db'[f] = db[f] /\ session'[f] = session[f]
           /\ db'[e].steps_completed = new.steps_completed
           /\ db'[e].steps_failed = new.steps_failed
           /\ session'[e] = new
           /\ session[e].steps_completed = db[e].steps_completed
           /\ session[e].steps_failed = db[e].steps_failed
<1>1. /\ \A f \in Executions : f # e => db'[f] = db[f] /\ session'[f] = session[f]
      /\ session'[e] = new
      /\ db'[e].steps_completed
           = Column(db[e].steps_completed, session[e].steps_completed, new.steps_completed)
      /\ db'[e].steps_failed
           = Column(db[e].steps_failed, session[e].steps_failed, new.steps_failed)
  BY SaveColumns
<1>2. /\ session[e].steps_completed = db[e].steps_completed
      /\ session[e].steps_failed = db[e].steps_failed
  BY DEF TallyInv
<1> QED BY <1>1, <1>2 DEF Column

LEMMA TallySaved ==
    ASSUME TypeInv, TallyInv, NEW e \in batch, NEW new \in Row, Save(e, new),
           new.steps_completed = session[e].steps_completed,
           new.steps_failed = session[e].steps_failed
    PROVE  /\ SameTallies
           /\ \A f \in batch : /\ session'[f].steps_completed = db'[f].steps_completed
                               /\ session'[f].steps_failed = db'[f].steps_failed
<1>1. \A f \in Executions : f # e => db'[f] = db[f] /\ session'[f] = session[f]
  BY TallySaves
<1>2. /\ db'[e].steps_completed = db[e].steps_completed
      /\ db'[e].steps_failed = db[e].steps_failed
      /\ session'[e].steps_completed = db'[e].steps_completed
      /\ session'[e].steps_failed = db'[e].steps_failed
  BY TallySaves
<1>3. \A f \in batch : f \in Executions /\ session[f].steps_completed = db[f].steps_completed
                                        /\ session[f].steps_failed = db[f].steps_failed
  BY DEF TallyInv, TypeInv, TypeOK
<1>4. SameTallies
  BY <1>1, <1>2 DEF SameTallies
<1> QED BY <1>1, <1>2, <1>3, <1>4

\* A save that touches no tally, and is not the start of a run.
LEMMA TallyKept ==
    ASSUME TypeInv, TallyInv, NEW e \in batch, NEW new \in Row, Save(e, new),
           new.steps_completed = session[e].steps_completed,
           new.steps_failed = session[e].steps_failed,
           UNCHANGED runs, batch' \subseteq batch, pc' \notin {"step", "command"},
           pc' \notin RunningPcs \cup {"resolve"} => step' = 1
    PROVE  TallyInv'
<1>1. SameTallies
  BY TallySaved
<1>2. TalliesWithinRuns'
  BY <1>1 DEF TallyInv, TalliesWithinRuns, SameTallies
<1>3. \A f \in batch' : /\ session'[f].steps_completed = db'[f].steps_completed
                        /\ session'[f].steps_failed = db'[f].steps_failed
  BY TallySaved
<1> QED BY <1>2, <1>3 DEF TallyInv

LEMMA TallyStart ==
    ASSUME TypeInv, TallyInv, StartRun
    PROVE  TallyInv'
<1>1. /\ pc = "loaded" /\ pc' = "step" /\ Save(current, Touched)
      /\ UNCHANGED <<batch, current, step>> /\ step = 1
      /\ runs' = [runs EXCEPT ![current] = runs[current] + 1]
  BY WorkerSaves DEF StartRun, runVars, TallyInv, RunningPcs
<1>2. current \in batch /\ current \in Executions /\ Touched \in Row
      /\ Touched.steps_completed = session[current].steps_completed
      /\ Touched.steps_failed = session[current].steps_failed
  BY <1>1, CurrentRow, EditFields DEF BusyPcs
<1>3. /\ SameTallies
      /\ \A f \in batch' : /\ session'[f].steps_completed = db'[f].steps_completed
                           /\ session'[f].steps_failed = db'[f].steps_failed
  BY <1>1, <1>2, TallySaved
<1>4. /\ runs'[current] = runs[current] + 1
      /\ \A f \in Executions : f # current => runs'[f] = runs[f]
  BY <1>1, <1>2 DEF TypeInv, TypeOK
<1>5. \A f \in Executions : Tally(db[f])' = Tally(db[f]) /\ Tally(db[f]) <= Steps * runs[f]
  BY <1>3 DEF SameTallies, Tally, TallyInv, TalliesWithinRuns
<1>6. Steps * runs'[current] = Steps * runs[current] + Steps
  BY <1>2, <1>4, OneRunMore, TallyTypes
<1>7. \A f \in Executions : Tally(db[f])' <= Steps * runs'[f]
  <2>1. \A m, n, t \in Nat : t <= m => t <= m + n
    OBVIOUS
  <2>2. Tally(db[current]) <= Steps * runs[current] + Steps
    BY <1>2, <1>5, <2>1, TallyTypes
  <2>3. Tally(db[current])' = Tally(db[current])
    BY <1>1, <1>2, <1>5
  <2>4. Tally(db[current])' <= Steps * runs'[current]
    BY <1>6, <2>2, <2>3
  <2>5. ASSUME NEW f \in Executions, f # current
        PROVE  Tally(db[f])' <= Steps * runs'[f]
    BY <1>4, <1>5, <2>5
  <2>6. ASSUME NEW f \in Executions, f = current
        PROVE  Tally(db[f])' <= Steps * runs'[f]
    <3>1. current' = f
      BY <1>1, <2>6
    <3> QED BY <2>4, <2>6, <3>1 DEF Tally
  <2> QED BY <2>5, <2>6
<1>8. Tally(db[current])' + Steps + 1 <= Steps * runs'[current'] + step'
  <2>1. \A m, n, t \in Nat : t <= m => t + n + 1 <= m + n + 1
    OBVIOUS
  <2>2. Tally(db[current]) + Steps + 1 <= Steps * runs[current] + Steps + 1
    BY <1>2, <1>5, <2>1, TallyTypes
  <2>3. Tally(db[current])' = Tally(db[current])
    BY <1>1, <1>2, <1>3 DEF SameTallies, Tally
  <2> QED BY <1>1, <1>6, <2>2, <2>3
<1> QED BY <1>1, <1>3, <1>7, <1>8 DEF TallyInv, TalliesWithinRuns, Tally, RunningPcs

\* A step of the run is over: one more is counted, and the run is at least one step on.
LEMMA TallyCounts ==
    ASSUME TypeInv, TallyInv, pc = "command", pc' = "step", UNCHANGED <<runs, batch, current>>,
           NEW new \in Row, Save(current, new), step' \in Nat, step' >= step + 1,
           \/ /\ new.steps_completed = session[current].steps_completed + 1
              /\ new.steps_failed = session[current].steps_failed
           \/ /\ new.steps_completed = session[current].steps_completed
              /\ new.steps_failed = session[current].steps_failed + 1
    PROVE  TallyInv'
<1>1. current \in batch /\ current \in Executions /\ step <= Steps
  BY CurrentRow DEF BusyPcs, RunningPcs, TypeInv, ControlOK
<1>2. /\ \A f \in Executions : f # current => db'[f] = db[f] /\ session'[f] = session[f]
      /\ db'[current].steps_completed = new.steps_completed
      /\ db'[current].steps_failed = new.steps_failed
      /\ session'[current] = new
      /\ session[current].steps_completed = db[current].steps_completed
      /\ session[current].steps_failed = db[current].steps_failed
  BY <1>1, TallySaves
<1> DEFINE t == Tally(db[current])
           m == Steps * runs[current]
<1>3. t \in Nat /\ m \in Nat /\ step \in Nat /\ Steps \in Nat
  BY <1>1, TallyTypes
<1>4. t + Steps + 1 <= m + step
  BY DEF TallyInv
<1>5. Tally(db[current])' = t + 1
  <2>1. Tally(db[current])' = new.steps_completed + new.steps_failed
    BY <1>2 DEF Tally
  <2>2. \A a, b \in Nat : (a + 1) + b = (a + b) + 1 /\ a + (b + 1) = (a + b) + 1
    OBVIOUS
  <2> QED BY <1>1, <1>2, <2>1, <2>2, TallyTypes DEF Tally
<1>6. \A f \in Executions : f # current => Tally(db[f])' = Tally(db[f])
  BY <1>2 DEF Tally
<1>7. \A f \in Executions : Tally(db[f]) <= Steps * runs[f]
  BY DEF TallyInv, TalliesWithinRuns, Tally
<1> HIDE DEF t, m
<1>8. t + 1 <= m /\ t + 1 + Steps + 1 <= m + step'
  <2>1. \A a, b, n, s, z \in Nat :
          a + n + 1 <= b + s /\ s <= n /\ z >= s + 1 => a + 1 <= b /\ a + 1 + n + 1 <= b + z
    OBVIOUS
  <2> QED BY <1>1, <1>3, <1>4, <2>1
<1>9. Steps * runs'[current] = m /\ current' = current
  BY DEF m
<1>10. \A f \in Executions : Tally(db[f])' <= Steps * runs'[f]
  BY <1>5, <1>6, <1>7, <1>8, <1>9
<1>11. Tally(db[current])' + Steps + 1 <= Steps * runs'[current'] + step'
  BY <1>5, <1>8, <1>9
<1>12. \A f \in batch' : /\ session'[f].steps_completed = db'[f].steps_completed
                         /\ session'[f].steps_failed = db'[f].steps_failed
  BY <1>1, <1>2 DEF TallyInv, TypeInv, TypeOK
<1> QED BY <1>10, <1>11, <1>12 DEF TallyInv, TalliesWithinRuns, Tally, RunningPcs

LEMMA TallyWorkerStep ==
    ASSUME TypeInv, TallyInv, WorkerStep
    PROVE  TallyInv'
<1>1. /\ step \in Nat /\ Steps \in Nat /\ step' \in Nat
      /\ 1 \in Nat /\ step + 1 \in Nat /\ Steps + 1 \in Nat
  BY TallyTypes, TypeInvInductive DEF Next, TypeInv, TypeOK
<1>2. CASE SelectBatch
  <2>1. /\ pc = "select" /\ pc' = "next" /\ UNCHANGED <<db, runs, step>>
        /\ \A e \in batch' : e \in Executions /\ session'[e] = db[e]
    BY <1>2 DEF SelectBatch, FirstQueued, Eligible, dbVars, runVars, historyVars
  <2>2. step' = 1
    BY <2>1 DEF TallyInv, RunningPcs
  <2> QED BY <2>1, <2>2 DEF TallyInv, TalliesWithinRuns
<1>3. CASE BeginExecution
  <2>1. PICK e \in batch, new \in Row :
             /\ Save(e, new)
             /\ new.steps_completed = session[e].steps_completed
             /\ new.steps_failed = session[e].steps_failed
    BY <1>3, BeginSaves
  <2>2. pc = "next" /\ pc' = "loaded" /\ UNCHANGED <<runs, batch, step>>
    BY <1>3 DEF BeginExecution, historyVars
  <2>3. step' = 1
    BY <2>2 DEF TallyInv, RunningPcs
  <2> QED BY <2>1, <2>2, <2>3, TallyKept
<1>4. CASE RefuseExecution
  <2>1. /\ pc = "loaded" /\ Save(current, Refused) /\ pc' = "next" /\ step' = 1
        /\ UNCHANGED runs /\ batch' \subseteq batch
    BY <1>4, WorkerSaves DEF RefuseExecution, LeaveExecution, historyVars
  <2>2. /\ current \in batch /\ Refused \in Row
        /\ Refused.steps_completed = session[current].steps_completed
        /\ Refused.steps_failed = session[current].steps_failed
    BY <2>1, CurrentRow, EditFields DEF BusyPcs
  <2> QED BY <2>1, <2>2, TallyKept
<1>5. CASE CommitVerdict
  <2>1. /\ pc = "verdict" /\ Save(current, Concluded) /\ pc' = "resolve"
        /\ UNCHANGED <<runs, batch>>
    BY <1>5, WorkerSaves DEF CommitVerdict
  <2>2. /\ current \in batch /\ Concluded \in Row
        /\ Concluded.steps_completed = session[current].steps_completed
        /\ Concluded.steps_failed = session[current].steps_failed
    BY <2>1, CurrentRow, EditFields DEF BusyPcs, RunningPcs
  <2> QED BY <2>1, <2>2, TallyKept
<1>6. CASE StartRun
  BY <1>6, TallyStart
<1>7. CASE StepSucceeds
  <2>1. /\ pc = "command" /\ Save(current, OneMore) /\ pc' = "step" /\ step' = step + 1
        /\ UNCHANGED <<runs, batch, current>>
    BY <1>7, WorkerSaves DEF StepSucceeds, historyVars
  <2>2. /\ OneMore \in Row
        /\ OneMore.steps_completed = session[current].steps_completed + 1
        /\ OneMore.steps_failed = session[current].steps_failed
    BY <2>1, CurrentRow, EditFields DEF BusyPcs, RunningPcs
  <2>3. step' >= step + 1
    BY <1>1, <2>1
  <2> QED BY <1>1, <2>1, <2>2, <2>3, TallyCounts
<1>8. ASSUME NEW b \in BOOLEAN, StepFails(b)
      PROVE  TallyInv'
  <2>1. /\ pc = "command" /\ Save(current, OneMoreFailed) /\ pc' = "step"
        /\ step' = IF b THEN step + 1 ELSE Steps + 1
        /\ UNCHANGED <<runs, batch, current>>
    BY <1>8, WorkerSaves DEF StepFails, historyVars
  <2>2. /\ OneMoreFailed \in Row
        /\ OneMoreFailed.steps_completed = session[current].steps_completed
        /\ OneMoreFailed.steps_failed = session[current].steps_failed + 1
    BY <2>1, CurrentRow, EditFields DEF BusyPcs, RunningPcs
  <2>3. step' >= step + 1
    <3>1. step <= Steps
      BY <2>1 DEF TypeInv, ControlOK
    <3>2. \A m, n \in Nat : m <= n => n + 1 >= m + 1
      OBVIOUS
    <3> QED BY <1>1, <2>1, <3>1, <3>2
  <2> QED BY <1>1, <2>1, <2>2, <2>3, TallyCounts
<1>9. CASE SkipStep \/ IssueCommand \/ RunRaises \/ \E b \in BOOLEAN : RenderingFails(b)
  <2>1. /\ UNCHANGED <<db, runs, session, batch, current>> /\ pc \in {"step", "command"}
        /\ pc' \in {"step", "command", "verdict"}
    BY <1>9 DEF SkipStep, IssueCommand, RunRaises, RenderingFails, Conclude, dbVars, runVars,
       historyVars
  <2>2. step' \in {step, step + 1, Steps + 1}
    BY <1>9 DEF SkipStep, IssueCommand, RunRaises, RenderingFails, Conclude, runVars
  <2>3. \A m, n, k \in Nat : m \in 1 .. (n + 1) /\ k \in {m, m + 1, n + 1} => k >= m
    OBVIOUS
  <2>4. step' >= step
    BY <1>1, <2>2, <2>3 DEF TypeInv, TypeOK
  <2>5. SameTallies
    BY <2>1 DEF SameTallies
  <2> QED BY <1>1, <2>1, <2>4, <2>5, TallyQuiet DEF RunningPcs
<1>10. CASE EndOfSteps \/ StartRollback \/ EndRollback
  <2>1. /\ UNCHANGED <<db, runs, session, batch>> /\ pc' \in {"verdict", "rollback"}
    BY <1>10 DEF EndOfSteps, StartRollback, EndRollback, Conclude, dbVars, historyVars
  <2>2. SameTallies
    BY <2>1 DEF SameTallies
  <2> QED BY <1>1, <2>1, <2>2, TallyQuiet DEF RunningPcs
<1>11. CASE ResolveAlert
  <2>1. /\ UNCHANGED <<db, runs, session>> /\ batch' \subseteq batch /\ pc' = "next" /\ step' = 1
    BY <1>11 DEF ResolveAlert, LeaveExecution, historyVars
  <2>2. SameTallies
    BY <2>1 DEF SameTallies
  <2> QED BY <1>1, <2>1, <2>2, TallyQuiet
<1>12. CASE EndBatch
  <2>1. /\ UNCHANGED <<db, runs, batch, step>> /\ batch = {} /\ pc = "next" /\ pc' = "scan"
    BY <1>12 DEF EndBatch, dbVars, runVars, historyVars
  <2> QED BY <2>1 DEF TallyInv, TalliesWithinRuns, RunningPcs
<1>13. CASE ScanTimeouts \/ CommitTimeouts
  <2>1. /\ UNCHANGED <<runs, session, batch, step>> /\ pc \in {"scan", "expire"}
        /\ pc' \in {"select", "expire"}
    BY <1>13 DEF ScanTimeouts, CommitTimeouts, runVars, historyVars
  <2>2. SameTallies
    <3>1. CASE ScanTimeouts
      BY <3>1 DEF ScanTimeouts, dbVars, SameTallies
    <3>2. CASE CommitTimeouts
      <4>1. ASSUME NEW e \in Executions
            PROVE  /\ db'[e].steps_completed = db[e].steps_completed
                   /\ db'[e].steps_failed = db[e].steps_failed
        <5>1. db[e] \in Row
          BY DEF TypeInv, TypeOK
        <5>2. db'[e] = db[e] \/ db'[e] = [db[e] EXCEPT !.status = "timeout", !.completed_at = TRUE]
          BY <3>2 DEF CommitTimeouts
        <5> QED BY <5>1, <5>2 DEF Row
      <4> QED BY <4>1 DEF SameTallies
    <3> QED BY <1>13, <3>1, <3>2
  <2>3. step' = 1
    BY <2>1 DEF TallyInv, RunningPcs
  <2> QED BY <1>1, <2>1, <2>2, <2>3, TallyQuiet
<1> QED BY <1>2, <1>3, <1>4, <1>5, <1>6, <1>7, <1>8, <1>9, <1>10, <1>11, <1>12, <1>13
     DEF WorkerStep

\* What leaves the tallies, the worker and its objects alone.
LEMMA TallyElsewhere ==
    ASSUME TypeInv, TallyInv, SameTallies, UNCHANGED <<runs, workerVars>>
    PROVE  TallyInv'
<1>1. UNCHANGED <<runs, session, batch, pc, current, step>>
  BY DEF workerVars, runVars
<1>2. step' \in Nat /\ step' >= step /\ (pc \notin RunningPcs \cup {"resolve"} => step' = 1)
  <2>1. \A n \in Nat : n >= n
    OBVIOUS
  <2> QED BY <1>1, <2>1, TallyTypes DEF TallyInv
<1> QED BY <1>1, <1>2, TallyQuiet

\* A new row has had no step, as befits an execution that has had no run.
LEMMA TallyInsert ==
    ASSUME TypeInv, RunsInv, TallyInv, NEW row \in Row, NEW free \in BOOLEAN, Insert(row, free),
           Fresh(row), UNCHANGED <<runs, workerVars>>
    PROVE  TallyInv'
<1>1. UNCHANGED <<runs, session, batch, pc, current, step>>
  BY DEF workerVars, runVars
<1>2. PICK e \in Executions : db[e].status = "none" /\ db' = [db EXCEPT ![e] = row]
  BY DEF Insert, NextFree
<1>3. db'[e] = row /\ \A f \in Executions : f # e => db'[f] = db[f]
  BY <1>2 DEF TypeInv, TypeOK
<1>4. e \notin batch /\ runs[e] = 0
  BY <1>2 DEF RunsInv
<1>5. \A f \in batch : f \in Executions /\ db'[f] = db[f]
  BY <1>3, <1>4 DEF TypeInv, TypeOK
<1>6. pc \in {"step", "command"} => db'[current] = db[current]
  BY <1>5, CurrentRow DEF BusyPcs, RunningPcs
<1>7. Tally(row) = 0 /\ row.steps_completed + row.steps_failed = 0
  BY DEF Fresh, Tally
<1>8. Steps * runs[e] \in Nat
  BY TallyTypes
<1>9. 0 <= Steps * runs[e]
  <2>1. \A n \in Nat : 0 <= n
    OBVIOUS
  <2> QED BY <1>8, <2>1
<1>10. ASSUME NEW f \in Executions
       PROVE  db'[f].steps_completed + db'[f].steps_failed <= Steps * runs[f]
  <2>1. CASE f = e
    BY <1>3, <1>7, <1>9, <2>1
  <2>2. CASE f # e
    BY <1>3, <2>2 DEF TallyInv, TalliesWithinRuns
  <2> QED BY <2>1, <2>2
<1>11. TalliesWithinRuns'
  BY <1>1, <1>10 DEF TalliesWithinRuns
<1>12. \A f \in batch' : /\ session'[f].steps_completed = db'[f].steps_completed
                         /\ session'[f].steps_failed = db'[f].steps_failed
  BY <1>1, <1>5 DEF TallyInv
<1>13. pc' \in {"step", "command"} =>
         Tally(db[current])' + Steps + 1 <= Steps * runs'[current'] + step'
  BY <1>1, <1>6 DEF TallyInv, Tally
<1> QED BY <1>1, <1>11, <1>12, <1>13 DEF TallyInv

\* No decision touches the tallies of the row it read.
LEMMA DecidedTallies ==
    ASSUME NEW row \in Row, NEW op \in Deciding
    PROVE  /\ Decided(op, row).steps_completed = row.steps_completed
           /\ Decided(op, row).steps_failed = row.steps_failed
BY DEF Decided, Deciding, Row

LEMMA TallyStep ==
    ASSUME TypeInv, RunsInv, SubmittedInv, TallyInv, [Next]_vars
    PROVE  TallyInv'
<1>1. CASE WorkerStep
  BY <1>1, TallyWorkerStep
<1>2. CASE ClientStep
  <2>1. PICK c \in Clients :
          Reads(c) \/ SubmitInsert(c) \/ CommitDecision(c) \/ CommitOverride(c)
    BY <1>2, ClientSteps
  <2>2. CASE Reads(c) \/ CommitOverride(c)
    <3>1. UNCHANGED <<db, runs, workerVars>>
      BY <2>2 DEF Reads, CommitOverride, dbVars, historyVars
    <3> QED BY <3>1, TallyElsewhere DEF SameTallies
  <2>3. CASE SubmitInsert(c)
    <3>1. /\ Fresh(req[c].row) /\ (~MustWait(req[c].row)) \in BOOLEAN
          /\ Insert(req[c].row, ~MustWait(req[c].row)) /\ UNCHANGED <<runs, workerVars>>
      BY <2>3 DEF SubmitInsert, SubmittedInv, MustWait
    <3>2. req[c].row \in Row
      BY <3>1 DEF Fresh
    <3> QED BY <3>1, <3>2, TallyInsert
  <2>4. CASE CommitDecision(c)
    <3> DEFINE e == req[c].exec
               row == req[c].row
               new == Decided(req[c].op, row)
    <3>1. req[c].op \in Deciding /\ e \in Executions /\ row \in Row
      BY <2>4 DEF CommitDecision, Deciding, TypeInv, TypeOK, ControlOK, Request
    <3>2. /\ new \in Row /\ db[e] \in Row
          /\ new.steps_completed = row.steps_completed /\ new.steps_failed = row.steps_failed
      BY <3>1, DecidedType, DecidedTallies DEF TypeInv, TypeOK
    <3>3. db' = [db EXCEPT ![e] = Flush(db[e], row, new)] /\ UNCHANGED <<runs, workerVars>>
      BY <2>4 DEF CommitDecision
    <3> HIDE DEF new
    <3>4. /\ Flush(db[e], row, new).steps_completed = db[e].steps_completed
          /\ Flush(db[e], row, new).steps_failed = db[e].steps_failed
      BY <3>1, <3>2, FlushColumns DEF Column
    <3>5. SameTallies
      BY <3>1, <3>3, <3>4 DEF SameTallies, TypeInv, TypeOK
    <3> QED BY <3>3, <3>5, TallyElsewhere
  <2> QED BY <2>1, <2>2, <2>3, <2>4
<1>3. CASE ProcessStep
  <2>1. CASE Crash \/ Stop
    <3>1. /\ pc' = "down" /\ batch' = {} /\ step' = 1 /\ UNCHANGED runs
      BY <2>1 DEF Crash, Stop, LoseMemory
    <3>2. SameTallies
      <4>1. CASE UNCHANGED db
        BY <4>1 DEF SameTallies
      <4>2. CASE /\ pc \in {"step", "command", "rollback"}
                 /\ db' = [db EXCEPT ![current] = Flush(db[current], session[current], Interrupted)]
        <5>1. current \in Executions /\ db[current] \in Row /\ session[current] \in Row
          BY <4>2, CurrentRow DEF BusyPcs, RunningPcs
        <5>2. /\ Interrupted \in Row
              /\ Interrupted.steps_completed = session[current].steps_completed
              /\ Interrupted.steps_failed = session[current].steps_failed
          <6>1. Interrupted \in Row
            BY <5>1, InterruptedFields
          <6> QED BY <5>1, <6>1 DEF Interrupted, Row
        <5>3. /\ Flush(db[current], session[current], Interrupted).steps_completed
                   = db[current].steps_completed
              /\ Flush(db[current], session[current], Interrupted).steps_failed
                   = db[current].steps_failed
          BY <5>1, <5>2, FlushColumns DEF Column
        <5> QED BY <4>2, <5>1, <5>3 DEF SameTallies, TypeInv, TypeOK
      <4> QED BY <2>1, <4>1, <4>2 DEF Crash, Stop, dbVars
    <3>3. TalliesWithinRuns'
      BY <3>1, <3>2 DEF TallyInv, TalliesWithinRuns, SameTallies
    <3> QED BY <3>1, <3>3 DEF TallyInv
  <2>2. CASE Restart
    <3>1. UNCHANGED <<db, runs, session, batch, step>> /\ pc = "down" /\ pc' = "select"
      BY <2>2 DEF Restart, dbVars, runVars, historyVars
    <3> QED BY <3>1 DEF TallyInv, TalliesWithinRuns, RunningPcs
  <2> QED BY <1>3, <2>1, <2>2 DEF ProcessStep
<1>4. CASE InsertStep
  <2>1. PICK row \in Row, free \in BOOLEAN : Insert(row, free) /\ Fresh(row)
    BY <1>4, InsertsFresh
  <2>2. UNCHANGED <<runs, workerVars>>
    BY <1>4, InsertsFresh
  <2> QED BY <2>1, <2>2, TallyInsert
<1>5. CASE \E e \in Executions : ApprovalExpires(e)
  <2>1. UNCHANGED <<runs, workerVars>>
    BY <1>5 DEF ApprovalExpires, historyVars
  <2>2. SameTallies
    BY <1>5 DEF ApprovalExpires, SameTallies, TypeInv, TypeOK, Row
  <2> QED BY <2>1, <2>2, TallyElsewhere
<1>6. CASE UNCHANGED vars
  <2>1. UNCHANGED <<db, runs, workerVars>>
    BY <1>6 DEF vars, dbVars, historyVars
  <2> QED BY <2>1, TallyElsewhere DEF SameTallies
<1> QED BY <1>1, <1>2, <1>3, <1>4, <1>5, <1>6 DEF Next

LEMMA RunsInit == Init => RunsInv
BY DEF Init, RunsInv, NoRow

LEMMA TallyInit == Init => TallyInv
<1> SUFFICES ASSUME Init PROVE TallyInv
  OBVIOUS
<1>1. /\ db = [e \in Executions |-> NoRow] /\ runs = [e \in Executions |-> 0]
      /\ pc = "select" /\ batch = {} /\ step = 1
  BY DEF Init
<1>2. NoRow.steps_completed = 0 /\ NoRow.steps_failed = 0
  BY DEF NoRow
<1>3. Steps * 0 = 0
  BY OneRunMore, BoundsAssumption
<1>4. TalliesWithinRuns
  BY <1>1, <1>2, <1>3 DEF TalliesWithinRuns
<1> QED BY <1>1, <1>4 DEF TallyInv

\* The tallies of an execution never tell of more steps than its runs had, though the run
\* after a crash goes on from what the dead one has committed.
THEOREM TalliesAreTrue == Spec => []TalliesWithinRuns
<1>1. Spec => [](TypeInv /\ RunsInv /\ SubmittedInv /\ TallyInv)
  BY TypeInvInit, RunsInit, SubmittedInit, TallyInit, TypeInvInductive, RunsInductive,
     SubmittedStep, TallyStep, PTL DEF Spec
<1>2. TallyInv => TalliesWithinRuns
  BY DEF TallyInv
<1> QED BY <1>1, <1>2, PTL

---------------------------------------------------------------------------
(* The promise                                                             *)

\* The rows found overdue, and those that handlers have read, are rows.
InsertedInv ==
    /\ \A e \in overdue : db[e].status # "none"
    /\ \A c \in Clients : req[c].op \in Deciding => db[req[c].exec].status # "none"

\* What any step leaves true of one execution: its row stays and stays completed, the
\* worker takes in rows that are not completed, begins a run it has loaded, and leaves a
\* run by completing the row, or by dying.
Advances(e) ==
    /\ db[e].status # "none" => db'[e].status # "none"
    /\ db[e].status = "none" /\ db'[e].status # "none" => ~db'[e].completed_at
    /\ db[e].status # "none" /\ db[e].completed_at => db'[e].completed_at
    /\ e \in batch' => e \in batch \/ ~db[e].completed_at
    /\ current' = e /\ pc' \in RunningPcs => current = e /\ pc \in RunningPcs \cup {"loaded"}
    /\ current = e /\ pc \in RunningPcs =>
         \/ current' = e /\ pc' \in RunningPcs
         \/ current' = e /\ pc' = "resolve" /\ db'[e].completed_at
         \/ e \notin batch' /\ db'[e].completed_at
         \/ crashes' = crashes + 1
    /\ current = e /\ pc = "resolve" /\ e \in batch' => current' = e /\ pc' = "resolve"

AllAdvance ==
    /\ \A e \in Executions : Advances(e)
    /\ \A e \in overdue' : e \in overdue \/ db[e].status # "none"
    /\ authorised \subseteq authorised'
    /\ crashes' \in {crashes, crashes + 1}

\* What a step may do to the table.
RowsKept ==
    \A e \in Executions :
        /\ db[e].status # "none" => db'[e].status # "none"
        /\ db[e].status = "none" /\ db'[e].status # "none" => ~db'[e].completed_at
        /\ db[e].status # "none" /\ db[e].completed_at => db'[e].completed_at

\* A step that the worker takes no part in.
LEMMA AdvanceElsewhere ==
    ASSUME RowsKept, UNCHANGED <<workerVars, crashes>>, authorised \subseteq authorised'
    PROVE  AllAdvance
<1>1. UNCHANGED <<batch, current, pc, overdue>>
  BY DEF workerVars, runVars
<1> QED BY <1>1 DEF AllAdvance, Advances, RowsKept

\* A step between runs, which takes nothing but rows that are not completed.
LEMMA AdvanceIdle ==
    ASSUME RowsKept, UNCHANGED <<crashes, authorised>>,
           \A e \in batch' : e \in batch \/ ~db[e].completed_at,
           \A e \in overdue' : e \in overdue \/ db[e].status # "none",
           pc \notin RunningPcs, pc' \notin RunningPcs,
           pc = "resolve" => current \notin batch'
    PROVE  AllAdvance
BY DEF AllAdvance, Advances, RowsKept

\* A step within a run.
LEMMA AdvanceRun ==
    ASSUME RowsKept, UNCHANGED <<crashes, authorised, batch, current, overdue>>,
           pc \in RunningPcs \cup {"loaded"}, pc' \in RunningPcs
    PROVE  AllAdvance
BY DEF AllAdvance, Advances, RowsKept, RunningPcs

\* A save of the worker.
LEMMA AdvanceSaves ==
    ASSUME TypeInv, RunsInv, NEW e \in batch, NEW new \in Row, Save(e, new),
           new.status = session[e].status \/ new.status # "none",
           new.completed_at = session[e].completed_at \/ new.completed_at
    PROVE  /\ RowsKept
           /\ new.completed_at /\ ~session[e].completed_at => db'[e].completed_at
<1>1. /\ \A f \in Executions : f # e => db'[f] = db[f]
      /\ db'[e].status # "none"
      /\ db[e].completed_at => db'[e].completed_at
      /\ new.completed_at /\ ~session[e].completed_at => db'[e].completed_at
  BY SaveFields
<1>2. e \in Executions /\ db[e].status # "none"
  BY DEF RunsInv, TypeInv, TypeOK
<1> QED BY <1>1, <1>2 DEF RowsKept

LEMMA AdvanceWorkerStep ==
    ASSUME TypeInv, RunsInv, InsertedInv, WorkerStep
    PROVE  AllAdvance
<1>1. CASE SelectBatch
  <2>1. /\ UNCHANGED <<db, overdue, crashes, authorised>> /\ pc = "select" /\ pc' = "next"
        /\ \A e \in batch' : ~db[e].completed_at
    BY <1>1 DEF SelectBatch, FirstQueued, Eligible, dbVars, historyVars
  <2>2. RowsKept
    BY <2>1 DEF RowsKept
  <2> QED BY <2>1, <2>2, AdvanceIdle DEF RunningPcs
<1>2. CASE EndBatch \/ ScanTimeouts \/ ResolveAlert
  <2>1. /\ UNCHANGED <<db, crashes, authorised>> /\ batch' \subseteq batch
        /\ pc \in {"next", "scan", "resolve"} /\ pc' \in {"next", "scan", "expire", "select"}
        /\ pc = "resolve" => current \notin batch'
    BY <1>2 DEF EndBatch, ScanTimeouts, ResolveAlert, LeaveExecution, dbVars, historyVars
  <2>2. \A e \in overdue' : e \in overdue \/ db[e].status # "none"
    BY <1>2 DEF EndBatch, ScanTimeouts, ResolveAlert
  <2>3. RowsKept
    BY <2>1 DEF RowsKept
  <2> QED BY <2>1, <2>2, <2>3, AdvanceIdle DEF RunningPcs
<1>3. CASE CommitTimeouts
  <2>1. ASSUME NEW e \in Executions
        PROVE  /\ db[e].status # "none" => db'[e].status # "none"
               /\ db[e].status = "none" /\ db'[e].status # "none" => ~db'[e].completed_at
               /\ db[e].completed_at => db'[e].completed_at
    <3>1. db[e] \in Row
      BY DEF TypeInv, TypeOK
    <3>2. e \notin overdue => db'[e] = db[e]
      BY <1>3 DEF CommitTimeouts
    <3>3. e \in overdue => db'[e] = [db[e] EXCEPT !.status = "timeout", !.completed_at = TRUE]
      BY <1>3 DEF CommitTimeouts
    <3>4. e \in overdue => db'[e].status = "timeout" /\ db'[e].completed_at
      BY <3>1, <3>3 DEF Row
    <3> QED BY <3>2, <3>4 DEF InsertedInv
  <2>2. RowsKept
    BY <2>1 DEF RowsKept
  <2>3. /\ UNCHANGED <<batch, crashes, authorised>> /\ overdue' = {}
        /\ pc = "expire" /\ pc' = "select"
    BY <1>3 DEF CommitTimeouts, historyVars
  <2> QED BY <2>2, <2>3, AdvanceIdle DEF RunningPcs
<1>4. CASE BeginExecution
  <2>1. PICK e \in batch, new \in Row :
             /\ Save(e, new)
             /\ new.status = "running"
             /\ new.completed_at = session[e].completed_at
    BY <1>4, BeginSaves
  <2>2. RowsKept
    BY <2>1, AdvanceSaves
  <2>3. /\ UNCHANGED <<batch, overdue, crashes, authorised>>
        /\ pc = "next" /\ pc' = "loaded"
    BY <1>4 DEF BeginExecution, historyVars
  <2> QED BY <2>2, <2>3, AdvanceIdle DEF RunningPcs
<1>5. CASE RefuseExecution
  <2>1. /\ pc = "loaded" /\ Save(current, Refused) /\ pc' = "next"
        /\ UNCHANGED <<overdue, crashes, authorised>> /\ batch' \subseteq batch
    BY <1>5, WorkerSaves DEF RefuseExecution, LeaveExecution, historyVars
  <2>2. /\ current \in batch /\ Refused \in Row
        /\ Refused.status = "failed" /\ Refused.completed_at
    BY <2>1, CurrentRow, EditFields DEF BusyPcs
  <2>3. RowsKept
    BY <2>1, <2>2, AdvanceSaves
  <2> QED BY <2>1, <2>3, AdvanceIdle DEF RunningPcs
<1>6. CASE StartRun \/ StepSucceeds \/ \E b \in BOOLEAN : StepFails(b)
  <2>1. /\ pc \in {"loaded", "command"} /\ pc' = "step"
        /\ UNCHANGED <<batch, current, overdue, crashes, authorised>>
    BY <1>6 DEF StartRun, StepSucceeds, StepFails, runVars, historyVars
  <2>2. current \in batch /\ session[current] \in Row
    BY <2>1, CurrentRow DEF BusyPcs, RunningPcs
  <2>3. PICK new \in Row : /\ Save(current, new)
                           /\ new.status \in {"running", session[current].status}
                           /\ new.completed_at = session[current].completed_at
    BY <1>6, <2>2, WorkerSaves, EditFields
  <2>4. RowsKept
    BY <2>2, <2>3, AdvanceSaves
  <2> QED BY <2>1, <2>4, AdvanceRun DEF RunningPcs
<1>7. CASE \/ SkipStep \/ IssueCommand \/ EndOfSteps \/ StartRollback \/ EndRollback \/ RunRaises
           \/ \E b \in BOOLEAN : RenderingFails(b)
  <2>1. /\ UNCHANGED <<db, batch, current, overdue, crashes, authorised>>
        /\ pc \in RunningPcs /\ pc' \in RunningPcs
    BY <1>7 DEF SkipStep, IssueCommand, EndOfSteps, StartRollback, EndRollback, RunRaises,
       RenderingFails, Conclude, RunningPcs, dbVars, runVars, historyVars
  <2>2. RowsKept
    BY <2>1 DEF RowsKept
  <2> QED BY <2>1, <2>2, AdvanceRun
<1>8. CASE CommitVerdict
  <2>1. /\ pc = "verdict" /\ pc' = "resolve" /\ Save(current, Concluded)
        /\ UNCHANGED <<batch, current, overdue, crashes, authorised>>
    BY <1>8, WorkerSaves DEF CommitVerdict, runVars
  <2>2. /\ current \in batch /\ Concluded \in Row
        /\ Concluded.status # "none" /\ Concluded.completed_at
    BY <2>1, CurrentRow, EditFields DEF BusyPcs, RunningPcs, Final
  <2>3. ~session[current].completed_at
    BY <2>1, <2>2 DEF RunsInv
  <2>4. RowsKept /\ db'[current].completed_at
    BY <2>1, <2>2, <2>3, AdvanceSaves
  <2> QED BY <2>1, <2>4 DEF AllAdvance, Advances, RowsKept, RunningPcs
<1> QED BY <1>1, <1>2, <1>3, <1>4, <1>5, <1>6, <1>7, <1>8 DEF WorkerStep

\* A new row is not completed.
LEMMA AdvanceInsert ==
    ASSUME TypeInv, NEW row \in Row, NEW free \in BOOLEAN, Insert(row, free), Fresh(row),
           UNCHANGED <<workerVars, crashes>>
    PROVE  AllAdvance
<1>1. PICK e \in Executions : /\ db[e].status = "none" /\ db' = [db EXCEPT ![e] = row]
                              /\ authorised \subseteq authorised'
  BY DEF Insert, NextFree
<1>2. db'[e] = row /\ \A f \in Executions : f # e => db'[f] = db[f]
  BY <1>1 DEF TypeInv, TypeOK
<1>3. ~row.completed_at /\ row.status # "none"
  BY DEF Fresh
<1>4. RowsKept
  BY <1>1, <1>2, <1>3 DEF RowsKept
<1> QED BY <1>1, <1>4, AdvanceElsewhere

LEMMA AdvanceDecision ==
    ASSUME TypeInv, InsertedInv, NEW c \in Clients, CommitDecision(c)
    PROVE  AllAdvance
<1> DEFINE e == req[c].exec
           row == req[c].row
           new == Decided(req[c].op, row)
<1>1. req[c].op \in Deciding /\ e \in Executions /\ row \in Row /\ db[e].status # "none"
  BY DEF CommitDecision, Deciding, TypeInv, TypeOK, ControlOK, Request, InsertedInv
<1>2. new \in Row /\ db[e] \in Row
  BY <1>1, DecidedType DEF TypeInv, TypeOK
<1>3. new.status # "none" /\ (new.completed_at = row.completed_at \/ new.completed_at)
  BY <1>1 DEF Decided, Deciding, Row
<1>4. /\ db' = [db EXCEPT ![e] = Flush(db[e], row, new)]
      /\ UNCHANGED <<workerVars, crashes>> /\ authorised \subseteq authorised'
  BY DEF CommitDecision
<1> HIDE DEF new
<1>5. Flush(db[e], row, new).status \in {db[e].status, new.status}
  BY <1>1, <1>2, FlushColumns DEF Column
<1>6. db[e].completed_at => Flush(db[e], row, new).completed_at
  BY <1>1, <1>2, <1>3, FlushColumns DEF Column, Row
<1>7. /\ \A f \in Executions : f # e => db'[f] = db[f]
      /\ db'[e].status # "none"
      /\ db[e].completed_at => db'[e].completed_at
  BY <1>1, <1>3, <1>4, <1>5, <1>6 DEF TypeInv, TypeOK
<1>8. RowsKept
  BY <1>1, <1>7 DEF RowsKept
<1> QED BY <1>4, <1>8, AdvanceElsewhere

LEMMA AdvanceProcessStep ==
    ASSUME TypeInv, RunsInv, ProcessStep
    PROVE  AllAdvance
<1>1. CASE Restart
  <2>1. /\ UNCHANGED <<db, overdue, batch, crashes, authorised>> /\ pc = "down" /\ pc' = "select"
    BY <1>1 DEF Restart, dbVars, historyVars
  <2>2. RowsKept
    BY <2>1 DEF RowsKept
  <2> QED BY <2>1, <2>2, AdvanceIdle DEF RunningPcs
<1>2. crashes \in Nat /\ crashes + 1 \in Nat
  BY DEF TypeInv, TypeOK
<1>3. CASE Crash \/ Stop
  <2>1. pc' = "down" /\ batch' = {} /\ overdue' = {} /\ UNCHANGED authorised
    BY <1>3 DEF Crash, Stop, LoseMemory
  <2>2. CASE pc \in {"step", "command", "rollback"} /\ Stop
    <3>1. /\ db' = [db EXCEPT ![current] = Flush(db[current], session[current], Interrupted)]
          /\ crashes' = crashes
      BY <2>2 DEF Stop
    <3>2. /\ current \in batch /\ current \in Executions
          /\ db[current] \in Row /\ session[current] \in Row
      BY <2>2, CurrentRow DEF BusyPcs, RunningPcs
    <3>3. ~session[current].completed_at /\ db[current].status # "none"
      BY <2>2, <3>2 DEF RunsInv
    <3>4. /\ Interrupted \in Row /\ Interrupted.completed_at
          /\ Interrupted.status \in {session[current].status, "failed"}
      BY <3>2, InterruptedFields
    <3>5. Flush(db[current], session[current], Interrupted).status # "none"
      BY <3>2, <3>3, <3>4, FlushColumns DEF Column
    <3>6. Flush(db[current], session[current], Interrupted).completed_at
      BY <3>2, <3>3, <3>4, FlushColumns DEF Column, Row
    <3>7. /\ \A f \in Executions : f # current => db'[f] = db[f]
          /\ db'[current].status # "none" /\ db'[current].completed_at
      BY <3>1, <3>2, <3>5, <3>6 DEF TypeInv, TypeOK
    <3>8. RowsKept
      BY <3>3, <3>7 DEF RowsKept
    <3> QED BY <2>1, <3>1, <3>7, <3>8 DEF AllAdvance, Advances, RowsKept, RunningPcs
  <2>3. CASE UNCHANGED db /\ (crashes' = crashes + 1 \/ (crashes' = crashes /\ pc \notin RunningPcs))
    <3>1. RowsKept
      BY <2>3 DEF RowsKept
    <3> QED BY <2>1, <2>3, <3>1 DEF AllAdvance, Advances, RowsKept, RunningPcs
  <2> QED BY <1>3, <2>2, <2>3 DEF Crash, Stop, RunningPcs, dbVars
<1> QED BY <1>1, <1>3 DEF ProcessStep

LEMMA AdvanceStep ==
    ASSUME TypeInv, RunsInv, SubmittedInv, InsertedInv, [Next]_vars
    PROVE  AllAdvance
<1>1. CASE WorkerStep
  BY <1>1, AdvanceWorkerStep
<1>2. CASE ClientStep
  <2>1. PICK c \in Clients :
          Reads(c) \/ SubmitInsert(c) \/ CommitDecision(c) \/ CommitOverride(c)
    BY <1>2, ClientSteps
  <2>2. CASE Reads(c) \/ CommitOverride(c)
    <3>1. UNCHANGED <<db, crashes, authorised, workerVars>>
      BY <2>2 DEF Reads, CommitOverride, dbVars, historyVars
    <3> QED BY <3>1, AdvanceElsewhere DEF RowsKept
  <2>3. CASE SubmitInsert(c)
    <3>1. /\ Fresh(req[c].row) /\ (~MustWait(req[c].row)) \in BOOLEAN
          /\ Insert(req[c].row, ~MustWait(req[c].row)) /\ UNCHANGED <<crashes, workerVars>>
      BY <2>3 DEF SubmitInsert, SubmittedInv, MustWait
    <3>2. req[c].row \in Row
      BY <3>1 DEF Fresh
    <3> QED BY <3>1, <3>2, AdvanceInsert
  <2> QED BY <2>1, <2>2, <2>3, AdvanceDecision
<1>3. CASE ProcessStep
  BY <1>3, AdvanceProcessStep
<1>4. CASE InsertStep
  <2>1. PICK row \in Row, free \in BOOLEAN : Insert(row, free) /\ Fresh(row)
    BY <1>4, InsertsFresh
  <2>2. UNCHANGED <<crashes, workerVars>>
    BY <1>4, InsertsFresh
  <2> QED BY <2>1, <2>2, AdvanceInsert
<1>5. CASE \E e \in Executions : ApprovalExpires(e)
  <2>1. UNCHANGED <<crashes, authorised, workerVars>>
    BY <1>5 DEF ApprovalExpires, historyVars
  <2>2. \A e \in Executions : /\ db'[e].status = db[e].status
                              /\ db'[e].completed_at = db[e].completed_at
    BY <1>5 DEF ApprovalExpires, TypeInv, TypeOK, Row
  <2>3. RowsKept
    BY <2>2 DEF RowsKept
  <2> QED BY <2>1, <2>3, AdvanceElsewhere
<1>6. CASE UNCHANGED vars
  <2>1. UNCHANGED <<db, crashes, authorised, workerVars>>
    BY <1>6 DEF vars, dbVars, historyVars
  <2> QED BY <2>1, AdvanceElsewhere DEF RowsKept
<1> QED BY <1>1, <1>2, <1>3, <1>4, <1>5, <1>6 DEF Next

LEMMA InsertedStep ==
    ASSUME TypeInv, RunsInv, SubmittedInv, InsertedInv, [Next]_vars
    PROVE  InsertedInv'
<1>1. AllAdvance
  BY AdvanceStep
<1>2. \A e \in Executions : db[e].status # "none" => db'[e].status # "none"
  BY <1>1 DEF AllAdvance, Advances
<1>3. overdue \subseteq Executions /\ overdue' \subseteq Executions
  BY TypeInvInductive DEF TypeInv, TypeOK
<1>4. \A e \in overdue' : db'[e].status # "none"
  BY <1>1, <1>2, <1>3 DEF AllAdvance, InsertedInv
<1>5. \A c \in Clients : req[c].op \in Deciding => req[c].exec \in Executions
  BY DEF TypeInv, ControlOK
<1>6. ASSUME UNCHANGED req
      PROVE  \A c \in Clients : req'[c].op \in Deciding => db'[req'[c].exec].status # "none"
  BY <1>2, <1>5, <1>6 DEF InsertedInv
<1>7. \A c \in Clients : req'[c].op \in Deciding => db'[req'[c].exec].status # "none"
  <2>1. CASE ClientStep
    <3>1. PICK c \in Clients : Reads(c) \/ req' = [req EXCEPT ![c] = Idle]
      BY <2>1, ClientSteps DEF SubmitInsert, CommitDecision, CommitOverride
    <3>2. CASE Reads(c)
      <4>1. PICK q : /\ req' = [req EXCEPT ![c] = q] /\ UNCHANGED db
                     /\ q.op \in Deciding => db[q.exec].status # "none"
        BY <3>2 DEF Reads, dbVars
      <4> QED BY <4>1 DEF InsertedInv, TypeInv, TypeOK
    <3>3. CASE req' = [req EXCEPT ![c] = Idle]
      <4>1. req'[c] = Idle /\ \A d \in Clients : d # c => req'[d] = req[d]
        BY <3>3 DEF TypeInv, TypeOK
      <4> QED BY <1>2, <1>5, <4>1, IdleRequest DEF InsertedInv
    <3> QED BY <3>1, <3>2, <3>3
  <2>2. CASE Crash \/ Stop
    BY <2>2, IdleRequest DEF Crash, Stop, LoseMemory
  <2>3. CASE WorkerStep
    <3>1. UNCHANGED req
      BY <2>3 DEF WorkerStep, SelectBatch, BeginExecution, RefuseExecution, EndBatch, StartRun,
         SkipStep, IssueCommand, StepSucceeds, RenderingFails, StepFails, EndOfSteps, StartRollback,
         EndRollback, RunRaises, CommitVerdict, ResolveAlert, ScanTimeouts, CommitTimeouts, Conclude
    <3> QED BY <1>6, <3>1
  <2>4. CASE InsertStep
    BY <1>6, <2>4, InsertsFresh
  <2>5. CASE Restart \/ (\E e \in Executions : ApprovalExpires(e)) \/ UNCHANGED vars
    BY <1>6, <2>5 DEF Restart, ApprovalExpires, vars
  <2> QED BY <2>1, <2>2, <2>3, <2>4, <2>5 DEF Next, ProcessStep
<1> QED BY <1>4, <1>7 DEF InsertedInv
Active(e) == current = e /\ pc \in RunningPcs
Finished(e) == db[e].completed_at /\ (e \notin batch \/ (current = e /\ pc = "resolve"))
Waiting(e) == IF e \in authorised THEN "cleared" ELSE "held"

\* The phase of an execution, condition by condition.
LEMMA PhaseOf ==
    ASSUME NEW e \in Executions
    PROVE  /\ db[e].status = "none" => phase[e] = "absent"
           /\ db[e].status # "none" /\ Active(e) => phase[e] = "active"
           /\ db[e].status # "none" /\ ~Active(e) /\ Finished(e) => phase[e] = "done"
           /\ db[e].status # "none" /\ ~Active(e) /\ ~Finished(e) => phase[e] = Waiting(e)
BY DEF phase, Active, Finished, Waiting

LEMMA PhaseOfNext ==
    ASSUME NEW e \in Executions
    PROVE  /\ db'[e].status = "none" => phase'[e] = "absent"
           /\ db'[e].status # "none" /\ Active(e)' => phase'[e] = "active"
           /\ db'[e].status # "none" /\ ~Active(e)' /\ Finished(e)' => phase'[e] = "done"
           /\ db'[e].status # "none" /\ ~Active(e)' /\ ~Finished(e)' => phase'[e] = Waiting(e)'
BY DEF phase, Active, Finished, Waiting

LEMMA PhaseMoves ==
    ASSUME TypeInv, AuthorityInv, RunsInv, TypeInv', AuthorityInv', RunsInv',
           AllAdvance, NEW e \in Executions
    PROVE  Promise!Move(e)
<1> DEFINE Allowed(a, b) == \/ a = b
                            \/ <<a, b>> \in Promise!Moves
                            \/ crashes' = crashes + 1 /\ <<a, b>> = <<"active", "cleared">>
<1>1. Allowed(phase[e], phase'[e]) => Promise!Move(e)
  BY DEF Promise!Move
<1>2. /\ Allowed("absent", "absent") /\ Allowed("absent", "held") /\ Allowed("absent", "cleared")
      /\ Allowed("held", "held") /\ Allowed("held", "cleared") /\ Allowed("held", "done")
      /\ Allowed("cleared", "cleared") /\ Allowed("cleared", "active") /\ Allowed("cleared", "done")
      /\ Allowed("active", "active") /\ Allowed("active", "done") /\ Allowed("done", "done")
      /\ crashes' = crashes + 1 => Allowed("active", "cleared")
  BY DEF Promise!Moves
<1> HIDE DEF Allowed
<1>3. Advances(e) /\ authorised \subseteq authorised'
  BY DEF AllAdvance
<1>4. /\ db[e].status = "none" => e \notin batch
      /\ db'[e].status = "none" => e \notin batch'
  BY DEF RunsInv
<1>5. /\ Active(e) => e \in batch
      /\ Active(e)' => e \in batch'
      /\ current = e /\ pc = "loaded" => e \in batch
  BY DEF Active, TypeInv, TypeOK, ControlOK, Executions
<1>6. (e \in batch => e \in authorised) /\ (e \in batch' => e \in authorised')
  BY DEF AuthorityInv
<1>7. /\ Waiting(e) = "cleared" \/ (Waiting(e) = "held" /\ e \notin authorised)
      /\ Waiting(e)' = "held" => e \notin authorised'
      /\ Waiting(e)' \in {"cleared", "held"}
  BY DEF Waiting
<1>8. CASE db[e].status = "none"
  <2>1. phase[e] = "absent" /\ ~Active(e) /\ ~(current = e /\ pc = "loaded")
    BY <1>4, <1>5, <1>8, PhaseOf
  <2>2. ~Active(e)'
    BY <1>3, <2>1 DEF Advances, Active
  <2>3. CASE db'[e].status = "none"
    BY <1>1, <1>2, <2>1, <2>3, PhaseOfNext
  <2>4. CASE db'[e].status # "none"
    <3>1. ~Finished(e)'
      BY <1>3, <1>8, <2>4 DEF Advances, Finished
    <3> QED BY <1>1, <1>2, <1>7, <2>1, <2>2, <2>4, <3>1, PhaseOfNext
  <2> QED BY <2>3, <2>4
<1>9. CASE db[e].status # "none" /\ Active(e)
  <2>1. phase[e] = "active" /\ db'[e].status # "none" /\ e \in authorised'
    BY <1>3, <1>5, <1>6, <1>9, PhaseOf DEF Advances
  <2>2. Active(e)' \/ Finished(e)' \/ crashes' = crashes + 1
    BY <1>3, <1>9 DEF Advances, Active, Finished
  <2>3. Waiting(e)' = "cleared"
    BY <2>1 DEF Waiting
  <2> QED BY <1>1, <1>2, <2>1, <2>2, <2>3, PhaseOfNext
<1>10. CASE db[e].status # "none" /\ ~Active(e) /\ Finished(e)
  <2>1. phase[e] = "done" /\ db'[e].status # "none"
    BY <1>3, <1>10, PhaseOf DEF Advances
  <2>2. ~(current = e /\ pc = "loaded")
    BY <1>5, <1>10 DEF Finished
  <2>3. ~Active(e)'
    BY <1>3, <1>10, <2>2 DEF Advances, Active
  <2>4. Finished(e)'
    BY <1>3, <1>10 DEF Advances, Finished
  <2> QED BY <1>1, <1>2, <2>1, <2>3, <2>4, PhaseOfNext
<1>11. CASE db[e].status # "none" /\ ~Active(e) /\ ~Finished(e)
  <2>1. phase[e] = Waiting(e) /\ db'[e].status # "none"
    BY <1>3, <1>11, PhaseOf DEF Advances
  <2>2. CASE Waiting(e) = "cleared"
    <3>1. Waiting(e)' = "cleared"
      <4>1. e \in authorised
        BY <2>2 DEF Waiting
      <4> QED BY <1>3, <4>1 DEF Waiting
    <3> QED BY <1>1, <1>2, <2>1, <2>2, <3>1, PhaseOfNext
  <2>3. CASE Waiting(e) = "held" /\ e \notin authorised
    <3>1. e \notin batch /\ ~(current = e /\ pc = "loaded")
      BY <1>5, <1>6, <2>3
    <3>2. ~Active(e)'
      BY <1>3, <1>11, <3>1 DEF Advances, Active
    <3> QED BY <1>1, <1>2, <1>7, <2>1, <2>3, <3>2, PhaseOfNext
  <2> QED BY <1>7, <2>2, <2>3
<1> QED BY <1>8, <1>9, <1>10, <1>11

LEMMA ActiveNext ==
    ASSUME NEW e \in Executions, phase'[e] = "active"
    PROVE  current' = e
<1>1. db'[e].status # "none"
  BY PhaseOfNext
<1>2. Waiting(e)' # "active"
  BY DEF Waiting
<1>3. Active(e)'
  BY <1>1, <1>2, PhaseOfNext
<1> QED BY <1>3 DEF Active

\* The table, the handlers, the worker and the deaths of the process together keep the
\* promise of ExecutionPromise: commands only of what was cleared, one execution at a
\* time, nothing done taken up again, and a second run only after a death.
THEOREM PromiseIsKept == Spec => KeepsPromise
<1>1. Init => Promise!Init
  <2> SUFFICES ASSUME Init PROVE Promise!Init
    OBVIOUS
  <2>1. crashes = 0 /\ \A e \in Executions : db[e].status = "none"
    BY DEF Init, NoRow
  <2>2. phase = [e \in Executions |-> "absent"]
    BY <2>1 DEF phase
  <2> QED BY <2>1, <2>2 DEF Promise!Init
<1>2. TypeInv /\ AuthorityInv /\ RunsInv /\ SubmittedInv /\ InsertedInv /\ [Next]_vars
        => [Promise!Next]_Promise!vars
  <2> SUFFICES ASSUME TypeInv, AuthorityInv, RunsInv, SubmittedInv, InsertedInv, [Next]_vars
               PROVE  Promise!Next
    OBVIOUS
  <2>1. AllAdvance
    BY AdvanceStep
  <2>2. TypeInv' /\ AuthorityInv' /\ RunsInv'
    BY TypeInvInductive, AuthorityInductive, RunsInductive
  <2>3. \A e \in Executions : Promise!Move(e)
    BY <2>1, <2>2, PhaseMoves
  <2>4. crashes' \in {crashes, crashes + 1}
    BY <2>1 DEF AllAdvance
  <2>5. Promise!OneAtATime'
    BY ActiveNext DEF Promise!OneAtATime
  <2> QED BY <2>3, <2>4, <2>5 DEF Promise!Next
<1>3. Init => AuthorityInv
  BY DEF Init, AuthorityInv, NoRunWithoutAuthority, NoRow, Idle
<1>4. Init => InsertedInv
  BY IdleRequest DEF Init, InsertedInv
<1>5. Spec => [](TypeInv /\ AuthorityInv /\ RunsInv /\ SubmittedInv /\ InsertedInv)
  BY <1>3, <1>4, TypeInvInit, RunsInit, SubmittedInit, TypeInvInductive, AuthorityInductive,
     RunsInductive, SubmittedStep, InsertedStep, PTL DEF Spec
<1> QED BY <1>1, <1>2, <1>5, PTL DEF Spec, KeepsPromise, Promise!Spec

=============================================================================
