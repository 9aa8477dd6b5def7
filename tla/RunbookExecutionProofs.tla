---------------------- MODULE RunbookExecutionProofs ----------------------
(***************************************************************************)
(* Theorems about RunbookExecution, for any number of rows, requests,      *)
(* steps, crashes and stops: types, authority and the number of runs.      *)
(***************************************************************************)
EXTENDS RunbookExecution, TLAPS

BusyPcs == RunningPcs \cup {"loaded", "resolve"}

Deciding == {"approve", "reject", "expire", "cancel"}

\* Where the worker's task is agrees with its locals, and a decision in flight
\* is about an inserted row.
ControlOK ==
    /\ pc \in BusyPcs <=> current # 0
    /\ current # 0 => current \in batch
    /\ pc = "command" => step <= Steps
    /\ pc \in {"rollback", "verdict", "resolve"} <=> outcome # "none"
    /\ pc = "rollback" => outcome = "failed"
    /\ \A c \in Clients : req[c].op \in Deciding => req[c].exec \in Executions

TypeInv == TypeOK /\ ControlOK

\* Why no run starts without authority: whatever the worker may pick up or has
\* picked up is authorised, and a submission that will be inserted as running
\* asked for no approval.
AuthorityInv ==
    /\ NoRunWithoutAuthority
    /\ batch \subseteq authorised
    /\ \A e \in Executions : db[e].status \in {"approved", "running"} => e \in authorised
    /\ \A c \in Clients :
         req[c].op = "execute" /\ req[c].row.status \in {"approved", "running"}
             => ~MustWait(req[c].row)

\* Why no run starts twice: a row that has had a run more than there were crashes
\* is completed or being run, and the worker's batch holds neither a completed row
\* nor one that has had such a run.
RunsInv ==
    /\ \A e \in Executions :
         \/ runs[e] <= crashes
         \/ /\ runs[e] <= crashes + 1
            /\ db[e].completed_at \/ (current = e /\ pc \in RunningPcs)
    /\ \A e \in batch : \/ current = e /\ pc \in RunningPcs \cup {"resolve"}
                       \/ runs[e] <= crashes
    /\ \A e \in batch : \/ current = e /\ pc = "resolve"
                       \/ ~session[e].completed_at
    /\ \A e \in Executions : db[e].status = "none" => runs[e] = 0 /\ e \notin batch

---------------------------------------------------------------------------
(* The unit of work                                                        *)

\* A flush of rows gives a row.
LEMMA FlushType ==
    ASSUME NEW stored \in Row, NEW seen \in Row, NEW new \in Row
    PROVE  Flush(stored, seen, new) \in Row
BY DEF Flush, Column, Row

LEMMA FlushBreakerType ==
    ASSUME NEW b \in Breaker, NEW seen \in Breaker, NEW new \in Breaker
    PROVE  FlushBreaker(b, seen, new) \in Breaker
BY DEF FlushBreaker, Column, Breaker

LEMMA ClosedType == ClosedBreaker \in Breaker
BY DEF ClosedBreaker, Breaker

\* What a result or an override makes of a breaker is a breaker.
LEMMA BreakerTypes ==
    ASSUME NEW b \in Breaker
    PROVE  /\ OnSuccess(b) \in Breaker
           /\ OnFailure(b) \in Breaker
           /\ OnOverride(b, "open") \in Breaker
           /\ OnOverride(b, "close") \in Breaker
BY DEF Breaker, ClosedBreaker, OnSuccess, OnFailure, OnOverride

LEMMA RowTypes ==
    /\ NoRow \in Row
    /\ \A r \in [approval_required : BOOLEAN, dry_run : BOOLEAN, alert_id : BOOLEAN] :
         /\ SubmittedRow(r) \in Row
         /\ NewRow(r, "running", "none") \in Row
         /\ NewRow(r, "pending_approval", "ahead") \in Row
BY DEF NoRow, Row, SubmittedRow, NewRow, Statuses

LEMMA DecidedType ==
    ASSUME NEW row \in Row, NEW op \in Deciding
    PROVE  Decided(op, row) \in Row
BY DEF Deciding, Decided, Row, Statuses

\* Every change the worker makes to a row gives a row.
LEMMA EditTypes ==
    ASSUME NEW row \in Row
    PROVE  /\ [row EXCEPT !.status = "running"] \in Row
           /\ \A o \in {"success", "failed", "timeout"} :
                [row EXCEPT !.status = o, !.completed_at = TRUE] \in Row
           /\ [row EXCEPT !.completed_at = TRUE] \in Row
           /\ [row EXCEPT !.steps_completed = @ + 1] \in Row
           /\ [row EXCEPT !.steps_failed = @ + 1] \in Row
<1>1. [row EXCEPT !.status = "running"] \in Row
  BY DEF Row, Statuses
<1>2. ASSUME NEW o \in {"success", "failed", "timeout"}
      PROVE  [row EXCEPT !.status = o, !.completed_at = TRUE] \in Row
  BY DEF Row, Statuses
<1>3. [row EXCEPT !.completed_at = TRUE] \in Row
  BY DEF Row
<1>4. [row EXCEPT !.steps_completed = @ + 1] \in Row
  BY DEF Row
<1>5. [row EXCEPT !.steps_failed = @ + 1] \in Row
  BY DEF Row
<1>6. QED
  BY <1>1, <1>2, <1>3, <1>4, <1>5

\* The index a run starts from.
LEMMA FirstStep == 1 \in 1 .. (Steps + 1)
BY BoundsAssumption

\* What a stop commits of the run it interrupts.
LEMMA InterruptedFields ==
    ASSUME session[current] \in Row
    PROVE  /\ Interrupted \in Row /\ Interrupted.completed_at
           /\ Interrupted.status \in {session[current].status, "failed"}
BY DEF Interrupted, Row, Statuses

LEMMA IdleType == Idle \in Request
BY RowTypes, ClosedType DEF Idle, Request

\* A commit of the worker's session keeps the table and the session typed.
LEMMA SaveType ==
    ASSUME TypeOK, NEW e \in Executions, NEW new \in Row, Save(e, new)
    PROVE  /\ db' \in [Executions -> Row]
           /\ session' \in [Executions -> Row]
<1>1. Flush(db[e], session[e], new) \in Row
  BY FlushType DEF TypeOK
<1>2. QED
  BY <1>1 DEF TypeOK, Save

---------------------------------------------------------------------------
(* Type correctness                                                        *)

\* Inserting a row, from any source.
LEMMA InsertType ==
    ASSUME TypeInv, NEW row \in Row, NEW free \in BOOLEAN, Insert(row, free),
           UNCHANGED <<cb, resolved, workerVars, runs, failures, crashes, stops>>,
           \/ UNCHANGED req
           \/ \E c \in Clients : req' = [req EXCEPT ![c] = Idle]
    PROVE  TypeInv'
<1>1. db' \in [Executions -> Row] /\ authorised' \subseteq Executions
  BY DEF Insert, TypeInv, TypeOK
<1>2. req' \in [Clients -> Request]
  BY IdleType DEF TypeInv, TypeOK
<1>3. \A c \in Clients : req'[c].op \in Deciding => req'[c].exec \in Executions
  BY DEF TypeInv, ControlOK, TypeOK, Idle, Deciding
<1>4. QED
  BY <1>1, <1>2, <1>3 DEF TypeInv, TypeOK, ControlOK, workerVars, runVars

\* A client reads: its request stays typed, and a decision names its row.
LEMMA ReadType ==
    ASSUME TypeInv, NEW c \in Clients, NEW r \in Request,
           r.op \in Deciding => r.exec \in Executions,
           req' = [req EXCEPT ![c] = r],
           UNCHANGED <<dbVars, workerVars, historyVars>>
    PROVE  TypeInv'
<1>1. req' \in [Clients -> Request]
  BY DEF TypeInv, TypeOK
<1>2. \A d \in Clients : req'[d].op \in Deciding => req'[d].exec \in Executions
  BY DEF TypeInv, TypeOK, ControlOK
<1>3. QED
  BY <1>1, <1>2 DEF TypeInv, TypeOK, ControlOK, dbVars, workerVars, runVars, historyVars

LEMMA InsertStepType == TypeInv /\ InsertStep => TypeInv'
<1> SUFFICES ASSUME TypeInv, InsertStep PROVE TypeInv'
  OBVIOUS
<1> DEFINE Asked == [approval_required : BOOLEAN, dry_run : BOOLEAN, alert_id : BOOLEAN]
<1>1. ASSUME NEW e \in Executions, NEW r \in Requests, Retry(e, r.approval_required)
      PROVE  TypeInv'
  <2> DEFINE q == [approval_required |-> r.approval_required,
                   dry_run |-> db[e].dry_run, alert_id |-> db[e].alert_id]
  <2>1. q \in Asked
    BY EnvironmentAssumption DEF TypeInv, TypeOK, Row
  <2>2. SubmittedRow(q) \in Row /\ (~MustWait(q)) \in BOOLEAN
    BY <2>1, RowTypes DEF MustWait
  <2>3. /\ Insert(SubmittedRow(q), ~MustWait(q))
        /\ UNCHANGED <<cb, resolved, workerVars, runs, failures, crashes, stops>>
        /\ UNCHANGED req
    BY <1>1 DEF Retry
  <2> HIDE DEF q
  <2>4. QED
    BY <2>2, <2>3, InsertType
<1>2. CASE TestStep
  <2> DEFINE q == [approval_required |-> FALSE, dry_run |-> TRUE, alert_id |-> FALSE]
  <2>1. NewRow(q, "running", "none") \in Row
    BY RowTypes
  <2>2. QED
    BY <1>2, <2>1, InsertType DEF TestStep
<1>3. ASSUME NEW r \in Requests, ScheduledRun(r.approval_required)
      PROVE  TypeInv'
  <2> DEFINE q == [approval_required |-> r.approval_required,
                   dry_run |-> FALSE, alert_id |-> FALSE]
  <2>1. q \in Asked
    BY EnvironmentAssumption
  <2>2. SubmittedRow(q) \in Row /\ (~MustWait(q)) \in BOOLEAN
    BY <2>1, RowTypes DEF MustWait
  <2>3. /\ Insert(SubmittedRow(q), ~MustWait(q))
        /\ UNCHANGED <<cb, resolved, workerVars, runs, failures, crashes, stops>>
        /\ UNCHANGED req
    BY <1>3 DEF ScheduledRun
  <2> HIDE DEF q
  <2>4. QED
    BY <2>2, <2>3, InsertType
<1>4. CASE TriggeredRun
  <2> DEFINE q == [approval_required |-> FALSE, dry_run |-> FALSE, alert_id |-> TRUE]
  <2>1. NewRow(q, "pending_approval", "ahead") \in Row
    BY RowTypes
  <2>2. QED
    BY <1>4, <2>1, InsertType DEF TriggeredRun
<1>5. QED
  BY <1>1, <1>2, <1>3, <1>4 DEF InsertStep

LEMMA ClientStepType == TypeInv /\ ClientStep => TypeInv'
<1> SUFFICES ASSUME TypeInv, NEW c \in Clients,
                    \/ \E r \in Requests, bypass \in BOOLEAN : SubmitCheck(c, r, bypass)
                    \/ SubmitInsert(c)
                    \/ \E e \in Executions, op \in {"approve", "reject"} : ReadForDecision(c, e, op)
                    \/ \E e \in Executions : ReadForCancel(c, e)
                    \/ CommitDecision(c)
                    \/ \E action \in {"open", "close"} : ReadForOverride(c, action)
                    \/ CommitOverride(c)
             PROVE  TypeInv'
  BY DEF ClientStep
<1>1. ASSUME NEW r \in Requests, NEW bypass \in BOOLEAN, SubmitCheck(c, r, bypass)
      PROVE  TypeInv'
  <2>1. SubmittedRow(r) \in Row
    BY EnvironmentAssumption, RowTypes
  <2> DEFINE q == [Idle EXCEPT !.op = "execute", !.row = SubmittedRow(r)]
  <2>2. q \in Request /\ q.op \notin Deciding
    BY <2>1, IdleType DEF Idle, Request, AllOperations, Deciding
  <2>3. QED
    BY <1>1, <2>2, ReadType DEF SubmitCheck
<1>2. CASE SubmitInsert(c)
  <2>1. req[c].row \in Row /\ (~MustWait(req[c].row)) \in BOOLEAN
    BY DEF TypeInv, TypeOK, Request, MustWait
  <2>2. /\ Insert(req[c].row, ~MustWait(req[c].row))
        /\ req' = [req EXCEPT ![c] = Idle]
        /\ UNCHANGED <<cb, resolved, workerVars, runs, failures, crashes, stops>>
    BY <1>2 DEF SubmitInsert
  <2>3. QED
    BY <2>1, <2>2, InsertType
<1>3. ASSUME NEW e \in Executions, NEW op \in {"approve", "reject"}, ReadForDecision(c, e, op)
      PROVE  TypeInv'
  <2> DEFINE q == [Idle EXCEPT !.op = IF db[e].approval_expires_at = "past" THEN "expire" ELSE op,
                               !.exec = e, !.row = db[e]]
  <2>1. db[e] \in Row
    BY DEF TypeInv, TypeOK
  <2>2. q \in Request /\ q.exec \in Executions
    BY <2>1, IdleType DEF Idle, Request, AllOperations
  <2>3. QED
    BY <1>3, <2>2, ReadType DEF ReadForDecision
<1>4. ASSUME NEW e \in Executions, ReadForCancel(c, e)
      PROVE  TypeInv'
  <2> DEFINE q == [Idle EXCEPT !.op = "cancel", !.exec = e, !.row = db[e]]
  <2>1. db[e] \in Row
    BY DEF TypeInv, TypeOK
  <2>2. q \in Request /\ q.exec \in Executions
    BY <2>1, IdleType DEF Idle, Request, AllOperations
  <2>3. QED
    BY <1>4, <2>2, ReadType DEF ReadForCancel
<1>5. CASE CommitDecision(c)
  <2>1. req[c].op \in Deciding /\ req[c].exec \in Executions /\ req[c].row \in Row
    BY <1>5 DEF CommitDecision, Deciding, TypeInv, TypeOK, ControlOK, Request
  <2>2. Flush(db[req[c].exec], req[c].row, Decided(req[c].op, req[c].row)) \in Row
    BY <2>1, DecidedType, FlushType DEF TypeInv, TypeOK
  <2>3. db' \in [Executions -> Row] /\ authorised' \subseteq Executions
    BY <1>5, <2>1, <2>2 DEF CommitDecision, TypeInv, TypeOK
  <2>4. req' \in [Clients -> Request]
    BY <1>5, IdleType DEF CommitDecision, TypeInv, TypeOK
  <2>5. \A d \in Clients : req'[d].op \in Deciding => req'[d].exec \in Executions
    BY <1>5 DEF CommitDecision, TypeInv, TypeOK, ControlOK, Idle, Deciding
  <2>6. QED
    BY <1>5, <2>3, <2>4, <2>5 DEF CommitDecision, TypeInv, TypeOK, ControlOK, workerVars, runVars
<1>6. ASSUME NEW action \in {"open", "close"}, ReadForOverride(c, action)
      PROVE  TypeInv'
  <2> DEFINE q == [Idle EXCEPT !.op = action, !.breaker = cb]
  <2>1. q \in Request /\ q.op \notin Deciding
    BY IdleType DEF Idle, Request, AllOperations, Deciding, TypeInv, TypeOK
  <2>2. QED
    BY <1>6, <2>1, ReadType DEF ReadForOverride
<1>7. CASE CommitOverride(c)
  <2>1. req[c].breaker \in Breaker /\ cb \in Breaker
    BY DEF TypeInv, TypeOK, Request
  <2>2. cb' \in Breaker /\ failures' \in Nat
    BY <1>7, <2>1, BreakerTypes, FlushBreakerType DEF CommitOverride, TypeInv, TypeOK
  <2>3. req' \in [Clients -> Request]
    BY <1>7, IdleType DEF CommitOverride, TypeInv, TypeOK
  <2>4. \A d \in Clients : req'[d].op \in Deciding => req'[d].exec \in Executions
    BY <1>7 DEF CommitOverride, TypeInv, TypeOK, ControlOK, Idle, Deciding
  <2>5. QED
    BY <1>7, <2>2, <2>3, <2>4 DEF CommitOverride, TypeInv, TypeOK, ControlOK, workerVars, runVars
<1>8. QED
  BY <1>1, <1>2, <1>3, <1>4, <1>5, <1>6, <1>7

\* Every step of the worker; the defs that only unfold a tuple come with each.
LEMMA WorkerStepType == TypeInv /\ WorkerStep => TypeInv'
<1> SUFFICES ASSUME TypeInv, WorkerStep PROVE TypeInv'
  OBVIOUS
<1> USE DEF TypeInv, ControlOK, BusyPcs, RunningPcs
<1>1. CASE SelectBatch
  <2>1. batch' \subseteq Executions
    BY <1>1 DEF SelectBatch, FirstQueued, Eligible
  <2>2. session' \in [Executions -> Row]
    BY <1>1, RowTypes DEF SelectBatch, TypeOK
  <2>3. QED
    BY <1>1, <2>1, <2>2 DEF SelectBatch, TypeOK, Pcs, dbVars, runVars, historyVars
<1>2. CASE BeginExecution
  <2>1. PICK e \in batch : current' = e /\ Save(e, [session[e] EXCEPT !.status = "running"])
    BY <1>2 DEF BeginExecution
  <2>2. e \in Executions /\ [session[e] EXCEPT !.status = "running"] \in Row
    BY <2>1, EditTypes DEF TypeOK
  <2>3. db' \in [Executions -> Row] /\ session' \in [Executions -> Row]
    BY <2>1, <2>2, SaveType
  <2>4. e # 0
    BY <2>2, BoundsAssumption DEF Executions
  <2>5. QED
    BY <1>2, <2>1, <2>2, <2>3, <2>4 DEF BeginExecution, TypeOK, Pcs, historyVars
<1>3. CASE RefuseExecution
  <2>1. current \in Executions
    BY <1>3 DEF RefuseExecution, TypeOK
  <2>2. [session[current] EXCEPT !.status = "failed", !.completed_at = TRUE] \in Row
    BY <2>1, EditTypes DEF TypeOK
  <2>3. db' \in [Executions -> Row] /\ session' \in [Executions -> Row]
    BY <1>3, <2>1, <2>2, SaveType DEF RefuseExecution
  <2>4. QED
    BY <1>3, <2>3, FirstStep, ClosedType
       DEF RefuseExecution, LeaveExecution, TypeOK, Pcs, historyVars
<1>4. CASE EndBatch
  BY <1>4, RowTypes DEF EndBatch, TypeOK, Pcs, dbVars, runVars, historyVars
<1>5. CASE StartRun
  <2>1. current \in Executions
    BY <1>5 DEF StartRun, TypeOK
  <2>2. [session[current] EXCEPT !.status = "running"] \in Row
    BY <2>1, EditTypes DEF TypeOK
  <2>3. db' \in [Executions -> Row] /\ session' \in [Executions -> Row]
    BY <1>5, <2>1, <2>2, SaveType DEF StartRun
  <2>4. runs' \in [Executions -> Nat]
    BY <1>5, <2>1 DEF StartRun, TypeOK
  <2>5. QED
    BY <1>5, <2>3, <2>4 DEF StartRun, TypeOK, Pcs, runVars
<1>6. CASE SkipStep
  BY <1>6, BoundsAssumption DEF SkipStep, TypeOK, dbVars, historyVars
<1>7. CASE IssueCommand
  BY <1>7 DEF IssueCommand, TypeOK, Pcs, dbVars, runVars, historyVars
<1>8. CASE StepSucceeds
  <2>1. current \in Executions
    BY <1>8 DEF StepSucceeds, TypeOK
  <2>2. [session[current] EXCEPT !.steps_completed = @ + 1] \in Row
    BY <2>1, EditTypes DEF TypeOK
  <2>3. db' \in [Executions -> Row] /\ session' \in [Executions -> Row]
    BY <1>8, <2>1, <2>2, SaveType DEF StepSucceeds
  <2>4. step' \in 1 .. (Steps + 1)
    BY <1>8, BoundsAssumption DEF StepSucceeds, TypeOK
  <2>5. QED
    BY <1>8, <2>3, <2>4 DEF StepSucceeds, TypeOK, Pcs, historyVars
<1>9. ASSUME NEW b \in BOOLEAN, RenderingFails(b)
      PROVE  TypeInv'
  <2>1. step' \in 1 .. (Steps + 1)
    BY <1>9, BoundsAssumption DEF RenderingFails, TypeOK
  <2>2. QED
    BY <1>9, <2>1 DEF RenderingFails, TypeOK, Pcs, dbVars, historyVars
<1>10. ASSUME NEW b \in BOOLEAN, StepFails(b)
       PROVE  TypeInv'
  <2>1. current \in Executions
    BY <1>10 DEF StepFails, TypeOK
  <2>2. [session[current] EXCEPT !.steps_failed = @ + 1] \in Row
    BY <2>1, EditTypes DEF TypeOK
  <2>3. db' \in [Executions -> Row] /\ session' \in [Executions -> Row]
    BY <1>10, <2>1, <2>2, SaveType DEF StepFails
  <2>4. step' \in 1 .. (Steps + 1)
    BY <1>10, BoundsAssumption DEF StepFails, TypeOK
  <2>5. QED
    BY <1>10, <2>3, <2>4 DEF StepFails, TypeOK, Pcs, historyVars
<1>11. CASE EndOfSteps
  BY <1>11 DEF EndOfSteps, Conclude, TypeOK, Pcs, dbVars, historyVars
<1>12. CASE RunRaises \/ StartRollback \/ EndRollback
  BY <1>12 DEF RunRaises, StartRollback, EndRollback, Conclude, TypeOK, Pcs, dbVars,
               historyVars
<1>13. CASE CommitVerdict
  <2>1. current \in Executions /\ outcome \in {"success", "failed"}
    BY <1>13 DEF CommitVerdict, TypeOK
  <2>2. [session[current] EXCEPT !.status = outcome, !.completed_at = TRUE] \in Row
    BY <2>1, EditTypes DEF TypeOK
  <2>3. db' \in [Executions -> Row] /\ session' \in [Executions -> Row]
    BY <1>13, <2>1, <2>2, SaveType DEF CommitVerdict
  <2>4. OnResult(cb_seen, outcome = "success") \in Breaker
    BY BreakerTypes DEF TypeOK, OnResult
  <2>5. cb' \in Breaker /\ failures' \in Nat
    BY <1>13, <2>4, FlushBreakerType DEF CommitVerdict, TypeOK
  <2>6. QED
    BY <1>13, <2>3, <2>5 DEF CommitVerdict, TypeOK, Pcs, runVars
<1>14. CASE ResolveAlert
  BY <1>14, FirstStep, ClosedType
     DEF ResolveAlert, LeaveExecution, TypeOK, Pcs, historyVars
<1>15. CASE ScanTimeouts
  BY <1>15 DEF ScanTimeouts, TypeOK, Pcs, dbVars, runVars, historyVars
<1>16. CASE CommitTimeouts
  <2>1. db' \in [Executions -> Row]
    BY <1>16, EditTypes DEF CommitTimeouts, TypeOK
  <2>2. QED
    BY <1>16, <2>1 DEF CommitTimeouts, TypeOK, Pcs, runVars, historyVars
<1>17. QED
  BY <1>1, <1>2, <1>3, <1>4, <1>5, <1>6, <1>7, <1>8, <1>9, <1>10, <1>11, <1>12, <1>13,
     <1>14, <1>15, <1>16 DEF WorkerStep

LEMMA LoseMemoryType ==
    ASSUME TypeInv, LoseMemory
    PROVE  /\ pc' \in Pcs /\ batch' \subseteq Executions
           /\ session' \in [Executions -> Row]
           /\ current' = 0 /\ step' \in 1 .. (Steps + 1) /\ all_success' \in BOOLEAN
           /\ completed_steps' \in BOOLEAN
           /\ outcome' = "none" /\ cb_seen' \in Breaker /\ overdue' \subseteq Executions
           /\ req' \in [Clients -> Request]
           /\ ControlOK'
<1>1. cb_seen' \in Breaker
  BY ClosedType DEF LoseMemory
<1>2. req' \in [Clients -> Request] /\ \A c \in Clients : req'[c].op \notin Deciding
  BY IdleType DEF LoseMemory, Idle, Deciding
<1>3. QED
  BY <1>1, <1>2, RowTypes, FirstStep
     DEF LoseMemory, Pcs, ControlOK, BusyPcs, RunningPcs

LEMMA ProcessStepType == TypeInv /\ ProcessStep => TypeInv'
<1> SUFFICES ASSUME TypeInv, ProcessStep PROVE TypeInv'
  OBVIOUS
<1>1. CASE Crash
  BY <1>1, LoseMemoryType DEF Crash, TypeInv, TypeOK, dbVars
<1>2. CASE Stop
  <2>1. CASE pc \in {"step", "command", "rollback"}
    <3>1. current \in Executions
      BY <2>1 DEF TypeInv, TypeOK, ControlOK, BusyPcs, RunningPcs
    <3>2. session[current] \in Row /\ db \in [Executions -> Row]
      BY <3>1 DEF TypeInv, TypeOK
    <3>3. db' \in [Executions -> Row]
      <4>1. Interrupted \in Row
        BY <3>2, InterruptedFields
      <4>2. Flush(db[current], session[current], Interrupted) \in Row
        BY <3>1, <3>2, <4>1, FlushType
      <4>3. db' = [db EXCEPT ![current] = Flush(db[current], session[current], Interrupted)]
        BY <1>2, <2>1 DEF Stop
      <4>4. QED
        BY <3>2, <4>2, <4>3
    <3>4. cb' \in Breaker /\ failures' \in Nat
      <4>1. cb \in Breaker /\ failures \in Nat
        BY DEF TypeInv, TypeOK
      <4>2. cb' = OnFailure(cb) /\ failures' = failures + 1
        BY <1>2, <2>1 DEF Stop, OnResult
      <4>3. QED
        BY <4>1, <4>2, BreakerTypes
    <3>5. /\ crashes' \in Nat /\ stops' \in Nat
          /\ UNCHANGED <<resolved, authorised, runs>>
          /\ LoseMemory
      BY <1>2 DEF Stop, TypeInv, TypeOK
    <3>6. QED
      BY <3>3, <3>4, <3>5, LoseMemoryType DEF TypeInv, TypeOK
  <2>2. CASE pc \notin {"step", "command", "rollback"}
    BY <1>2, <2>2, LoseMemoryType DEF Stop, TypeInv, TypeOK
  <2>3. QED
    BY <2>1, <2>2
<1>3. CASE Restart
  BY <1>3 DEF Restart, TypeInv, TypeOK, ControlOK, BusyPcs, RunningPcs, Pcs, dbVars, runVars,
              historyVars
<1>4. QED
  BY <1>1, <1>2, <1>3 DEF ProcessStep

\* The inductive invariant is kept by every step of the specification.
LEMMA TypeInvInductive == TypeInv /\ [Next]_vars => TypeInv'
<1> SUFFICES ASSUME TypeInv, [Next]_vars PROVE TypeInv'
  OBVIOUS
<1>1. ASSUME NEW e \in Executions, ApprovalExpires(e)
      PROVE  TypeInv'
  <2>1. db' \in [Executions -> Row]
    BY <1>1 DEF ApprovalExpires, TypeInv, TypeOK, Row
  <2>2. QED
    BY <1>1, <2>1 DEF ApprovalExpires, TypeInv, TypeOK, ControlOK, workerVars, runVars,
                      historyVars
<1>2. CASE UNCHANGED vars
  BY <1>2 DEF TypeInv, TypeOK, ControlOK, vars, dbVars, workerVars, runVars, historyVars
<1>3. QED
  BY <1>1, <1>2, WorkerStepType, ClientStepType, InsertStepType, ProcessStepType DEF Next

LEMMA TypeInvInit == Init => TypeInv
<1> SUFFICES ASSUME Init PROVE TypeInv
  OBVIOUS
<1>1. /\ db \in [Executions -> Row] /\ session \in [Executions -> Row]
      /\ cb \in Breaker /\ cb_seen \in Breaker
  BY RowTypes, ClosedType DEF Init
<1>2. req \in [Clients -> Request] /\ \A c \in Clients : req[c].op \notin Deciding
  BY IdleType DEF Init, Idle, Deciding
<1>3. /\ runs \in [Executions -> Nat]
      /\ failures \in Nat /\ crashes \in Nat /\ stops \in Nat
  BY DEF Init
<1>4. QED
  BY <1>1, <1>2, <1>3, FirstStep DEF Init, TypeInv, TypeOK, ControlOK, BusyPcs, RunningPcs, Pcs

\* Every variable of the lifecycle keeps its type, whatever the handlers, the
\* worker, crashes and shutdowns do: the table never holds a status the schema
\* does not know, and no tally is lost to a stale write of another column.
THEOREM TypeCorrect == Spec => []TypeOK
<1>1. Spec => []TypeInv
  BY TypeInvInit, TypeInvInductive, PTL DEF Spec
<1>2. TypeInv => TypeOK
  BY DEF TypeInv
<1>3. QED
  BY <1>1, <1>2, PTL

---------------------------------------------------------------------------
(* Authority                                                               *)

\* What a flush does to the two columns the worker's query looks at.
LEMMA FlushFields ==
    ASSUME NEW stored \in Row, NEW seen \in Row, NEW new \in Row
    PROVE  /\ Flush(stored, seen, new).status = Column(stored.status, seen.status, new.status)
           /\ Flush(stored, seen, new).completed_at
                = Column(stored.completed_at, seen.completed_at, new.completed_at)
BY DEF Flush, Row

\* A step that touches neither table, requests nor history and takes nothing
\* into the batch.
LEMMA AuthorityQuiet ==
    ASSUME AuthorityInv, batch' \subseteq batch, UNCHANGED <<db, req, authorised, runs>>
    PROVE  AuthorityInv'
BY DEF AuthorityInv, NoRunWithoutAuthority

\* The worker saves a row of its batch, whatever it makes of it.
LEMMA AuthoritySave ==
    ASSUME TypeInv, AuthorityInv, NEW e \in batch, NEW new \in Row, Save(e, new),
           batch' \subseteq batch, UNCHANGED <<req, authorised>>,
           \A f \in Executions : runs'[f] > 0 => runs[f] > 0 \/ f = e
    PROVE  AuthorityInv'
<1>1. \A f \in Executions : f # e => db'[f] = db[f]
  BY DEF Save, TypeInv, TypeOK
<1>2. e \in authorised
  BY DEF AuthorityInv
<1>3. QED
  BY <1>1, <1>2 DEF AuthorityInv, NoRunWithoutAuthority

\* A row is inserted: free ones are authorised, the others are in no status the
\* worker acts upon.
LEMMA AuthorityInsert ==
    ASSUME TypeInv, AuthorityInv, NEW row \in Row, NEW free \in BOOLEAN,
           Insert(row, free), row.status \in {"approved", "running"} => free,
           UNCHANGED <<workerVars, runs>>,
           \/ UNCHANGED req
           \/ \E c \in Clients : req' = [req EXCEPT ![c] = Idle]
    PROVE  AuthorityInv'
<1>1. PICK e \in Executions : /\ db' = [db EXCEPT ![e] = row]
                             /\ authorised' = IF free THEN authorised \cup {e} ELSE authorised
  BY DEF Insert
<1>2. authorised \subseteq authorised'
  BY <1>1
<1>3. \A f \in Executions : db'[f].status \in {"approved", "running"} => f \in authorised'
  BY <1>1, <1>2 DEF AuthorityInv, TypeInv, TypeOK
<1>4. \A c \in Clients : req'[c] = req[c] \/ req'[c].op = "idle"
  BY DEF TypeInv, TypeOK, Idle
<1>5. QED
  BY <1>2, <1>3, <1>4 DEF AuthorityInv, NoRunWithoutAuthority, workerVars

\* Rows that are submitted as running asked for no approval.
LEMMA SubmittedStatus ==
    ASSUME NEW r \in [approval_required : BOOLEAN, dry_run : BOOLEAN, alert_id : BOOLEAN]
    PROVE  /\ SubmittedRow(r).status \in {"approved", "running"} => ~MustWait(r)
           /\ MustWait(SubmittedRow(r)) <=> MustWait(r)
BY DEF SubmittedRow, NewRow, NoRow, MustWait

LEMMA AuthorityInsertStep == TypeInv /\ AuthorityInv /\ InsertStep => AuthorityInv'
<1> SUFFICES ASSUME TypeInv, AuthorityInv, InsertStep PROVE AuthorityInv'
  OBVIOUS
<1> DEFINE Asked == [approval_required : BOOLEAN, dry_run : BOOLEAN, alert_id : BOOLEAN]
<1>1. ASSUME NEW q \in Asked, Insert(SubmittedRow(q), ~MustWait(q)),
             UNCHANGED <<req, workerVars, runs>>
      PROVE  AuthorityInv'
  <2>1. SubmittedRow(q) \in Row /\ (~MustWait(q)) \in BOOLEAN
    BY RowTypes DEF MustWait
  <2>2. SubmittedRow(q).status \in {"approved", "running"} => ~MustWait(q)
    BY SubmittedStatus
  <2>3. QED
    BY <1>1, <2>1, <2>2, AuthorityInsert
<1>2. ASSUME NEW e \in Executions, NEW r \in Requests, Retry(e, r.approval_required)
      PROVE  AuthorityInv'
  <2> DEFINE q == [approval_required |-> r.approval_required,
                   dry_run |-> db[e].dry_run, alert_id |-> db[e].alert_id]
  <2>1. q \in Asked
    BY EnvironmentAssumption DEF TypeInv, TypeOK, Row
  <2>2. Insert(SubmittedRow(q), ~MustWait(q)) /\ UNCHANGED <<req, workerVars, runs>>
    BY <1>2 DEF Retry
  <2> HIDE DEF q
  <2>3. QED
    BY <2>1, <2>2, <1>1
<1>3. CASE TestStep
  <2> DEFINE q == NewRow([approval_required |-> FALSE, dry_run |-> TRUE, alert_id |-> FALSE],
                         "running", "none")
  <2>1. q \in Row
    BY RowTypes
  <2> HIDE DEF q
  <2>2. Insert(q, TRUE) /\ UNCHANGED <<req, workerVars, runs>>
    BY <1>3 DEF TestStep, q
  <2>3. QED
    BY <2>1, <2>2, AuthorityInsert
<1>4. ASSUME NEW r \in Requests, ScheduledRun(r.approval_required)
      PROVE  AuthorityInv'
  <2> DEFINE q == [approval_required |-> r.approval_required,
                   dry_run |-> FALSE, alert_id |-> FALSE]
  <2>1. q \in Asked
    BY EnvironmentAssumption
  <2>2. Insert(SubmittedRow(q), ~MustWait(q)) /\ UNCHANGED <<req, workerVars, runs>>
    BY <1>4 DEF ScheduledRun
  <2> HIDE DEF q
  <2>3. QED
    BY <2>1, <2>2, <1>1
<1>5. CASE TriggeredRun
  <2> DEFINE q == NewRow([approval_required |-> FALSE, dry_run |-> FALSE, alert_id |-> TRUE],
                         "pending_approval", "ahead")
  <2>1. q \in Row /\ q.status = "pending_approval"
    BY RowTypes DEF NewRow, NoRow
  <2> HIDE DEF q
  <2>2. Insert(q, FALSE) /\ UNCHANGED <<req, workerVars, runs>>
    BY <1>5 DEF TriggeredRun, q
  <2>3. QED
    BY <2>1, <2>2, AuthorityInsert
<1>6. QED
  BY <1>2, <1>3, <1>4, <1>5 DEF InsertStep

\* A client reads something for an operation that inserts nothing.
LEMMA AuthorityRead ==
    ASSUME TypeInv, AuthorityInv, NEW c \in Clients, NEW r, r.op # "execute",
           req' = [req EXCEPT ![c] = r], UNCHANGED <<dbVars, workerVars, historyVars>>
    PROVE  AuthorityInv'
BY DEF TypeInv, TypeOK, AuthorityInv, NoRunWithoutAuthority, dbVars, workerVars, historyVars

LEMMA AuthorityClientStep == TypeInv /\ AuthorityInv /\ ClientStep => AuthorityInv'
<1> SUFFICES ASSUME TypeInv, AuthorityInv, NEW c \in Clients,
                    \/ \E r \in Requests, bypass \in BOOLEAN : SubmitCheck(c, r, bypass)
                    \/ SubmitInsert(c)
                    \/ \E e \in Executions, op \in {"approve", "reject"} : ReadForDecision(c, e, op)
                    \/ \E e \in Executions : ReadForCancel(c, e)
                    \/ CommitDecision(c)
                    \/ \E action \in {"open", "close"} : ReadForOverride(c, action)
                    \/ CommitOverride(c)
             PROVE  AuthorityInv'
  BY DEF ClientStep
<1>1. ASSUME NEW r \in Requests, NEW bypass \in BOOLEAN, SubmitCheck(c, r, bypass)
      PROVE  AuthorityInv'
  <2>1. SubmittedRow(r).status \in {"approved", "running"} => ~MustWait(SubmittedRow(r))
    BY EnvironmentAssumption, SubmittedStatus
  <2>2. req'[c].row = SubmittedRow(r) /\ \A d \in Clients : d # c => req'[d] = req[d]
    BY <1>1 DEF SubmitCheck, Idle, TypeInv, TypeOK
  <2>3. QED
    BY <1>1, <2>1, <2>2 DEF SubmitCheck, AuthorityInv, NoRunWithoutAuthority, dbVars,
                            workerVars, historyVars
<1>2. CASE SubmitInsert(c)
  <2>1. req[c].row \in Row /\ (~MustWait(req[c].row)) \in BOOLEAN
    BY DEF TypeInv, TypeOK, Request, MustWait
  <2>2. req[c].row.status \in {"approved", "running"} => ~MustWait(req[c].row)
    BY <1>2 DEF SubmitInsert, AuthorityInv
  <2>3. /\ Insert(req[c].row, ~MustWait(req[c].row))
        /\ req' = [req EXCEPT ![c] = Idle]
        /\ UNCHANGED <<workerVars, runs>>
    BY <1>2 DEF SubmitInsert
  <2>4. QED
    BY <2>1, <2>2, <2>3, AuthorityInsert
<1>3. ASSUME NEW e \in Executions, NEW op \in {"approve", "reject"}, ReadForDecision(c, e, op)
      PROVE  AuthorityInv'
  <2> DEFINE q == [Idle EXCEPT !.op = IF db[e].approval_expires_at = "past" THEN "expire" ELSE op,
                               !.exec = e, !.row = db[e]]
  <2>1. q.op # "execute"
    BY DEF Idle
  <2>2. req' = [req EXCEPT ![c] = q] /\ UNCHANGED <<dbVars, workerVars, historyVars>>
    BY <1>3 DEF ReadForDecision
  <2> HIDE DEF q
  <2>3. QED
    BY <2>1, <2>2, AuthorityRead
<1>4. ASSUME NEW e \in Executions, ReadForCancel(c, e)
      PROVE  AuthorityInv'
  <2> DEFINE q == [Idle EXCEPT !.op = "cancel", !.exec = e, !.row = db[e]]
  <2>1. q.op # "execute"
    BY DEF Idle
  <2>2. req' = [req EXCEPT ![c] = q] /\ UNCHANGED <<dbVars, workerVars, historyVars>>
    BY <1>4 DEF ReadForCancel
  <2> HIDE DEF q
  <2>3. QED
    BY <2>1, <2>2, AuthorityRead
<1>5. CASE CommitDecision(c)
  <2> DEFINE e == req[c].exec
             op == req[c].op
             row == req[c].row
  <2>1. op \in Deciding /\ e \in Executions /\ row \in Row
    BY <1>5 DEF CommitDecision, Deciding, TypeInv, TypeOK, ControlOK, Request
  <2>2. Decided(op, row) \in Row /\ db[e] \in Row
    BY <2>1, DecidedType DEF TypeInv, TypeOK
  <2>3. db' = [db EXCEPT ![e] = Flush(db[e], row, Decided(op, row))]
    BY <1>5 DEF CommitDecision
  <2>4. Flush(db[e], row, Decided(op, row)).status
          = Column(db[e].status, row.status, Decided(op, row).status)
    BY <2>1, <2>2, FlushFields
  <2>5. Decided(op, row).status \in {"approved", "running"} => op = "approve"
    BY <2>1 DEF Decided, Deciding, Row
  <2>6. db'[e].status \in {"approved", "running"} => op = "approve" \/ e \in authorised
    BY <2>1, <2>2, <2>3, <2>4, <2>5 DEF Column, AuthorityInv, TypeInv, TypeOK
  <2>7. authorised' = IF op = "approve" THEN authorised \cup {e} ELSE authorised
    BY <1>5 DEF CommitDecision
  <2>8. \A f \in Executions : db'[f].status \in {"approved", "running"} => f \in authorised'
    BY <2>1, <2>3, <2>6, <2>7 DEF AuthorityInv, TypeInv, TypeOK
  <2>9. \A d \in Clients : req'[d] = req[d] \/ req'[d].op = "idle"
    BY <1>5 DEF CommitDecision, TypeInv, TypeOK, Idle
  <2>10. authorised \subseteq authorised' /\ UNCHANGED <<batch, runs>>
    BY <1>5, <2>7 DEF CommitDecision, workerVars
  <2>11. QED
    BY <2>8, <2>9, <2>10 DEF AuthorityInv, NoRunWithoutAuthority
<1>6. ASSUME NEW action \in {"open", "close"}, ReadForOverride(c, action)
      PROVE  AuthorityInv'
  <2> DEFINE q == [Idle EXCEPT !.op = action, !.breaker = cb]
  <2>1. q.op # "execute"
    BY DEF Idle
  <2>2. req' = [req EXCEPT ![c] = q] /\ UNCHANGED <<dbVars, workerVars, historyVars>>
    BY <1>6 DEF ReadForOverride
  <2> HIDE DEF q
  <2>3. QED
    BY <2>1, <2>2, AuthorityRead
<1>7. CASE CommitOverride(c)
  <2>1. \A d \in Clients : req'[d] = req[d] \/ req'[d].op = "idle"
    BY <1>7 DEF CommitOverride, TypeInv, TypeOK, Idle
  <2>2. QED
    BY <1>7, <2>1 DEF CommitOverride, AuthorityInv, NoRunWithoutAuthority, workerVars
<1>8. QED
  BY <1>1, <1>2, <1>3, <1>4, <1>5, <1>6, <1>7

LEMMA AuthorityWorkerStep == TypeInv /\ AuthorityInv /\ WorkerStep => AuthorityInv'
<1> SUFFICES ASSUME TypeInv, AuthorityInv, WorkerStep PROVE AuthorityInv'
  OBVIOUS
<1>1. current # 0 => current \in batch /\ session[current] \in Row
  BY DEF TypeInv, TypeOK, ControlOK
<1>2. pc \in {"loaded", "step", "command", "rollback", "verdict"} => current # 0
  BY DEF TypeInv, ControlOK, BusyPcs, RunningPcs
<1>3. CASE SelectBatch
  <2>1. batch' \subseteq authorised
    BY <1>3 DEF SelectBatch, FirstQueued, Eligible, AuthorityInv, TypeInv, TypeOK, Row, Statuses
  <2>2. QED
    BY <1>3, <2>1 DEF SelectBatch, AuthorityInv, NoRunWithoutAuthority, dbVars, historyVars
<1>4. CASE BeginExecution
  <2>1. PICK e \in batch : Save(e, [session[e] EXCEPT !.status = "running"])
    BY <1>4 DEF BeginExecution
  <2>2. [session[e] EXCEPT !.status = "running"] \in Row
    BY <2>1, EditTypes DEF TypeInv, TypeOK
  <2>3. QED
    BY <1>4, <2>1, <2>2, AuthoritySave DEF BeginExecution, historyVars
<1>5. CASE RefuseExecution
  <2>1. current \in batch /\ session[current] \in Row
    BY <1>5, <1>1, <1>2 DEF RefuseExecution
  <2>2. [session[current] EXCEPT !.status = "failed", !.completed_at = TRUE] \in Row
    BY <2>1, EditTypes
  <2>3. QED
    BY <1>5, <2>1, <2>2, AuthoritySave DEF RefuseExecution, LeaveExecution, historyVars
<1>6. CASE StartRun
  <2>1. current \in batch /\ session[current] \in Row
    BY <1>6, <1>1, <1>2 DEF StartRun
  <2>2. [session[current] EXCEPT !.status = "running"] \in Row
    BY <2>1, EditTypes
  <2>3. \A f \in Executions : runs'[f] > 0 => runs[f] > 0 \/ f = current
    BY <1>6 DEF StartRun, TypeInv, TypeOK
  <2>4. QED
    BY <1>6, <2>1, <2>2, <2>3, AuthoritySave DEF StartRun
<1>7. CASE StepSucceeds
  <2>1. current \in batch /\ session[current] \in Row
    BY <1>7, <1>1, <1>2 DEF StepSucceeds
  <2>2. [session[current] EXCEPT !.steps_completed = @ + 1] \in Row
    BY <2>1, EditTypes
  <2>3. QED
    BY <1>7, <2>1, <2>2, AuthoritySave DEF StepSucceeds, historyVars
<1>8. ASSUME NEW b \in BOOLEAN, StepFails(b)
      PROVE  AuthorityInv'
  <2>1. current \in batch /\ session[current] \in Row
    BY <1>8, <1>1, <1>2 DEF StepFails
  <2>2. [session[current] EXCEPT !.steps_failed = @ + 1] \in Row
    BY <2>1, EditTypes
  <2>3. QED
    BY <1>8, <2>1, <2>2, AuthoritySave DEF StepFails, historyVars
<1>9. CASE CommitVerdict
  <2>1. current \in batch /\ session[current] \in Row
    BY <1>9, <1>1, <1>2 DEF CommitVerdict
  <2>2. outcome \in {"success", "failed"}
    BY <1>9 DEF CommitVerdict, TypeInv, TypeOK, ControlOK
  <2>3. [session[current] EXCEPT !.status = outcome, !.completed_at = TRUE] \in Row
    BY <2>1, <2>2, EditTypes
  <2>4. QED
    BY <1>9, <2>1, <2>3, AuthoritySave DEF CommitVerdict
<1>10. CASE CommitTimeouts
  <2>1. \A f \in Executions : db'[f].status \in {"approved", "running"} => db'[f] = db[f]
    BY <1>10 DEF CommitTimeouts, TypeInv, TypeOK, Row
  <2>2. QED
    BY <1>10, <2>1 DEF CommitTimeouts, AuthorityInv, NoRunWithoutAuthority, historyVars
<1>11. CASE \/ EndBatch \/ SkipStep \/ IssueCommand \/ EndOfSteps \/ StartRollback \/ EndRollback
            \/ RunRaises \/ ResolveAlert \/ ScanTimeouts \/ \E b \in BOOLEAN : RenderingFails(b)
  <2>1. batch' \subseteq batch /\ UNCHANGED <<db, req, authorised, runs>>
    BY <1>11 DEF EndBatch, SkipStep, IssueCommand, EndOfSteps, StartRollback, EndRollback,
                 RunRaises, ResolveAlert, ScanTimeouts, RenderingFails, Conclude, LeaveExecution, dbVars, historyVars
  <2>2. QED
    BY <2>1, AuthorityQuiet
<1>12. QED
  BY <1>3, <1>4, <1>5, <1>6, <1>7, <1>8, <1>9, <1>10, <1>11 DEF WorkerStep

LEMMA AuthorityProcessStep == TypeInv /\ AuthorityInv /\ ProcessStep => AuthorityInv'
<1> SUFFICES ASSUME TypeInv, AuthorityInv, ProcessStep PROVE AuthorityInv'
  OBVIOUS
<1>1. CASE Crash
  BY <1>1 DEF Crash, LoseMemory, AuthorityInv, NoRunWithoutAuthority, Idle, dbVars
<1>2. CASE Stop
  <2>1. \A f \in Executions : db'[f].status \in {db[f].status, "failed"}
    <3>1. CASE pc \in {"step", "command", "rollback"}
      <4>1. current \in Executions /\ session[current] \in Row /\ db[current] \in Row
        BY <3>1 DEF TypeInv, TypeOK, ControlOK, BusyPcs, RunningPcs
      <4>2. Interrupted \in Row /\ Interrupted.status \in {session[current].status, "failed"}
        BY <4>1, InterruptedFields
      <4>3. db' = [db EXCEPT ![current] = Flush(db[current], session[current], Interrupted)]
        BY <1>2, <3>1 DEF Stop
      <4>4. Flush(db[current], session[current], Interrupted).status
               \in {db[current].status, "failed"}
        BY <4>1, <4>2, FlushFields DEF Column
      <4>5. QED
        BY <4>1, <4>3, <4>4 DEF TypeInv, TypeOK
    <3>2. CASE pc \notin {"step", "command", "rollback"}
      BY <1>2, <3>2 DEF Stop
    <3>3. QED
      BY <3>1, <3>2
  <2>2. QED
    BY <1>2, <2>1 DEF Stop, LoseMemory, AuthorityInv, NoRunWithoutAuthority, Idle
<1>3. CASE Restart
  BY <1>3 DEF Restart, AuthorityInv, NoRunWithoutAuthority, dbVars, historyVars
<1>4. QED
  BY <1>1, <1>2, <1>3 DEF ProcessStep

LEMMA AuthorityInductive == TypeInv /\ AuthorityInv /\ [Next]_vars => AuthorityInv'
<1> SUFFICES ASSUME TypeInv, AuthorityInv, [Next]_vars PROVE AuthorityInv'
  OBVIOUS
<1>1. ASSUME NEW e \in Executions, ApprovalExpires(e)
      PROVE  AuthorityInv'
  <2>1. \A f \in Executions : db'[f].status = db[f].status
    BY <1>1 DEF ApprovalExpires, TypeInv, TypeOK, Row
  <2>2. QED
    BY <1>1, <2>1 DEF ApprovalExpires, AuthorityInv, NoRunWithoutAuthority, workerVars,
                      historyVars
<1>2. CASE UNCHANGED vars
  BY <1>2 DEF AuthorityInv, NoRunWithoutAuthority, vars, dbVars, workerVars, historyVars
<1>3. QED
  BY <1>1, <1>2, AuthorityWorkerStep, AuthorityClientStep, AuthorityInsertStep,
     AuthorityProcessStep DEF Next

\* Whatever requests, batches, crashes and shutdowns interleave, the worker never
\* starts a step of an execution that nobody approved and whose runbook asked for
\* an approval.
THEOREM Authority == Spec => []NoRunWithoutAuthority
<1>1. Init => AuthorityInv
  BY DEF Init, AuthorityInv, NoRunWithoutAuthority, NoRow, Idle
<1>2. Spec => [](TypeInv /\ AuthorityInv)
  BY <1>1, TypeInvInit, TypeInvInductive, AuthorityInductive, PTL DEF Spec
<1>3. AuthorityInv => NoRunWithoutAuthority
  BY DEF AuthorityInv
<1>4. QED
  BY <1>2, <1>3, PTL

---------------------------------------------------------------------------
(* One run per boot                                                        *)

\* What a save of the worker does to the columns its query looks at: no row of
\* the batch is un-inserted, and no row loses its completed_at.
LEMMA SaveFields ==
    ASSUME TypeInv, RunsInv, NEW e \in batch, NEW new \in Row, Save(e, new),
           new.status = session[e].status \/ new.status # "none",
           new.completed_at = session[e].completed_at \/ new.completed_at
    PROVE  /\ \A f \in Executions : f # e => db'[f] = db[f] /\ session'[f] = session[f]
           /\ db'[e].status # "none"
           /\ db[e].completed_at => db'[e].completed_at
           /\ session'[e] = new
           /\ new.completed_at /\ ~session[e].completed_at => db'[e].completed_at
<1>1. e \in Executions /\ db[e] \in Row /\ session[e] \in Row /\ db[e].status # "none"
  BY DEF TypeInv, TypeOK, RunsInv
<1>2. db'[e] = Flush(db[e], session[e], new) /\ session'[e] = new
  BY <1>1 DEF Save, TypeInv, TypeOK
<1>3. db'[e].status # "none"
  BY <1>1, <1>2, FlushFields DEF Column
<1>4. db'[e].completed_at = Column(db[e].completed_at, session[e].completed_at, new.completed_at)
  BY <1>1, <1>2, FlushFields
<1>5. /\ db[e].completed_at \in BOOLEAN /\ session[e].completed_at \in BOOLEAN
      /\ new.completed_at \in BOOLEAN
  BY <1>1 DEF Row
<1>6. \A f \in Executions : f # e => db'[f] = db[f] /\ session'[f] = session[f]
  BY DEF Save, TypeInv, TypeOK
<1>7. (db[e].completed_at => db'[e].completed_at)
        /\ (new.completed_at /\ ~session[e].completed_at => db'[e].completed_at)
  BY <1>4, <1>5 DEF Column
<1>8. QED
  BY <1>2, <1>3, <1>6, <1>7

\* A handler's commit changes the two columns of one row in the same way.
LEMMA RunsTable ==
    ASSUME TypeInv, RunsInv,
           \A e \in Executions :
               /\ db[e].completed_at => db'[e].completed_at
               /\ db'[e].status = "none" => db[e].status = "none",
           UNCHANGED <<workerVars, runs, crashes>>
    PROVE  RunsInv'
BY DEF TypeInv, TypeOK, RunsInv, workerVars, runVars

LEMMA RunsInsert ==
    ASSUME TypeInv, RunsInv, NEW row \in Row, NEW free \in BOOLEAN, Insert(row, free),
           UNCHANGED <<workerVars, runs, crashes>>
    PROVE  RunsInv'
<1>1. PICK e \in Executions : db[e].status = "none" /\ db' = [db EXCEPT ![e] = row]
  BY DEF Insert, NextFree
<1>2. \A f \in Executions : f # e => db'[f] = db[f]
  BY <1>1 DEF TypeInv, TypeOK
<1>3. runs[e] = 0 /\ e \notin batch
  BY <1>1 DEF RunsInv
<1>4. QED
  BY <1>2, <1>3 DEF TypeInv, TypeOK, RunsInv, workerVars, runVars

LEMMA RunsInsertStep == TypeInv /\ RunsInv /\ InsertStep => RunsInv'
<1> SUFFICES ASSUME TypeInv, RunsInv, InsertStep PROVE RunsInv'
  OBVIOUS
<1> DEFINE Asked == [approval_required : BOOLEAN, dry_run : BOOLEAN, alert_id : BOOLEAN]
<1>1. \A q \in Asked : SubmittedRow(q) \in Row /\ (~MustWait(q)) \in BOOLEAN
  BY RowTypes DEF MustWait
<1>2. ASSUME NEW e \in Executions, NEW r \in Requests, Retry(e, r.approval_required)
      PROVE  RunsInv'
  <2> DEFINE q == [approval_required |-> r.approval_required,
                   dry_run |-> db[e].dry_run, alert_id |-> db[e].alert_id]
  <2>1. q \in Asked
    BY EnvironmentAssumption DEF TypeInv, TypeOK, Row
  <2>2. Insert(SubmittedRow(q), ~MustWait(q)) /\ UNCHANGED <<workerVars, runs, crashes>>
    BY <1>2 DEF Retry
  <2> HIDE DEF q
  <2>3. QED
    BY <2>1, <2>2, <1>1, RunsInsert
<1>3. CASE TestStep
  <2> DEFINE q == NewRow([approval_required |-> FALSE, dry_run |-> TRUE, alert_id |-> FALSE],
                         "running", "none")
  <2>1. q \in Row
    BY RowTypes
  <2> HIDE DEF q
  <2>2. Insert(q, TRUE) /\ UNCHANGED <<workerVars, runs, crashes>>
    BY <1>3 DEF TestStep, q
  <2>3. QED
    BY <2>1, <2>2, RunsInsert
<1>4. ASSUME NEW r \in Requests, ScheduledRun(r.approval_required)
      PROVE  RunsInv'
  <2> DEFINE q == [approval_required |-> r.approval_required,
                   dry_run |-> FALSE, alert_id |-> FALSE]
  <2>1. q \in Asked
    BY EnvironmentAssumption
  <2>2. Insert(SubmittedRow(q), ~MustWait(q)) /\ UNCHANGED <<workerVars, runs, crashes>>
    BY <1>4 DEF ScheduledRun
  <2> HIDE DEF q
  <2>3. QED
    BY <2>1, <2>2, <1>1, RunsInsert
<1>5. CASE TriggeredRun
  <2> DEFINE q == NewRow([approval_required |-> FALSE, dry_run |-> FALSE, alert_id |-> TRUE],
                         "pending_approval", "ahead")
  <2>1. q \in Row
    BY RowTypes
  <2> HIDE DEF q
  <2>2. Insert(q, FALSE) /\ UNCHANGED <<workerVars, runs, crashes>>
    BY <1>5 DEF TriggeredRun, q
  <2>3. QED
    BY <2>1, <2>2, RunsInsert
<1>6. QED
  BY <1>2, <1>3, <1>4, <1>5 DEF InsertStep

LEMMA RunsClientStep == TypeInv /\ RunsInv /\ ClientStep => RunsInv'
<1> SUFFICES ASSUME TypeInv, RunsInv, ClientStep PROVE RunsInv'
  OBVIOUS
<1>1. ASSUME NEW c \in Clients, SubmitInsert(c)
      PROVE  RunsInv'
  <2>1. req[c].row \in Row /\ (~MustWait(req[c].row)) \in BOOLEAN
    BY DEF TypeInv, TypeOK, Request, MustWait
  <2>2. Insert(req[c].row, ~MustWait(req[c].row)) /\ UNCHANGED <<workerVars, runs, crashes>>
    BY <1>1 DEF SubmitInsert
  <2>3. QED
    BY <2>1, <2>2, RunsInsert
<1>2. ASSUME NEW c \in Clients, CommitDecision(c)
      PROVE  RunsInv'
  <2> DEFINE e == req[c].exec
             op == req[c].op
             row == req[c].row
             new == Decided(op, row)
  <2>1. op \in Deciding /\ e \in Executions /\ row \in Row
    BY <1>2 DEF CommitDecision, Deciding, TypeInv, TypeOK, ControlOK, Request
  <2>2. new \in Row /\ db[e] \in Row
    BY <2>1, DecidedType DEF TypeInv, TypeOK
  <2>3. new.status # "none" /\ (new.completed_at = row.completed_at \/ new.completed_at)
    BY <2>1 DEF Decided, Deciding, Row
  <2>4. db' = [db EXCEPT ![e] = Flush(db[e], row, new)]
    BY <1>2 DEF CommitDecision
  <2> HIDE DEF new
  <2>5. Flush(db[e], row, new).status = "none" => db[e].status = "none"
    BY <2>1, <2>2, <2>3, FlushFields DEF Column
  <2>6. db[e].completed_at => Flush(db[e], row, new).completed_at
    BY <2>1, <2>2, <2>3, FlushFields DEF Column
  <2>7. \A f \in Executions : /\ db[f].completed_at => db'[f].completed_at
                              /\ db'[f].status = "none" => db[f].status = "none"
    BY <2>1, <2>4, <2>5, <2>6 DEF TypeInv, TypeOK
  <2>8. UNCHANGED <<workerVars, runs, crashes>>
    BY <1>2 DEF CommitDecision
  <2>9. QED
    BY <2>7, <2>8, RunsTable
<1>3. ASSUME UNCHANGED <<db, workerVars, runs, crashes>>
      PROVE  RunsInv'
  BY <1>3, RunsTable
<1>4. QED
  BY <1>1, <1>2, <1>3 DEF ClientStep, SubmitCheck, ReadForDecision, ReadForCancel,
     ReadForOverride, CommitOverride, dbVars, historyVars

LEMMA RunsWorkerStep == TypeInv /\ RunsInv /\ WorkerStep => RunsInv'
<1> SUFFICES ASSUME TypeInv, RunsInv, WorkerStep PROVE RunsInv'
  OBVIOUS
<1>1. /\ current # 0 => current \in batch /\ current \in Executions /\ session[current] \in Row
      /\ crashes \in Nat /\ \A e \in Executions : runs[e] \in Nat
      /\ batch \subseteq Executions
  BY DEF TypeInv, TypeOK, ControlOK
<1>2. pc \in {"loaded", "step", "command", "rollback", "verdict", "resolve"} <=> current # 0
  BY DEF TypeInv, ControlOK, BusyPcs, RunningPcs
<1>3. pc \in {"loaded", "step", "command", "rollback", "verdict"} => ~session[current].completed_at
  BY <1>1, <1>2 DEF RunsInv
<1>4. CASE SelectBatch
  <2>1. current = 0 /\ current' = 0 /\ 0 \notin Executions
    BY <1>4, <1>2, BoundsAssumption DEF SelectBatch, runVars, Executions
  <2>2. batch' \subseteq Eligible
    BY <1>4 DEF SelectBatch, FirstQueued
  <2>3. \A e \in batch' : e \in Executions /\ ~db[e].completed_at /\ db[e].status # "none"
    BY <2>2 DEF Eligible
  <2>4. \A e \in batch' : session'[e] = db[e]
    BY <1>4, <2>3 DEF SelectBatch
  <2>5. \A e \in batch' : runs[e] <= crashes
    BY <2>1, <2>3 DEF RunsInv
  <2>6. UNCHANGED <<db, runs, crashes>>
    BY <1>4 DEF SelectBatch, dbVars, historyVars
  <2>7. \A e \in Executions : runs[e] <= crashes \/ (runs[e] <= crashes + 1 /\ db[e].completed_at)
    BY <2>1 DEF RunsInv
  <2>8. \A e \in Executions : db[e].status = "none" => runs[e] = 0
    BY DEF RunsInv
  <2>9. QED
    BY <2>3, <2>4, <2>5, <2>6, <2>7, <2>8 DEF RunsInv
<1>5. CASE BeginExecution
  <2>1. PICK e \in batch : current' = e /\ Save(e, [session[e] EXCEPT !.status = "running"])
    BY <1>5 DEF BeginExecution
  <2> DEFINE new == [session[e] EXCEPT !.status = "running"]
  <2>2. session[e] \in Row /\ current = 0 /\ e # 0 /\ e \in Executions
    BY <1>1, <1>2, <1>5, <2>1, BoundsAssumption
       DEF BeginExecution, TypeInv, TypeOK, Executions
  <2>3. /\ new \in Row /\ new.status = "running"
        /\ new.completed_at = session[e].completed_at
    BY <2>2, EditTypes DEF Row
  <2>4. Save(e, new)
    BY <2>1
  <2> HIDE DEF new
  <2>5. /\ \A f \in Executions : f # e => db'[f] = db[f] /\ session'[f] = session[f]
        /\ db'[e].status # "none"
        /\ db[e].completed_at => db'[e].completed_at
        /\ session'[e] = new
    BY <2>1, <2>3, <2>4, SaveFields
  <2>6. UNCHANGED <<batch, runs, crashes>> /\ pc' = "loaded" /\ pc = "next"
    BY <1>5 DEF BeginExecution, historyVars
  <2>7. \A f \in batch : runs[f] <= crashes /\ ~session[f].completed_at
    BY <2>6 DEF RunsInv, RunningPcs
  <2>8. QED
    BY <1>1, <2>2, <2>3, <2>5, <2>6, <2>7 DEF RunsInv, RunningPcs
<1>6. CASE RefuseExecution
  <2> DEFINE new == [session[current] EXCEPT !.status = "failed", !.completed_at = TRUE]
  <2>1. pc = "loaded" /\ current # 0
    BY <1>2, <1>6 DEF RefuseExecution
  <2>2. new \in Row /\ new.status = "failed" /\ new.completed_at
    BY <1>1, <2>1, EditTypes DEF Row
  <2>3. Save(current, new)
    BY <1>6 DEF RefuseExecution
  <2> HIDE DEF new
  <2>4. /\ \A f \in Executions : f # current => db'[f] = db[f] /\ session'[f] = session[f]
        /\ db'[current].status # "none"
        /\ db[current].completed_at => db'[current].completed_at
    BY <1>1, <2>1, <2>2, <2>3, SaveFields
  <2>5. batch' = batch \ {current} /\ pc' = "next" /\ UNCHANGED <<runs, crashes>>
    BY <1>6 DEF RefuseExecution, LeaveExecution, historyVars
  <2>6. \A f \in batch : runs[f] <= crashes /\ ~session[f].completed_at
    BY <2>1 DEF RunsInv, RunningPcs
  <2>7. QED
    BY <1>1, <2>1, <2>4, <2>5, <2>6 DEF RunsInv, RunningPcs
<1>7. CASE StartRun
  <2> DEFINE new == [session[current] EXCEPT !.status = "running"]
  <2>1. pc = "loaded" /\ current # 0
    BY <1>2, <1>7 DEF StartRun
  <2>2. /\ new \in Row /\ new.status = "running"
        /\ new.completed_at = session[current].completed_at
    BY <1>1, <2>1, EditTypes DEF Row
  <2>3. Save(current, new)
    BY <1>7 DEF StartRun
  <2> HIDE DEF new
  <2>4. /\ \A f \in Executions : f # current => db'[f] = db[f] /\ session'[f] = session[f]
        /\ db'[current].status # "none"
        /\ session'[current] = new
    BY <1>1, <2>1, <2>2, <2>3, SaveFields
  <2>5. UNCHANGED <<batch, current, crashes>> /\ pc' = "step"
    BY <1>7 DEF StartRun, runVars
  <2>6. /\ \A f \in Executions : f # current => runs'[f] = runs[f]
        /\ runs'[current] = runs[current] + 1
    BY <1>1, <1>7, <2>1 DEF StartRun, TypeInv, TypeOK
  <2>7. \A f \in batch : runs[f] <= crashes /\ ~session[f].completed_at
    BY <2>1 DEF RunsInv, RunningPcs
  <2>8. runs'[current] <= crashes + 1
    BY <1>1, <2>1, <2>6, <2>7
  <2>9. QED
    BY <1>1, <2>1, <2>2, <2>4, <2>5, <2>6, <2>7, <2>8 DEF RunsInv, RunningPcs
<1>8. CASE StepSucceeds \/ \E b \in BOOLEAN : StepFails(b)
  <2>1. pc = "command" /\ current # 0
    BY <1>2, <1>8 DEF StepSucceeds, StepFails
  <2>2. PICK new \in Row : /\ new.status = session[current].status
                           /\ new.completed_at = session[current].completed_at
                           /\ Save(current, new)
    <3> DEFINE done == [session[current] EXCEPT !.steps_completed = @ + 1]
               lost == [session[current] EXCEPT !.steps_failed = @ + 1]
    <3>1. /\ done \in Row /\ done.status = session[current].status
          /\ done.completed_at = session[current].completed_at
      BY <1>1, <2>1, EditTypes DEF Row
    <3>2. /\ lost \in Row /\ lost.status = session[current].status
          /\ lost.completed_at = session[current].completed_at
      BY <1>1, <2>1, EditTypes DEF Row
    <3>3. Save(current, done) \/ Save(current, lost)
      BY <1>8 DEF StepSucceeds, StepFails
    <3> HIDE DEF done, lost
    <3>4. QED
      BY <3>1, <3>2, <3>3
  <2>3. /\ \A f \in Executions : f # current => db'[f] = db[f] /\ session'[f] = session[f]
        /\ db'[current].status # "none"
        /\ db[current].completed_at => db'[current].completed_at
        /\ session'[current] = new
    BY <1>1, <2>1, <2>2, SaveFields
  <2>4. UNCHANGED <<batch, current, runs, crashes>> /\ pc' = "step"
    BY <1>8 DEF StepSucceeds, StepFails, historyVars
  <2>5. QED
    BY <1>1, <2>1, <2>2, <2>3, <2>4 DEF RunsInv, RunningPcs
<1>9. CASE CommitVerdict
  <2> DEFINE new == [session[current] EXCEPT !.status = outcome, !.completed_at = TRUE]
  <2>1. pc = "verdict" /\ current # 0 /\ outcome \in {"success", "failed"}
    BY <1>2, <1>9 DEF CommitVerdict, TypeInv, TypeOK, ControlOK
  <2>2. new \in Row /\ new.status # "none" /\ new.completed_at
    BY <1>1, <2>1, EditTypes DEF Row
  <2>3. Save(current, new)
    BY <1>9 DEF CommitVerdict
  <2> HIDE DEF new
  <2>4. /\ \A f \in Executions : f # current => db'[f] = db[f] /\ session'[f] = session[f]
        /\ db'[current].status # "none"
        /\ db'[current].completed_at
    BY <1>1, <1>3, <2>1, <2>2, <2>3, SaveFields
  <2>5. UNCHANGED <<batch, current, runs, crashes>> /\ pc' = "resolve"
    BY <1>9 DEF CommitVerdict, runVars
  <2>6. QED
    BY <1>1, <2>1, <2>4, <2>5 DEF RunsInv, RunningPcs
<1>10. CASE ResolveAlert
  <2>1. /\ batch' = batch \ {current} /\ current' = 0 /\ pc = "resolve" /\ pc' = "next"
        /\ UNCHANGED <<db, session, runs, crashes>>
    BY <1>10 DEF ResolveAlert, LeaveExecution, historyVars
  <2>2. QED
    BY <1>1, <2>1 DEF RunsInv, RunningPcs
<1>11. CASE CommitTimeouts
  <2>1. \A e \in Executions : /\ db[e].completed_at => db'[e].completed_at
                              /\ db'[e].status = "none" => db[e].status = "none"
    <3> SUFFICES ASSUME NEW e \in Executions
                 PROVE  /\ db[e].completed_at => db'[e].completed_at
                        /\ db'[e].status = "none" => db[e].status = "none"
      OBVIOUS
    <3>1. \/ db'[e] = db[e]
          \/ db'[e] = [db[e] EXCEPT !.status = "timeout", !.completed_at = TRUE]
      BY <1>11 DEF CommitTimeouts
    <3>2. db[e] \in Row
      BY DEF TypeInv, TypeOK
    <3>3. QED
      BY <3>1, <3>2 DEF Row
  <2>2. /\ UNCHANGED <<batch, session, current, runs, crashes>>
        /\ pc = "expire"
    BY <1>11 DEF CommitTimeouts, runVars, historyVars
  <2>3. current = 0 /\ 0 \notin Executions
    BY <1>2, <2>2, BoundsAssumption DEF Executions
  <2>4. QED
    BY <1>1, <2>1, <2>2, <2>3 DEF RunsInv
<1>12. CASE EndBatch
  BY <1>1, <1>2, <1>12 DEF EndBatch, RunsInv, RunningPcs, dbVars, runVars, historyVars
<1>13. CASE \/ SkipStep \/ IssueCommand \/ EndOfSteps \/ StartRollback \/ EndRollback
            \/ RunRaises \/ \E b \in BOOLEAN : RenderingFails(b)
  <2>1. /\ UNCHANGED <<db, batch, session, current, runs, crashes>>
        /\ pc \in RunningPcs /\ pc' \in RunningPcs
    BY <1>13 DEF SkipStep, IssueCommand, EndOfSteps, StartRollback, EndRollback, RunRaises,
                 RenderingFails, Conclude, dbVars, runVars, historyVars, RunningPcs
  <2>2. QED
    BY <2>1 DEF RunsInv, RunningPcs
<1>14. CASE ScanTimeouts
  <2>1. /\ UNCHANGED <<db, batch, session, current, runs, crashes>>
        /\ current = 0
    BY <1>2, <1>14 DEF ScanTimeouts, dbVars, runVars, historyVars
  <2>2. QED
    BY <1>1, <2>1, BoundsAssumption DEF RunsInv, Executions
<1>15. QED
  BY <1>4, <1>5, <1>6, <1>7, <1>8, <1>9, <1>10, <1>11, <1>12, <1>13, <1>14 DEF WorkerStep

LEMMA RunsProcessStep == TypeInv /\ RunsInv /\ ProcessStep => RunsInv'
<1> SUFFICES ASSUME TypeInv, RunsInv, ProcessStep PROVE RunsInv'
  OBVIOUS
<1>1. crashes \in Nat /\ \A e \in Executions : runs[e] \in Nat
  BY DEF TypeInv, TypeOK
<1>2. CASE Crash
  <2>1. UNCHANGED <<db, runs>> /\ crashes' = crashes + 1 /\ batch' = {}
    BY <1>2 DEF Crash, LoseMemory, dbVars
  <2>2. QED
    BY <1>1, <2>1 DEF RunsInv
<1>3. CASE Stop
  <2>1. batch' = {} /\ UNCHANGED runs
    BY <1>3 DEF Stop, LoseMemory
  <2>2. CASE pc \in {"step", "command", "rollback"}
    <3>1. /\ current \in Executions /\ current \in batch
          /\ session[current] \in Row /\ db[current] \in Row
      BY <2>2 DEF TypeInv, TypeOK, ControlOK, BusyPcs, RunningPcs
    <3>2. /\ Interrupted \in Row /\ Interrupted.completed_at
          /\ Interrupted.status \in {session[current].status, "failed"}
      BY <3>1, InterruptedFields
    <3>3. ~session[current].completed_at /\ session[current].completed_at \in BOOLEAN
      BY <2>2, <3>1 DEF RunsInv, Row
    <3>4. db' = [db EXCEPT ![current] = Flush(db[current], session[current], Interrupted)]
      BY <1>3, <2>2 DEF Stop
    <3>5. /\ Flush(db[current], session[current], Interrupted).completed_at
          /\ Flush(db[current], session[current], Interrupted).status
               \in {db[current].status, "failed"}
      BY <3>1, <3>2, <3>3, FlushFields DEF Column
    <3>6. /\ \A f \in Executions : f # current => db'[f] = db[f]
          /\ db'[current].completed_at /\ db'[current].status \in {db[current].status, "failed"}
      BY <3>1, <3>4, <3>5 DEF TypeInv, TypeOK
    <3>7. crashes' = crashes
      BY <1>3, <2>2 DEF Stop
    <3>8. QED
      BY <1>1, <2>1, <3>1, <3>6, <3>7 DEF RunsInv
  <2>3. CASE pc = "verdict"
    <3>1. UNCHANGED db /\ crashes' = crashes + 1
      BY <1>3, <2>3 DEF Stop
    <3>2. QED
      BY <1>1, <2>1, <3>1 DEF RunsInv
  <2>4. CASE pc \notin RunningPcs
    <3>1. UNCHANGED <<db, crashes>>
      BY <1>3, <2>4 DEF Stop, RunningPcs
    <3>2. QED
      BY <1>1, <2>1, <2>4, <3>1 DEF RunsInv
  <2>5. QED
    BY <2>2, <2>3, <2>4 DEF RunningPcs
<1>4. CASE Restart
  <2>1. UNCHANGED <<db, batch, session, current, runs, crashes>>
    BY <1>4 DEF Restart, dbVars, runVars, historyVars
  <2>2. current = 0 /\ 0 \notin Executions /\ batch \subseteq Executions
    BY <1>4, BoundsAssumption
       DEF Restart, TypeInv, TypeOK, ControlOK, BusyPcs, RunningPcs, Executions
  <2>3. QED
    BY <2>1, <2>2 DEF RunsInv
<1>5. QED
  BY <1>2, <1>3, <1>4 DEF ProcessStep

LEMMA RunsInductive == TypeInv /\ RunsInv /\ [Next]_vars => RunsInv'
<1> SUFFICES ASSUME TypeInv, RunsInv, [Next]_vars PROVE RunsInv'
  OBVIOUS
<1>1. ASSUME NEW e \in Executions, ApprovalExpires(e)
      PROVE  RunsInv'
  <2>1. \A f \in Executions : /\ db[f].completed_at => db'[f].completed_at
                              /\ db'[f].status = "none" => db[f].status = "none"
    BY <1>1 DEF ApprovalExpires, TypeInv, TypeOK, Row
  <2>2. QED
    BY <1>1, <2>1, RunsTable DEF ApprovalExpires, historyVars
<1>2. CASE UNCHANGED vars
  BY <1>2, RunsTable DEF vars, dbVars, historyVars
<1>3. QED
  BY <1>1, <1>2, RunsWorkerStep, RunsClientStep, RunsInsertStep, RunsProcessStep DEF Next

\* The worker starts the steps of an execution once, and at most once more for
\* every crash: stale batches, late approvals, cancellations and orderly stops
\* do not make it run a runbook against a host again.
THEOREM RunsOnce == Spec => []OneRunPerBoot
<1>1. Init => RunsInv
  BY DEF Init, RunsInv, NoRow
<1>2. Spec => [](TypeInv /\ RunsInv)
  BY <1>1, TypeInvInit, TypeInvInductive, RunsInductive, PTL DEF Spec
<1>3. TypeInv /\ RunsInv => OneRunPerBoot
  BY DEF TypeInv, TypeOK, RunsInv, OneRunPerBoot
<1>4. QED
  BY <1>2, <1>3, PTL

=============================================================================
