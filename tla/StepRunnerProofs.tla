-------------------------- MODULE StepRunnerProofs --------------------------
(***************************************************************************)
(* Theorems about StepRunner, for any runbook, protocol, number of retries *)
(* and handlers: what the host is given, what the rows say of it, and that *)
(* a run is one of RunbookExecution's.                                     *)
(***************************************************************************)
EXTENDS StepRunner, FiniteSetTheorems, SequenceTheorems, TLAPS

OnStep == pc \in {"attempt", "waiting"}
AfterLoop == pc \in {"closing", "left", "undo", "undoing"}
Ending == pc \in {"undo", "undoing", "done"}
Sent(s) == plan[s].command = "sent"

\* The steps before the one the run is at are over or were never touched, it alone is
\* running, and a failure without continue_on_fail has ended the loop.
LoopInv ==
    /\ pc = "connect" => i = 1
    /\ AfterLoop => i = Steps + 1
    /\ OnStep => i <= Steps /\ Sent(i) /\ Applies /\ attempt <= plan[i].retry_count
    /\ \A s \in StepIndex : i <= s /\ ~(OnStep /\ s = i) => status[s] = "none"
    /\ \A s \in StepIndex : status[s] = "running" <=> OnStep /\ s = i
    /\ \A s \in StepIndex : status[s] = "success" => Sent(s)
    /\ \A s \in StepIndex : status[s] = "failed" /\ ~plan[s].continue_on_fail => i = Steps + 1
    /\ \A s \in StepIndex : s < i /\ status[s] = "none" => \E t \in StepIndex : status[t] = "failed"

\* The counters and all_success are those of the steps.
Successes == {s \in StepIndex : status[s] = "success"}
Failures == {s \in StepIndex : status[s] = "failed" /\ Sent(s)}

CountInv ==
    /\ steps_completed = Cardinality(Successes)
    /\ steps_failed = Cardinality(Failures)
    /\ all_success <=> \A s \in StepIndex : status[s] # "failed"

VerdictInv ==
    /\ ~Ending => outcome = "running"
    /\ Ending /\ pc # "done" => outcome = "failed" /\ ~all_success /\ ~job.dry_run
    /\ pc = "done" => \/ outcome = "success" /\ all_success /\ i = Steps + 1
                      \/ outcome = "failed" /\ ~all_success
                      \/ outcome = "failed" /\ i = 1
    /\ pc = "done" /\ outcome = "failed" /\ ~job.dry_run => completed_steps = <<>>

\* completed_steps is the successful steps in their order, until the rollback takes
\* them off its end.
CompletedInv ==
    /\ \A x, y \in DOMAIN completed_steps : x < y => completed_steps[x] < completed_steps[y]
    /\ \A x \in DOMAIN completed_steps : status[completed_steps[x]] = "success"
    /\ ~Ending => \A s \in StepIndex : status[s] = "success" =>
                      \E x \in DOMAIN completed_steps : completed_steps[x] = s
    /\ pc = "undoing" => completed_steps # <<>> /\ plan[NextUndone].rollback = "sent"

RowInv == TypeOK /\ LoopInv /\ NothingAfterFatalFailure /\ CountInv /\ VerdictInv /\ CompletedInv

\* Where the run is in what it has given to the executor.
GivenInv ==
    /\ HostFollowsThePlan
    /\ \A k \in Given("step") :
          \/ tried[k].step < i
          \/ tried[k].step = i /\ pc = "attempt" /\ tried[k].attempt < attempt
          \/ tried[k].step = i /\ pc = "waiting" /\ tried[k].attempt <= attempt
    /\ \A k \in DOMAIN tried : tried[k].fate = "open" => k = Len(tried) /\ pc \in {"waiting", "undoing"}
    /\ pc = "waiting" => /\ tried # <<>>
                         /\ tried[Len(tried)].kind = "step" /\ tried[Len(tried)].step = i
    /\ pc = "undoing" => /\ tried # <<>>
                         /\ tried[Len(tried)].kind = "rollback" /\ tried[Len(tried)].step = NextUndone

\* What the host has answered is behind the run, and what was captured was given.
AnsweredInv ==
    /\ AnsweredIsNotResent
    /\ job.protocol # "api" =>
        \A k \in Given("step") : tried[k].fate = "answered" => tried[k].step < i

CapturedInv ==
    /\ ConditionsHold
    /\ ~job.dry_run => \A s \in Captured :
        \E k \in Given("step") : tried[k].step = s /\ tried[k].fate # "open"

\* The steps that are still to be rolled back, and those that were tried.
Remaining ==
    {completed_steps[x] : x \in {y \in DOMAIN completed_steps : pc = "undoing" => y < Len(completed_steps)}}

UndoInv ==
    /\ Given("rollback") # {} => Ending /\ outcome = "failed" /\ ~job.dry_run
    /\ \A k \in Given("rollback") : \A s \in Remaining : s < tried[k].step
    /\ \A s \in StepIndex :
        (\E k \in Given("rollback") : tried[k].step = s)
            <=> status[s] = "success" /\ plan[s].rollback = "sent" /\ s \notin Remaining

---------------------------------------------------------------------------
(* What the proofs need to know of sequences and of a job                  *)

LEMMA FrontLast ==
    ASSUME NEW S, NEW seq \in Seq(S), seq # <<>>
    PROVE  /\ Len(seq) \in Nat \ {0}
           /\ Last(seq) = seq[Len(seq)] /\ Last(seq) \in S
           /\ Front(seq) \in Seq(S) /\ Len(Front(seq)) = Len(seq) - 1
           /\ \A x \in 1 .. (Len(seq) - 1) : Front(seq)[x] = seq[x]
<1>1. Len(seq) \in Nat \ {0}
  BY EmptySeq
<1>2. \A x \in 1 .. (Len(seq) - 1) : seq[x] \in S
  BY <1>1, ElementOfSeq
<1>3. /\ SubSeq(seq, 1, Len(seq) - 1) \in Seq(S)
      /\ Len(SubSeq(seq, 1, Len(seq) - 1)) = IF 1 <= Len(seq) - 1 THEN Len(seq) - 1 - 1 + 1 ELSE 0
      /\ \A x \in 1 .. (Len(seq) - 1 - 1 + 1) : SubSeq(seq, 1, Len(seq) - 1)[x] = seq[1 + x - 1]
  BY <1>1, <1>2, SubSeqProperties
<1>4. seq[Len(seq)] \in S
  BY <1>1, ElementOfSeq
<1>5. Len(seq) - 1 - 1 + 1 = Len(seq) - 1 /\ (~(1 <= Len(seq) - 1) => Len(seq) - 1 = 0)
  <2>1. \A n \in Nat \ {0} : n - 1 - 1 + 1 = n - 1 /\ (~(1 <= n - 1) => n - 1 = 0)
    OBVIOUS
  <2> QED BY <1>1, <2>1
<1>6. \A x \in 1 .. (Len(seq) - 1) : 1 + x - 1 = x
  OBVIOUS
<1>7. Len(SubSeq(seq, 1, Len(seq) - 1)) = Len(seq) - 1
  BY <1>3, <1>5
<1>8. \A x \in 1 .. (Len(seq) - 1) : SubSeq(seq, 1, Len(seq) - 1)[x] = seq[x]
  BY <1>3, <1>5, <1>6
<1> QED BY <1>1, <1>3, <1>4, <1>7, <1>8 DEF Front, Last

LEMMA PlanTyping ==
    ASSUME TypeOK
    PROVE  /\ job.dry_run \in BOOLEAN /\ job.protocol \in Protocols
           /\ \A s \in StepIndex : /\ plan[s].command \in {"sent", "none", "broken"}
                                   /\ plan[s].rollback \in {"sent", "none", "broken"}
                                   /\ plan[s].retry_count \in 0 .. MaxRetries
                                   /\ plan[s].continue_on_fail \in BOOLEAN
                                   /\ plan[s].needs \in 0 .. Steps
BY JobsAssumption DEF TypeOK, Job, StepPlan, plan

LEMMA Indices == Steps \in Nat \ {0} /\ StepIndex = 1 .. Steps /\ MaxRetries \in Nat
BY StepRunnerAssumption DEF StepIndex

---------------------------------------------------------------------------
(* How an attempt ends                                                     *)

Again ==
    /\ attempt < plan[i].retry_count
    /\ attempt' = attempt + 1
    /\ pc' = "attempt"
    /\ UNCHANGED <<i, resultVars>>

Over(expected) ==
    /\ EndStep(expected)
    /\ pc' = "step"
    /\ UNCHANGED attempt

AttemptEnds == DryRunStep \/ RefuseStep \/ Answer \/ AnswerGarbled \/ TimeOut \/ Lose

LEMMA HowAttemptsEnd ==
    ASSUME AttemptEnds
    PROVE  /\ OnStep
           /\ via' = "none" /\ UNCHANGED <<job, tester, outcome>>
           /\ Again \/ \E e \in BOOLEAN : Over(e)
<1>1. ASSUME NEW r, r.expected \in BOOLEAN, Conclude(r)
      PROVE  /\ via' = "none" /\ UNCHANGED <<job, tester, outcome>>
             /\ Again \/ \E e \in BOOLEAN : Over(e)
  BY <1>1 DEF Conclude, Again, Over, Retries, NextAttempt
<1>2. CASE DryRunStep
  <2>1. PICK e \in BOOLEAN : Conclude([success |-> TRUE, expected |-> e, retryable |-> FALSE])
    BY <1>2 DEF DryRunStep
  <2> QED BY <1>1, <1>2, <2>1 DEF DryRunStep, OnStep
<1>3. CASE RefuseStep
  <2>1. TimedOut.expected \in BOOLEAN
    BY DEF TimedOut
  <2>2. Conclude(TimedOut) \/ \E r \in ClosedResults : Conclude(r)
    BY <1>3 DEF RefuseStep, NotConnectedResult
  <2>3. \A r \in ClosedResults : r.expected \in BOOLEAN
    BY DEF ClosedResults, Result
  <2>4. pc = "attempt"
    BY <1>3 DEF RefuseStep
  <2> QED BY <1>1, <2>1, <2>2, <2>3, <2>4 DEF OnStep
<1>4. CASE Answer
  BY <1>1, <1>4 DEF Answer, OnStep, Answers, Result
<1>5. CASE TimeOut
  <2>1. TimedOut.expected \in BOOLEAN
    BY DEF TimedOut
  <2> QED BY <1>1, <1>5, <2>1 DEF TimeOut, OnStep
<1>6. CASE Lose
  BY <1>1, <1>6 DEF Lose, OnStep, LostResults, Result
<1>7. CASE AnswerGarbled
  <2>1. Undecodable.expected \in BOOLEAN
    BY DEF Undecodable
  <2> QED BY <1>1, <1>7, <2>1 DEF AnswerGarbled, OnStep
<1> QED BY <1>2, <1>3, <1>4, <1>5, <1>6, <1>7 DEF AttemptEnds

---------------------------------------------------------------------------
(* The loop                                                                *)

\* How a step of the run changes what LoopInv speaks of.
LoopUnchanged == UNCHANGED <<job, i, attempt, status>>

LEMMA LoopMoves ==
    ASSUME TypeOK, LoopInv, LoopUnchanged, pc # "connect" => pc' # "connect",
           OnStep' <=> OnStep, AfterLoop' => i = Steps + 1
    PROVE  LoopInv'
<1>1. plan' = plan /\ Captured' = Captured
  BY DEF LoopUnchanged, plan, Captured
<1>2. Applies' <=> Applies
  BY <1>1 DEF Applies, LoopUnchanged
<1>3. \A s : Sent(s)' <=> Sent(s)
  BY <1>1 DEF Sent
<1> QED BY <1>1, <1>2, <1>3 DEF LoopInv, LoopUnchanged, Sent

\* Of the step the run is at, and of no other, the status is set to the result.
LEMMA StatusSet ==
    ASSUME TypeOK, i \in StepIndex, NEW v, status' = [status EXCEPT ![i] = v]
    PROVE  /\ status'[i] = v
           /\ \A s \in StepIndex : s # i => status'[s] = status[s]
BY DEF TypeOK

\* The step is over: skipped, failed or successful.
StepOver(v) ==
    /\ i \in StepIndex
    /\ status' = [status EXCEPT ![i] = v]
    /\ i' = i + 1 \/ (i' = Steps + 1 /\ v = "failed")
    /\ v = "success" => Sent(i)
    /\ v = "failed" /\ ~plan[i].continue_on_fail => i' = Steps + 1
    /\ pc' = "step"
    /\ UNCHANGED job

LEMMA LoopOver ==
    ASSUME TypeOK, LoopInv, NothingAfterFatalFailure,
           NEW v \in {"skipped", "failed", "success"}, StepOver(v)
    PROVE  LoopInv' /\ NothingAfterFatalFailure' /\ i' \in 1 .. (Steps + 1)
<1> USE Indices
<1>1. i \in 1 .. Steps /\ i' \in 1 .. (Steps + 1) /\ i < i'
  BY DEF StepOver
<1>2. status'[i] = v /\ \A s \in StepIndex : s # i => status'[s] = status[s]
  BY StatusSet DEF StepOver
<1>3. plan' = plan /\ pc' = "step" /\ ~OnStep' /\ ~AfterLoop'
  BY DEF StepOver, plan, OnStep, AfterLoop
<1>4. \A s \in StepIndex : ~(status[s] = "failed" /\ ~plan[s].continue_on_fail)
  BY <1>1 DEF LoopInv
<1>5. \A s \in StepIndex : i' <= s => status'[s] = "none"
  BY <1>1, <1>2 DEF LoopInv
<1>6. \A s \in StepIndex : status'[s] # "running"
  BY <1>1, <1>2 DEF LoopInv
<1>7. \A s \in StepIndex : status'[s] = "success" => Sent(s)'
  BY <1>2, <1>3 DEF LoopInv, StepOver, Sent
<1>8. \A s \in StepIndex : status'[s] = "failed" /\ ~plan[s].continue_on_fail => i' = Steps + 1
  BY <1>2, <1>4 DEF StepOver
<1>9. \A s \in StepIndex : s < i' /\ status'[s] = "none" => \E t \in StepIndex : status'[t] = "failed"
  <2> TAKE s \in StepIndex
  <2> HAVE s < i' /\ status'[s] = "none"
  <2>1. CASE v = "failed"
    BY <1>1, <1>2, <2>1
  <2>2. CASE v # "failed"
    <3>1. s < i /\ status[s] = "none"
      BY <1>1, <1>2, <2>2 DEF StepOver
    <3>2. PICK t \in StepIndex : status[t] = "failed"
      BY <3>1 DEF LoopInv
    <3>3. t # i
      BY <1>1, <3>2 DEF LoopInv
    <3> QED BY <1>2, <3>2, <3>3
  <2> QED BY <2>1, <2>2
<1>10. LoopInv'
  BY <1>3, <1>5, <1>6, <1>7, <1>8, <1>9 DEF LoopInv
<1>11. \A s, t \in StepIndex :
          s < t /\ status'[s] = "failed" /\ ~plan[s].continue_on_fail => status'[t] = "none"
  BY <1>1, <1>2, <1>4 DEF LoopInv
<1> QED BY <1>1, <1>3, <1>10, <1>11 DEF NothingAfterFatalFailure

\* The executor is given the step's command.
LEMMA LoopBegins ==
    ASSUME TypeOK, LoopInv, NothingAfterFatalFailure, BeginStep
    PROVE  LoopInv' /\ NothingAfterFatalFailure'
<1> USE Indices
<1>1. i \in StepIndex /\ i' = i /\ ~OnStep /\ OnStep' /\ ~AfterLoop' /\ pc' # "connect"
  BY DEF BeginStep, TypeOK, OnStep, AfterLoop
<1>2. status'[i] = "running" /\ \A s \in StepIndex : s # i => status'[s] = status[s]
  BY <1>1, StatusSet DEF BeginStep
<1>3. plan' = plan /\ status[i] = "none"
  BY <1>1 DEF BeginStep, plan, LoopInv, TypeOK
<1>4. Captured' = Captured
  BY <1>1, <1>2, <1>3 DEF Captured
<1>5. Applies' /\ Sent(i)' /\ attempt' <= plan'[i'].retry_count
  <2>1. 0 <= plan[i].retry_count
    BY <1>1, PlanTyping
  <2>2. attempt' = 0 /\ Applies /\ Sent(i)
    BY DEF BeginStep, Sent
  <2> QED BY <1>1, <1>3, <1>4, <2>1, <2>2 DEF Applies, Sent
<1>6. \A s \in StepIndex : i' <= s /\ ~(OnStep' /\ s = i') => status'[s] = "none"
  BY <1>1, <1>2 DEF LoopInv
<1>7. \A s \in StepIndex : status'[s] = "running" <=> OnStep' /\ s = i'
  BY <1>1, <1>2 DEF LoopInv
<1>8. \A s \in StepIndex : status'[s] = "success" => Sent(s)'
  BY <1>1, <1>2, <1>3 DEF LoopInv, Sent
<1>9. \A s \in StepIndex : status'[s] = "failed" /\ ~plan'[s].continue_on_fail => i' = Steps + 1
  BY <1>1, <1>2, <1>3 DEF LoopInv
<1>10. \A s \in StepIndex : s < i' /\ status'[s] = "none" => \E t \in StepIndex : status'[t] = "failed"
  <2> TAKE s \in StepIndex
  <2> HAVE s < i' /\ status'[s] = "none"
  <2>1. PICK t \in StepIndex : status[t] = "failed"
    BY <1>1, <1>2 DEF LoopInv
  <2> QED BY <1>2, <1>3, <2>1
<1>11. LoopInv'
  <2>1. i' <= Steps /\ Sent(i)'
    BY <1>1, <1>5 DEF Sent
  <2> QED BY <1>1, <1>5, <1>6, <1>7, <1>8, <1>9, <1>10, <2>1 DEF LoopInv
<1>12. NothingAfterFatalFailure'
  BY <1>1, <1>2, <1>3 DEF NothingAfterFatalFailure, LoopInv
<1> QED BY <1>11, <1>12

LEMMA LoopRetries ==
    ASSUME TypeOK, LoopInv, OnStep, Again, UNCHANGED job
    PROVE  LoopInv' /\ attempt' \in 0 .. MaxRetries
<1> USE Indices
<1>1. i \in StepIndex /\ UNCHANGED <<i, status>> /\ OnStep' /\ ~AfterLoop' /\ pc' # "connect"
  BY DEF Again, OnStep, AfterLoop, resultVars, LoopInv, TypeOK
<1>2. plan' = plan /\ Captured' = Captured /\ (Applies' <=> Applies) /\ \A s : Sent(s)' <=> Sent(s)
  BY <1>1 DEF plan, Captured, Applies, Sent
<1>3. attempt' <= plan[i].retry_count /\ attempt' \in 0 .. MaxRetries
  <2>1. plan[i].retry_count \in 0 .. MaxRetries /\ attempt \in 0 .. MaxRetries
    BY <1>1, PlanTyping DEF TypeOK
  <2> QED BY <2>1 DEF Again
<1>4. OnStep' => i' <= Steps /\ Sent(i)' /\ Applies' /\ attempt' <= plan'[i'].retry_count
  BY <1>1, <1>2, <1>3 DEF LoopInv, Sent
<1> QED BY <1>1, <1>2, <1>3, <1>4 DEF LoopInv, Sent

---------------------------------------------------------------------------
(* The counters                                                            *)

LEMMA StepCount ==
    ASSUME NEW S \in SUBSET StepIndex
    PROVE  IsFiniteSet(S) /\ Cardinality(S) \in 0 .. Steps
<1> USE Indices
<1>1. IsFiniteSet(StepIndex) /\ Cardinality(StepIndex) = Steps
  BY FS_Interval
<1>2. IsFiniteSet(S) /\ Cardinality(S) <= Cardinality(StepIndex)
  BY <1>1, FS_Subset
<1> QED BY <1>1, <1>2, FS_CardinalityType

LEMMA OneMoreStep ==
    ASSUME NEW S \in SUBSET StepIndex, NEW s \in StepIndex, s \notin S
    PROVE  Cardinality(S \cup {s}) = Cardinality(S) + 1
BY StepCount, FS_AddElement

LEMMA OverCounts ==
    ASSUME TypeOK, LoopInv, NEW v \in {"skipped", "failed", "success"}, StepOver(v)
    PROVE  /\ Cardinality(Successes') = Cardinality(Successes) + IF v = "success" THEN 1 ELSE 0
           /\ Cardinality(Failures') =
                Cardinality(Failures) + IF v = "failed" /\ Sent(i) THEN 1 ELSE 0
           /\ (\A s \in StepIndex : status'[s] # "failed")
                <=> (\A s \in StepIndex : status[s] # "failed") /\ v # "failed"
<1>1. i \in StepIndex /\ plan' = plan
  BY DEF StepOver, plan
<1>2. status'[i] = v /\ \A s \in StepIndex : s # i => status'[s] = status[s]
  BY StatusSet DEF StepOver
<1>3. status[i] \notin {"success", "failed"}
  BY <1>1, Indices DEF LoopInv, TypeOK
<1>4. Successes \in SUBSET StepIndex /\ Failures \in SUBSET StepIndex
  BY DEF Successes, Failures
<1>5. Cardinality(Successes) \in Nat /\ Cardinality(Failures) \in Nat
  BY <1>4, StepCount
<1>6. Cardinality(Successes') = Cardinality(Successes) + IF v = "success" THEN 1 ELSE 0
  <2>1. CASE v = "success"
    <3>1. Successes' = Successes \cup {i} /\ i \notin Successes
      BY <1>1, <1>2, <1>3, <2>1 DEF Successes
    <3> QED BY <1>1, <1>4, <2>1, <3>1, OneMoreStep
  <2>2. CASE v # "success"
    <3>1. Successes' = Successes
      BY <1>1, <1>2, <1>3, <2>2 DEF Successes
    <3> QED BY <1>5, <2>2, <3>1
  <2> QED BY <2>1, <2>2
<1>7. Cardinality(Failures') = Cardinality(Failures) + IF v = "failed" /\ Sent(i) THEN 1 ELSE 0
  <2>1. CASE v = "failed" /\ Sent(i)
    <3>1. Failures' = Failures \cup {i} /\ i \notin Failures
      BY <1>1, <1>2, <1>3, <2>1 DEF Failures, Sent
    <3> QED BY <1>1, <1>4, <2>1, <3>1, OneMoreStep
  <2>2. CASE ~(v = "failed" /\ Sent(i))
    <3>1. Failures' = Failures
      BY <1>1, <1>2, <1>3, <2>2 DEF Failures, Sent
    <3> QED BY <1>5, <2>2, <3>1
  <2> QED BY <2>1, <2>2
<1>8. (\A s \in StepIndex : status'[s] # "failed")
        <=> (\A s \in StepIndex : status[s] # "failed") /\ v # "failed"
  BY <1>1, <1>2, <1>3
<1> QED BY <1>6, <1>7, <1>8

\* When the statuses keep, or the step the run is at begins, the counters keep.
LEMMA CountKept ==
    ASSUME TypeOK, LoopInv, CountInv, UNCHANGED <<job, steps_completed, steps_failed, all_success>>,
           UNCHANGED status \/ BeginStep
    PROVE  CountInv'
<1>1. plan' = plan
  BY DEF plan
<1>2. \A s \in StepIndex : /\ status'[s] = "success" <=> status[s] = "success"
                           /\ status'[s] = "failed" <=> status[s] = "failed"
  <2>1. CASE BeginStep
    <3>1. i \in StepIndex /\ status[i] = "none" 
      BY <2>1, Indices DEF BeginStep, TypeOK, LoopInv, OnStep
    <3>2. status'[i] = "running" /\ \A s \in StepIndex : s # i => status'[s] = status[s]
      BY <2>1, <3>1, StatusSet DEF BeginStep
    <3> QED BY <3>1, <3>2
  <2> QED BY <2>1
<1>3. Successes' = Successes /\ Failures' = Failures
  BY <1>1, <1>2 DEF Successes, Failures, Sent
<1> QED BY <1>2, <1>3 DEF CountInv

---------------------------------------------------------------------------
(* The steps to roll back                                                  *)

\* The successful steps stay in completed_steps as long as they are its elements.
LEMMA CompletedKept ==
    ASSUME TypeOK, CompletedInv, UNCHANGED completed_steps, ~Ending' => ~Ending,
           \A s \in StepIndex : status'[s] = "success" <=> status[s] = "success",
           pc' = "undoing" => completed_steps # <<>> /\ plan'[NextUndone].rollback = "sent"
    PROVE  CompletedInv'
<1>1. \A x \in DOMAIN completed_steps : completed_steps[x] \in StepIndex
  BY ElementOfSeq, LenProperties DEF TypeOK
<1>2. NextUndone' = NextUndone
  BY DEF NextUndone
<1> QED BY <1>1, <1>2 DEF CompletedInv

LEMMA CompletedGrows ==
    ASSUME TypeOK, LoopInv, CompletedInv, StepOver("success"), ~Ending,
           completed_steps' = Append(completed_steps, i)
    PROVE  CompletedInv' /\ completed_steps' \in Seq(StepIndex)
<1> DEFINE n == Len(completed_steps)
<1>1. i \in StepIndex /\ pc' = "step"
  BY DEF StepOver
<1>2. status'[i] = "success" /\ \A s \in StepIndex : s # i => status'[s] = status[s]
  BY StatusSet DEF StepOver
<1>3. /\ completed_steps' \in Seq(StepIndex) /\ Len(completed_steps') = n + 1
      /\ \A x \in 1 .. n : completed_steps'[x] = completed_steps[x]
      /\ completed_steps'[n + 1] = i
  BY <1>1, AppendProperties DEF TypeOK
<1>4. n \in Nat /\ DOMAIN completed_steps = 1 .. n /\ DOMAIN completed_steps' = 1 .. (n + 1)
  BY <1>3, LenProperties DEF TypeOK
<1>5. \A x \in 1 .. n : /\ completed_steps[x] \in StepIndex
                        /\ status[completed_steps[x]] = "success" /\ completed_steps[x] < i
  <2> TAKE x \in 1 .. n
  <2>1. completed_steps[x] \in StepIndex /\ status[completed_steps[x]] = "success"
    BY <1>4, ElementOfSeq DEF CompletedInv, TypeOK
  <2>2. \A s \in StepIndex : ~(s < i) => status[s] # "success"
    BY <1>1, Indices DEF LoopInv
  <2> QED BY <2>1, <2>2
<1>6. \A x, y \in 1 .. (n + 1) : x < y => completed_steps'[x] < completed_steps'[y]
  <2> TAKE x, y \in 1 .. (n + 1)
  <2> HAVE x < y
  <2>1. x \in 1 .. n
    BY <1>4
  <2>2. CASE y \in 1 .. n
    BY <1>3, <1>4, <2>1, <2>2 DEF CompletedInv
  <2>3. CASE y = n + 1
    BY <1>3, <1>5, <2>1, <2>3
  <2> QED BY <1>4, <2>2, <2>3
<1>7. \A x \in 1 .. (n + 1) : status'[completed_steps'[x]] = "success"
  <2> TAKE x \in 1 .. (n + 1)
  <2>1. CASE x \in 1 .. n
    BY <1>2, <1>3, <1>5, <2>1
  <2>2. CASE x = n + 1
    BY <1>2, <1>3, <2>2
  <2> QED BY <1>4, <2>1, <2>2
<1>8. \A s \in StepIndex : status'[s] = "success" => \E x \in 1 .. (n + 1) : completed_steps'[x] = s
  <2> TAKE s \in StepIndex
  <2> HAVE status'[s] = "success"
  <2>1. CASE s = i
    <3>1. n + 1 \in 1 .. (n + 1)
      BY <1>4
    <3> QED BY <1>3, <2>1, <3>1
  <2>2. CASE s # i
    <3>1. PICK x \in 1 .. n : completed_steps[x] = s
      BY <1>2, <1>4, <2>2 DEF CompletedInv
    <3>2. x \in 1 .. (n + 1) /\ completed_steps'[x] = s
      BY <1>3, <1>4, <3>1
    <3> QED BY <3>2
  <2> QED BY <2>1, <2>2
<1> HIDE DEF n
<1> QED BY <1>1, <1>3, <1>4, <1>6, <1>7, <1>8 DEF CompletedInv

\* The rollback takes the last one.
LEMMA CompletedShrinks ==
    ASSUME TypeOK, CompletedInv, completed_steps # <<>>, Ending, Undone, pc' = "undo"
    PROVE  /\ CompletedInv' /\ completed_steps' \in Seq(StepIndex)
           /\ Len(completed_steps) \in Nat \ {0}
           /\ DOMAIN completed_steps = 1 .. Len(completed_steps)
           /\ DOMAIN completed_steps' = 1 .. (Len(completed_steps) - 1)
           /\ \A x \in 1 .. (Len(completed_steps) - 1) : completed_steps'[x] = completed_steps[x]
           /\ NextUndone = completed_steps[Len(completed_steps)] /\ NextUndone \in StepIndex
<1> DEFINE n == Len(completed_steps)
<1>1. /\ n \in Nat \ {0}
      /\ NextUndone = completed_steps[n] /\ NextUndone \in StepIndex
      /\ completed_steps' \in Seq(StepIndex) /\ Len(completed_steps') = n - 1
      /\ \A x \in 1 .. (n - 1) : completed_steps'[x] = completed_steps[x]
  BY FrontLast DEF TypeOK, Undone, NextUndone
<1>2. DOMAIN completed_steps = 1 .. n /\ DOMAIN completed_steps' = 1 .. (n - 1)
  BY <1>1, LenProperties DEF TypeOK
<1>3. status' = status
  BY DEF Undone
<1>4. CompletedInv'
  <2>1. \A x \in 1 .. (n - 1) : x \in 1 .. n
    BY <1>1
  <2>2. Ending'
    BY DEF Ending
  <2> HIDE DEF n
  <2> QED BY <1>1, <1>2, <1>3, <2>1, <2>2 DEF CompletedInv
<1> QED BY <1>1, <1>2, <1>4

---------------------------------------------------------------------------
(* Types                                                                   *)

Points == {"connect", "step", "attempt", "waiting", "closing", "left", "undo", "undoing", "done"}
Statuses == {"none", "running", "success", "failed", "skipped"}

RowTypes ==
    /\ job \in Jobs
    /\ pc \in Points
    /\ i \in 1 .. (Steps + 1)
    /\ attempt \in 0 .. MaxRetries
    /\ status \in [StepIndex -> Statuses]
    /\ steps_completed \in 0 .. Steps /\ steps_failed \in 0 .. Steps
    /\ all_success \in BOOLEAN
    /\ completed_steps \in Seq(StepIndex)
    /\ outcome \in {"running", "success", "failed"}

SharedTypes ==
    /\ conn \in Users \cup {"none"}
    /\ live \subseteq Users
    /\ tester \in [Testers -> {"idle", "using", "closing", "done"}]
    /\ via \in Users \cup {"none"}

LEMMA TypeParts == TypeOK <=> RowTypes /\ SharedTypes /\ tried \in Seq(Command)
BY DEF TypeOK, RowTypes, SharedTypes, Points, Statuses

LEMMA CountTypesNext ==
    CountInv' => steps_completed' \in 0 .. Steps /\ steps_failed' \in 0 .. Steps
<1>1. Successes' \in SUBSET StepIndex /\ Failures' \in SUBSET StepIndex
  BY DEF Successes, Failures
<1> QED BY <1>1, StepCount DEF CountInv

LEMMA SharedStep ==
    ASSUME TypeOK, [Next]_vars
    PROVE  SharedTypes'
<1> USE DEF SharedTypes, TypeOK
<1>1. \A u : /\ u \in Users /\ Open(u) => conn' \in Users \cup {"none"} /\ live' \subseteq Users
             /\ u \in Users /\ Through(u) => conn' \in Users \cup {"none"} /\ live' \subseteq Users
  BY DEF Open, Through, connVars
<1>2. BeginClose => conn' \in Users \cup {"none"} /\ live' \subseteq Users
  BY DEF BeginClose
<1>3. EndClose => conn' \in Users \cup {"none"} /\ live' \subseteq Users
  BY DEF EndClose
<1>4. "run" \in Users /\ Testers \subseteq Users
  BY DEF Users
<1>5. CASE Connect
  BY <1>1, <1>4, <1>5 DEF Connect
<1>6. CASE ConnectFails \/ SkipStep \/ RenderingFails \/ BeginStep \/ EndOfSteps \/ StartRollback
           \/ SkipUndo \/ EndRollback
  BY <1>6 DEF ConnectFails, SkipStep, RenderingFails, BeginStep, EndOfSteps, StartRollback,
              SkipUndo, EndRollback, Undone, connVars
<1>7. CASE AttemptEnds
  <2>1. via' = "none" /\ tester' = tester
    BY <1>7, HowAttemptsEnd
  <2>2. conn' = conn /\ live' \subseteq live
    BY <1>7 DEF AttemptEnds, DryRunStep, RefuseStep, Answer, AnswerGarbled, TimeOut, Lose, connVars
  <2> QED BY <2>1, <2>2
<1>8. CASE Send \/ SendUndo
  BY <1>1, <1>4, <1>8 DEF Send, SendUndo
<1>9. CASE LeaveExecutor
  BY <1>2, <1>9 DEF LeaveExecutor
<1>10. CASE ExecutorLeft
  BY <1>3, <1>10 DEF ExecutorLeft
<1>11. CASE RefuseUndo
  BY <1>11 DEF RefuseUndo, Undone, connVars
<1>12. CASE EndUndo
  BY <1>12 DEF EndUndo, Undone
<1>13. CASE TesterStep
  <2>1. via' = via
    BY <1>13 DEF TesterStep
  <2>2. PICK t \in Testers : TesterEnters(t) \/ TesterReopens(t) \/ TesterLeaves(t) \/ TesterLeft(t)
    BY <1>13 DEF TesterStep
  <2>3. CASE TesterEnters(t)
    BY <1>1, <1>4, <2>1, <2>3 DEF TesterEnters
  <2>4. CASE TesterReopens(t)
    BY <1>1, <1>4, <2>1, <2>4 DEF TesterReopens
  <2>5. CASE TesterLeaves(t)
    BY <1>2, <2>1, <2>5 DEF TesterLeaves
  <2>6. CASE TesterLeft(t)
    BY <1>3, <2>1, <2>6 DEF TesterLeft
  <2> QED BY <2>2, <2>3, <2>4, <2>5, <2>6
<1>14. CASE UNCHANGED vars
  BY <1>14 DEF vars, connVars
<1> QED BY <1>5, <1>6, <1>7, <1>8, <1>9, <1>10, <1>11, <1>12, <1>13, <1>14
        DEF Next, RunStep, AttemptEnds

---------------------------------------------------------------------------
(* The rows                                                                *)

RowGood == RowTypes /\ LoopInv /\ NothingAfterFatalFailure /\ CountInv /\ VerdictInv /\ CompletedInv

\* Steps that change only where the run is and the execution's status.
LEMMA RowMoves ==
    ASSUME RowInv, UNCHANGED <<job, i, attempt, resultVars>>,
           pc' \in Points, outcome' \in {"running", "success", "failed"},
           pc' # "connect" \/ pc' = pc, OnStep' <=> OnStep, AfterLoop' => i = Steps + 1, ~Ending' => ~Ending,
           pc' = "undoing" => completed_steps # <<>> /\ plan[NextUndone].rollback = "sent",
           VerdictInv'
    PROVE  RowGood'
<1>1. plan' = plan /\ status' = status
  BY DEF plan, resultVars
<1>2. RowTypes'
  BY TypeParts DEF RowInv, RowTypes, resultVars
<1>3. LoopInv'
  BY LoopMoves DEF RowInv, LoopUnchanged, resultVars
<1>4. NothingAfterFatalFailure'
  BY <1>1 DEF RowInv, NothingAfterFatalFailure
<1>5. CountInv'
  BY CountKept DEF RowInv, resultVars
<1>6. CompletedInv'
  BY <1>1, CompletedKept DEF RowInv, resultVars
<1> QED BY <1>2, <1>3, <1>4, <1>5, <1>6 DEF RowGood

LEMMA RowOver ==
    ASSUME RowInv, ~Ending, NEW v \in {"skipped", "failed", "success"}, StepOver(v),
           attempt' = attempt, outcome' = outcome,
           steps_completed' = steps_completed + (IF v = "success" THEN 1 ELSE 0),
           steps_failed' = steps_failed + (IF v = "failed" /\ Sent(i) THEN 1 ELSE 0),
           all_success' = (all_success /\ v # "failed"),
           completed_steps' = IF v = "success" THEN Append(completed_steps, i) ELSE completed_steps
    PROVE  RowGood'
<1>1. /\ TypeOK /\ LoopInv /\ NothingAfterFatalFailure /\ CountInv /\ VerdictInv /\ CompletedInv
      /\ pc' = "step" /\ i \in StepIndex
  BY DEF RowInv, StepOver
<1>2. LoopInv' /\ NothingAfterFatalFailure' /\ i' \in 1 .. (Steps + 1)
  BY <1>1, LoopOver
<1>3. all_success' \in BOOLEAN
  BY ZenonT(30)
<1>4. CountInv'
  <2>1. /\ steps_completed' = Cardinality(Successes')
        /\ steps_failed' = Cardinality(Failures')
    BY <1>1, OverCounts DEF CountInv
  <2>2. all_success' <=> \A s \in StepIndex : status'[s] # "failed"
    BY <1>1, OverCounts DEF CountInv
  <2> QED BY <2>1, <2>2 DEF CountInv
<1>5. VerdictInv'
  BY <1>1 DEF VerdictInv, Ending
<1>6. CompletedInv' /\ completed_steps' \in Seq(StepIndex)
  <2>1. CASE v = "success"
    BY <1>1, <2>1, CompletedGrows
  <2>2. CASE v # "success"
    <3>1. status'[i] = v /\ \A s \in StepIndex : s # i => status'[s] = status[s]
      BY <1>1, StatusSet DEF StepOver
    <3>2. status[i] # "success"
      BY <1>1, Indices DEF LoopInv
    <3>3. completed_steps' = completed_steps
      BY <2>2
    <3>4. \A s \in StepIndex : status'[s] = "success" <=> status[s] = "success"
      BY <2>2, <3>1, <3>2
    <3>5. CompletedInv'
      BY <1>1, <3>3, <3>4, CompletedKept
    <3> QED BY <1>1, <3>3, <3>5 DEF TypeOK
  <2> QED BY <2>1, <2>2
<1>7. status' \in [StepIndex -> Statuses]
  BY <1>1 DEF TypeOK, StepOver, Statuses
<1>8. RowTypes'
  <2>1. steps_completed' \in 0 .. Steps /\ steps_failed' \in 0 .. Steps
    BY <1>4, CountTypesNext
  <2>2. job' \in Jobs /\ pc' \in Points /\ attempt' \in 0 .. MaxRetries /\ outcome' \in {"running", "success", "failed"}
    BY <1>1 DEF TypeOK, StepOver, Points
  <2> QED BY <1>2, <1>3, <1>6, <1>7, <2>1, <2>2 DEF RowTypes
<1> QED BY <1>2, <1>4, <1>5, <1>6, <1>8 DEF RowGood

LEMMA RowAttemptEnds ==
    ASSUME RowInv, AttemptEnds
    PROVE  RowGood'
<1>1. /\ TypeOK /\ LoopInv /\ NothingAfterFatalFailure /\ CountInv /\ VerdictInv /\ CompletedInv
      /\ OnStep /\ ~Ending /\ UNCHANGED <<job, outcome>>
      /\ i \in StepIndex /\ Sent(i)
  <2>1. OnStep /\ UNCHANGED <<job, outcome>>
    BY HowAttemptsEnd
  <2>2. i \in StepIndex /\ Sent(i)
    BY <2>1, Indices DEF RowInv, LoopInv, TypeOK
  <2>3. ~Ending
    BY <2>1 DEF OnStep, Ending
  <2> QED BY <2>1, <2>2, <2>3 DEF RowInv
<1>2. CASE Again
  <2>1. LoopInv' /\ attempt' \in 0 .. MaxRetries
    BY <1>1, <1>2, LoopRetries
  <2>2. UNCHANGED <<i, status, steps_completed, steps_failed, all_success, completed_steps>> /\ pc' = "attempt"
    BY <1>2 DEF Again, resultVars
  <2>3. plan' = plan /\ ~Ending'
    BY <1>1, <2>2 DEF plan, Ending
  <2>4. NothingAfterFatalFailure' /\ VerdictInv'
    BY <1>1, <2>2, <2>3 DEF NothingAfterFatalFailure, VerdictInv
  <2>5. CountInv' /\ CompletedInv'
    BY <1>1, <2>2, CountKept, CompletedKept
  <2>6. RowTypes'
    BY <1>1, <2>1, <2>2 DEF TypeOK, RowTypes, Points, Statuses
  <2> QED BY <2>1, <2>4, <2>5, <2>6 DEF RowGood
<1>3. CASE \E e \in BOOLEAN : Over(e)
  <2>1. PICK e \in BOOLEAN : Over(e)
    BY <1>3
  <2> DEFINE v == IF e THEN "success" ELSE "failed"
  <2>2. v \in {"skipped", "failed", "success"} /\ (v = "success" <=> e) /\ (v = "failed" <=> ~e)
    OBVIOUS
  <2>3. StepOver(v)
    BY <1>1, <2>1, <2>2 DEF Over, EndStep, StepOver, AfterFailure
  <2>4. steps_completed' = steps_completed + (IF v = "success" THEN 1 ELSE 0)
    BY <1>1, <2>1 DEF Over, EndStep, TypeOK
  <2>5. steps_failed' = steps_failed + (IF v = "failed" /\ Sent(i) THEN 1 ELSE 0)
    BY <1>1, <2>1 DEF Over, EndStep, TypeOK
  <2>6. all_success' = (all_success /\ v # "failed")
    BY <2>1, <2>2 DEF Over, EndStep
  <2>7. completed_steps' = IF v = "success" THEN Append(completed_steps, i) ELSE completed_steps
    BY <2>1, <2>2 DEF Over, EndStep
  <2>8. attempt' = attempt
    BY <2>1 DEF Over
  <2> HIDE DEF v
  <2> QED BY <1>1, <2>2, <2>3, <2>4, <2>5, <2>6, <2>7, <2>8, RowOver
<1> QED BY <1>2, <1>3, HowAttemptsEnd

LEMMA RowInit == Init => RowGood
<1> SUFFICES ASSUME Init PROVE RowGood
  OBVIOUS
<1> USE Indices
<1>1. status = [s \in StepIndex |-> "none"] /\ pc = "connect" /\ i = 1 /\ completed_steps = <<>>
  BY DEF Init
<1>2. RowTypes
  BY EmptySeq DEF Init, RowTypes, Points, Statuses
<1>3. LoopInv /\ NothingAfterFatalFailure
  BY <1>1 DEF LoopInv, NothingAfterFatalFailure, OnStep, AfterLoop
<1>4. CountInv
  <2>1. Successes = {} /\ Failures = {}
    BY <1>1 DEF Successes, Failures
  <2>2. Cardinality({}) = 0
    BY FS_EmptySet
  <2>3. all_success <=> \A s \in StepIndex : status[s] # "failed"
    BY <1>1 DEF Init
  <2> QED BY <2>1, <2>2, <2>3 DEF CountInv, Init
<1>5. VerdictInv
  BY DEF Init, VerdictInv, Ending
<1>6. CompletedInv
  <2>1. DOMAIN completed_steps = {}
    BY <1>1
  <2> QED BY <1>1, <2>1 DEF CompletedInv, Ending
<1> QED BY <1>2, <1>3, <1>4, <1>5, <1>6 DEF RowGood

LEMMA RowStep ==
    ASSUME RowInv, [Next]_vars
    PROVE  RowGood'
<1> USE DEF Points
<1>1. /\ TypeOK /\ LoopInv /\ NothingAfterFatalFailure /\ CountInv /\ VerdictInv /\ CompletedInv
      /\ pc \in Points /\ outcome \in {"running", "success", "failed"}
  BY DEF RowInv, TypeOK
<1>2. CASE Connect
  <2>1. pc = "connect" /\ pc' = "step" /\ outcome' = outcome
    BY <1>2 DEF Connect
  <2>2. VerdictInv'
    BY <1>1, <2>1 DEF VerdictInv, Ending
  <2> QED BY <1>1, <1>2, <2>1, <2>2, RowMoves DEF Connect, OnStep, AfterLoop, Ending
<1>3. CASE ConnectFails
  <2>1. pc = "connect" /\ pc' = "done" /\ outcome' = "failed" /\ completed_steps' = completed_steps
    BY <1>3 DEF ConnectFails, resultVars
  <2>2. completed_steps = <<>>
    <3>1. \A s \in StepIndex : status[s] = "none"
      BY <1>1, <2>1, Indices DEF LoopInv, OnStep
    <3>2. \A x \in DOMAIN completed_steps : FALSE
      BY <1>1, <3>1, ElementOfSeq, LenProperties DEF CompletedInv, TypeOK
    <3>3. ~(completed_steps # <<>>)
      <4> SUFFICES ASSUME completed_steps # <<>> PROVE FALSE
        OBVIOUS
      <4>1. Len(completed_steps) \in Nat \ {0} /\ DOMAIN completed_steps = 1 .. Len(completed_steps)
        BY <1>1, EmptySeq, LenProperties DEF TypeOK
      <4>2. 1 \in DOMAIN completed_steps
        BY <4>1
      <4> QED BY <3>2, <4>2
    <3> QED BY <3>3
  <2>3. i' = 1
    BY <1>1, <1>3, <2>1 DEF ConnectFails, LoopInv
  <2>4. VerdictInv'
    BY <2>1, <2>2, <2>3 DEF VerdictInv, Ending
  <2> QED BY <1>1, <1>3, <2>1, <2>4, RowMoves DEF ConnectFails, OnStep, AfterLoop, Ending
<1>4. CASE SkipStep
  <2>1. StepOver("skipped")
    BY <1>1, <1>4, Indices DEF SkipStep, StepOver, TypeOK
  <2>2. ~Ending /\ UNCHANGED <<attempt, outcome, steps_completed, steps_failed, all_success, completed_steps>>
    BY <1>4 DEF SkipStep, Ending
  <2>3. steps_completed + 0 = steps_completed /\ steps_failed + 0 = steps_failed
    BY <1>1 DEF TypeOK
  <2>4. all_success' = (all_success /\ "skipped" # "failed")
    BY <1>1, <2>2 DEF TypeOK
  <2> QED BY <2>1, <2>2, <2>3, <2>4, RowOver
<1>5. CASE RenderingFails
  <2>1. StepOver("failed") /\ ~Sent(i)
    BY <1>1, <1>5, Indices DEF RenderingFails, StepOver, TypeOK, AfterFailure, Sent
  <2>2. ~Ending /\ UNCHANGED <<attempt, outcome, steps_completed, steps_failed, completed_steps>>
    BY <1>5 DEF RenderingFails, Ending
  <2>3. steps_completed + 0 = steps_completed /\ steps_failed + 0 = steps_failed
    BY <1>1 DEF TypeOK
  <2>4. all_success' = (all_success /\ "failed" # "failed")
    BY <1>5 DEF RenderingFails
  <2> QED BY <2>1, <2>2, <2>3, <2>4, RowOver
<1>6. CASE BeginStep
  <2>1. LoopInv' /\ NothingAfterFatalFailure'
    BY <1>1, <1>6, LoopBegins
  <2>2. /\ UNCHANGED <<job, i, steps_completed, steps_failed, all_success, completed_steps, outcome>>
        /\ pc' = "attempt" /\ attempt' = 0 /\ ~Ending /\ ~Ending' /\ i \in StepIndex
    BY <1>1, <1>6, Indices DEF BeginStep, Ending, TypeOK
  <2>3. CountInv' /\ VerdictInv'
    BY <1>1, <1>6, <2>2, CountKept DEF VerdictInv
  <2>4. \A s \in StepIndex : status'[s] = "success" <=> status[s] = "success"
    <3>1. status'[i] = "running" /\ \A s \in StepIndex : s # i => status'[s] = status[s]
      BY <1>1, <1>6, <2>2, StatusSet DEF BeginStep
    <3>2. status[i] # "success"
      BY <1>1, <2>2, Indices DEF LoopInv
    <3> QED BY <3>1, <3>2
  <2>5. CompletedInv'
    BY <1>1, <2>2, <2>4, CompletedKept
  <2>6. status' \in [StepIndex -> Statuses] /\ attempt' \in 0 .. MaxRetries
    BY <1>1, <1>6, <2>2, Indices DEF BeginStep, TypeOK, Statuses
  <2>7. RowTypes'
    BY <1>1, <2>2, <2>6 DEF TypeOK, RowTypes
  <2> QED BY <2>1, <2>3, <2>5, <2>7 DEF RowGood
<1>7. CASE AttemptEnds
  BY <1>7, RowAttemptEnds
<1>8. CASE Send
  <2>1. pc = "attempt" /\ pc' = "waiting" /\ outcome' = outcome
    BY <1>8 DEF Send
  <2>2. VerdictInv'
    BY <1>1, <2>1 DEF VerdictInv, Ending
  <2> QED BY <1>1, <1>8, <2>1, <2>2, RowMoves DEF Send, OnStep, AfterLoop, Ending
<1>9. CASE LeaveExecutor \/ ExecutorLeft
  <2>1. pc \in {"step", "closing"} /\ pc' \in {"closing", "left"} /\ outcome' = outcome /\ i = Steps + 1
    BY <1>1, <1>9 DEF LeaveExecutor, ExecutorLeft, LoopInv, AfterLoop
  <2>2. VerdictInv'
    BY <1>1, <2>1 DEF VerdictInv, Ending
  <2>3. UNCHANGED <<job, i, attempt, resultVars>>
    BY <1>9 DEF LeaveExecutor, ExecutorLeft
  <2> QED BY <1>1, <2>1, <2>2, <2>3, RowMoves DEF OnStep, AfterLoop, Ending
<1>10. CASE EndOfSteps \/ StartRollback
  <2>1. /\ UNCHANGED <<job, i, attempt, resultVars>>
        /\ pc = "left" /\ pc' \in {"undo", "done"} /\ i = Steps + 1
        /\ outcome' \in {"success", "failed"}
    BY <1>1, <1>10 DEF EndOfSteps, StartRollback, LoopInv, AfterLoop
  <2>2. VerdictInv'
    <3>1. CASE EndOfSteps
      BY <2>1, <3>1 DEF EndOfSteps, RollsBack, VerdictInv, Ending, resultVars
    <3>2. CASE StartRollback
      BY <2>1, <3>2 DEF StartRollback, RollsBack, VerdictInv, Ending, resultVars
    <3> QED BY <1>10, <3>1, <3>2
  <2> QED BY <1>1, <2>1, <2>2, RowMoves DEF OnStep, AfterLoop, Ending
<1>11. CASE SendUndo
  <2>1. /\ UNCHANGED <<job, i, attempt, resultVars, outcome>>
        /\ pc = "undo" /\ pc' = "undoing" /\ i = Steps + 1
        /\ completed_steps # <<>> /\ plan[NextUndone].rollback = "sent"
    BY <1>1, <1>11 DEF SendUndo, LoopInv, AfterLoop
  <2>2. VerdictInv'
    BY <1>1, <2>1 DEF VerdictInv, Ending, resultVars
  <2> QED BY <1>1, <2>1, <2>2, RowMoves DEF OnStep, AfterLoop, Ending
<1>12. CASE SkipUndo \/ RefuseUndo \/ EndUndo
  <2>1. /\ pc \in {"undo", "undoing"} /\ pc' = "undo" /\ completed_steps # <<>> /\ Undone
        /\ UNCHANGED <<job, i, attempt, status, steps_completed, steps_failed, all_success, outcome>>
    BY <1>1, <1>12 DEF SkipUndo, RefuseUndo, EndUndo, Undone, CompletedInv
  <2>2. Ending /\ Ending' /\ AfterLoop /\ AfterLoop' /\ ~OnStep /\ ~OnStep'
    BY <2>1 DEF Ending, AfterLoop, OnStep
  <2>3. CompletedInv' /\ completed_steps' \in Seq(StepIndex)
    BY <1>1, <2>1, <2>2, CompletedShrinks
  <2>4. LoopInv'
    BY <1>1, <2>1, <2>2, LoopMoves DEF LoopUnchanged, LoopInv
  <2>5. NothingAfterFatalFailure' /\ VerdictInv'
    BY <1>1, <2>1, <2>2 DEF NothingAfterFatalFailure, VerdictInv, plan
  <2>6. CountInv'
    BY <1>1, <2>1, CountKept
  <2>7. RowTypes'
    BY <1>1, <2>1, <2>3 DEF TypeOK, RowTypes, Statuses
  <2> QED BY <2>3, <2>4, <2>5, <2>6, <2>7 DEF RowGood
<1>13. CASE EndRollback
  <2>1. /\ UNCHANGED <<job, i, attempt, resultVars, outcome>>
        /\ pc = "undo" /\ pc' = "done" /\ i = Steps + 1 /\ completed_steps = <<>>
    BY <1>1, <1>13 DEF EndRollback, LoopInv, AfterLoop
  <2>2. VerdictInv'
    BY <1>1, <2>1 DEF VerdictInv, Ending, resultVars
  <2> QED BY <1>1, <2>1, <2>2, RowMoves DEF OnStep, AfterLoop, Ending
<1>14. CASE TesterStep \/ UNCHANGED vars
  <2>1. UNCHANGED <<job, i, attempt, resultVars, outcome, pc>>
    BY <1>14 DEF TesterStep, vars
  <2>2. VerdictInv'
    BY <1>1, <2>1 DEF VerdictInv, Ending, resultVars
  <2>3. pc = "undoing" => completed_steps # <<>> /\ plan[NextUndone].rollback = "sent"
    BY <1>1 DEF CompletedInv
  <2>4. AfterLoop => i = Steps + 1
    BY <1>1 DEF LoopInv
  <2> QED BY <1>1, <2>1, <2>2, <2>3, <2>4, RowMoves DEF OnStep, AfterLoop, Ending
<1> QED BY <1>2, <1>3, <1>4, <1>5, <1>6, <1>7, <1>8, <1>9, <1>10, <1>11, <1>12, <1>13, <1>14
        DEF Next, RunStep, AttemptEnds

---------------------------------------------------------------------------
(* What was given to the executor                                          *)

TriedInv == tried \in Seq(Command) /\ GivenInv /\ AnsweredInv /\ CapturedInv /\ UndoInv

\* One more command.
LEMMA Appended ==
    ASSUME tried \in Seq(Command), NEW c \in Command, tried' = Append(tried, c)
    PROVE  /\ tried' \in Seq(Command) /\ Len(tried) \in Nat
           /\ DOMAIN tried = 1 .. Len(tried) /\ DOMAIN tried' = 1 .. (Len(tried) + 1)
           /\ Len(tried') = Len(tried) + 1
           /\ \A k \in 1 .. Len(tried) : tried'[k] = tried[k]
           /\ tried'[Len(tried) + 1] = c
BY AppendProperties, LenProperties

\* The fate of the last one.
LEMMA Settled ==
    ASSUME tried \in Seq(Command), tried # <<>>, NEW f \in Fates, Settle(f)
    PROVE  /\ tried' \in Seq(Command) /\ Len(tried) \in Nat \ {0}
           /\ DOMAIN tried = 1 .. Len(tried) /\ DOMAIN tried' = 1 .. Len(tried)
           /\ Len(tried') = Len(tried)
           /\ \A k \in 1 .. Len(tried) :
                /\ tried'[k].kind = tried[k].kind /\ tried'[k].step = tried[k].step
                /\ tried'[k].attempt = tried[k].attempt
                /\ tried'[k].fate = IF k = Len(tried) THEN f ELSE tried[k].fate
<1> DEFINE n == Len(tried)
           e == [tried[n] EXCEPT !.fate = f]
<1>1. n \in Nat \ {0} /\ n \in 1 .. n
  BY EmptySeq
<1>2. tried[n] \in Command
  BY <1>1, ElementOfSeq
<1>3. /\ e \in Command
      /\ e.kind = tried[n].kind /\ e.step = tried[n].step /\ e.attempt = tried[n].attempt
      /\ e.fate = f
  BY <1>2 DEF Command
<1>4. tried' = [tried EXCEPT ![n] = e]
  BY DEF Settle
<1> HIDE DEF n, e
<1>5. n = Len(tried)
  BY DEF n
<1>6. tried' \in Seq(Command) /\ Len(tried') = n
      /\ \A k \in 1 .. n : tried'[k] = IF k = n THEN e ELSE tried[k]
  BY <1>1, <1>3, <1>4, <1>5, ExceptSeq
<1>7. DOMAIN tried = 1 .. n /\ DOMAIN tried' = 1 .. n
  BY <1>5, <1>6, LenProperties
<1> QED BY <1>1, <1>3, <1>5, <1>6, <1>7

LEMMA CommandTyping ==
    ASSUME tried \in Seq(Command)
    PROVE  \A k \in DOMAIN tried :
              /\ tried[k].kind \in {"step", "rollback"} /\ tried[k].step \in StepIndex
              /\ tried[k].attempt \in 0 .. MaxRetries /\ tried[k].fate \in Fates
<1>1. \A k \in DOMAIN tried : tried[k] \in Command
  BY ElementOfSeq, LenProperties
<1> QED BY <1>1 DEF Command

Behind(c, d) ==
    \/ c.kind = "step" /\ d.kind = "rollback"
    \/ c.kind = "step" /\ d.kind = "step" /\ c.step < d.step
    \/ c.kind = "step" /\ d.kind = "step" /\ c.step = d.step /\ c.attempt < d.attempt
    \/ c.kind = "rollback" /\ d.kind = "rollback" /\ c.step > d.step

LEMMA PlanFollowed ==
    HostFollowsThePlan <=>
        /\ \A k, l \in DOMAIN tried : k < l => Behind(tried[k], tried[l])
        /\ \A k \in DOMAIN tried : tried[k].kind = "step" =>
              tried[k].attempt <= plan[tried[k].step].retry_count
        /\ job.dry_run => tried = <<>>
BY DEF HostFollowsThePlan, Behind, Given

\* A command that every earlier one is behind continues the plan.
LEMMA PlanContinues ==
    ASSUME tried \in Seq(Command), HostFollowsThePlan, NEW c \in Command, tried' = Append(tried, c),
           UNCHANGED job, ~job.dry_run, \A k \in DOMAIN tried : Behind(tried[k], c),
           c.kind = "step" => c.attempt <= plan[c.step].retry_count
    PROVE  HostFollowsThePlan'
<1> DEFINE n == Len(tried)
<1>1. /\ n \in Nat /\ DOMAIN tried = 1 .. n /\ DOMAIN tried' = 1 .. (n + 1)
      /\ \A k \in 1 .. n : tried'[k] = tried[k]
      /\ tried'[n + 1] = c
  BY Appended
<1>2. plan' = plan
  BY DEF plan
<1> HIDE DEF n
<1>3. \A k, l \in 1 .. (n + 1) : k < l => Behind(tried'[k], tried'[l])
  <2> TAKE k, l \in 1 .. (n + 1)
  <2> HAVE k < l
  <2>1. k \in 1 .. n /\ (l \in 1 .. n \/ l = n + 1)
    BY <1>1
  <2>2. CASE l \in 1 .. n
    BY <1>1, <2>1, <2>2, PlanFollowed
  <2>3. CASE l = n + 1
    BY <1>1, <2>1, <2>3
  <2> QED BY <2>1, <2>2, <2>3
<1>4. \A k \in 1 .. (n + 1) : tried'[k].kind = "step" =>
          tried'[k].attempt <= plan[tried'[k].step].retry_count
  <2> TAKE k \in 1 .. (n + 1)
  <2>1. k \in 1 .. n \/ k = n + 1
    BY <1>1
  <2> QED BY <1>1, <2>1, PlanFollowed
<1>5. HostFollowsThePlan' <=>
        /\ \A k, l \in DOMAIN tried' : k < l => Behind(tried'[k], tried'[l])
        /\ \A k \in DOMAIN tried' : tried'[k].kind = "step" =>
              tried'[k].attempt <= plan'[tried'[k].step].retry_count
        /\ job'.dry_run => tried' = <<>>
  BY DEF HostFollowsThePlan, Behind, Given
<1> QED BY <1>1, <1>2, <1>3, <1>4, <1>5

\* Neither the plan nor the order knows of fates.
SameCommands ==
    /\ DOMAIN tried' = DOMAIN tried /\ (tried' = <<>> <=> tried = <<>>)
    /\ \A k \in DOMAIN tried : /\ tried'[k].kind = tried[k].kind /\ tried'[k].step = tried[k].step
                               /\ tried'[k].attempt = tried[k].attempt

LEMMA PlanKept ==
    ASSUME HostFollowsThePlan, SameCommands, UNCHANGED job
    PROVE  HostFollowsThePlan'
<1>1. plan' = plan
  BY DEF plan
<1>2. \A k, l \in DOMAIN tried : Behind(tried[k], tried[l]) <=> Behind(tried'[k], tried'[l])
  BY DEF Behind, SameCommands
<1>3. HostFollowsThePlan' <=>
        /\ \A k, l \in DOMAIN tried' : k < l => Behind(tried'[k], tried'[l])
        /\ \A k \in DOMAIN tried' : tried'[k].kind = "step" =>
              tried'[k].attempt <= plan'[tried'[k].step].retry_count
        /\ job'.dry_run => tried' = <<>>
  BY DEF HostFollowsThePlan, Behind, Given
<1> QED BY <1>1, <1>2, <1>3, PlanFollowed DEF SameCommands

---------------------------------------------------------------------------
(* Steps that give it nothing                                              *)

LEMMA GivenStays ==
    ASSUME RowInv, TriedInv, UNCHANGED <<job, tried>>, i' \in Nat, i <= i',
           \/ pc \notin {"attempt", "waiting", "undoing"}
           \/ UNCHANGED <<pc, i, attempt, completed_steps>>,
           pc' \notin {"waiting", "undoing"} \/ UNCHANGED pc,
           Captured' \subseteq Captured
    PROVE  tried' \in Seq(Command) /\ GivenInv' /\ AnsweredInv' /\ CapturedInv'
<1>1. tried \in Seq(Command) /\ GivenInv /\ AnsweredInv /\ CapturedInv /\ i \in Nat
  BY Indices DEF TriedInv, RowInv, TypeOK
<1>2. plan' = plan /\ \A kind : Given(kind)' = Given(kind)
  BY DEF plan, Given
<1>3. \A k \in Given("step") : tried[k].step \in Nat
  BY <1>1, CommandTyping, Indices DEF Given
<1>4. HostFollowsThePlan'
  BY <1>1, PlanKept DEF GivenInv, SameCommands
<1>5. GivenInv'
  <2>1. CASE pc \notin {"attempt", "waiting", "undoing"}
    <3>1. \A k \in Given("step") : tried[k].step < i'
      <4>1. \A k \in Given("step") : tried[k].step < i
        BY <1>1, <2>1 DEF GivenInv
      <4> QED BY <1>1, <1>3, <4>1
    <3>2. \A k \in DOMAIN tried : tried[k].fate # "open"
      BY <1>1, <2>1 DEF GivenInv
    <3>3. pc' \notin {"waiting", "undoing"}
      BY <2>1
    <3> QED BY <1>2, <1>4, <3>1, <3>2, <3>3 DEF GivenInv
  <2>2. CASE UNCHANGED <<pc, i, attempt, completed_steps>>
    BY <1>1, <1>2, <1>4, <2>2 DEF GivenInv, NextUndone
  <2> QED BY <2>1, <2>2
<1>6. AnsweredInv'
  <2>1. job.protocol # "api" => \A k \in Given("step") : tried[k].fate = "answered" => tried[k].step < i'
    BY <1>1, <1>3 DEF AnsweredInv
  <2>2. AnsweredIsNotResent'
    BY <1>1, <1>2 DEF AnsweredInv, AnsweredIsNotResent
  <2> QED BY <1>2, <2>1, <2>2 DEF AnsweredInv
<1>7. CapturedInv'
  BY <1>1, <1>2 DEF CapturedInv, ConditionsHold
<1> QED BY <1>1, <1>5, <1>6, <1>7

\* Before the end there is no rollback, and every success remains to be rolled back.
LEMMA UndoBefore ==
    ASSUME CompletedInv', ~Ending', Given("rollback")' = {}
    PROVE  UndoInv'
<1>1. pc' # "undoing"
  BY DEF Ending
<1>2. \A s \in StepIndex : status'[s] = "success" => s \in Remaining'
  <2> TAKE s \in StepIndex
  <2> HAVE status'[s] = "success"
  <2>1. PICK x \in DOMAIN completed_steps' : completed_steps'[x] = s
    BY DEF CompletedInv
  <2> QED BY <1>1, <2>1 DEF Remaining
<1> QED BY <1>2 DEF UndoInv

LEMMA UndoKept ==
    ASSUME UndoInv, SameCommands, UNCHANGED <<job, status, completed_steps>>,
           (pc # "undoing" /\ pc' # "undoing") \/ UNCHANGED pc,
           Given("rollback") # {} => Ending' /\ outcome' = "failed"
    PROVE  UndoInv'
<1>1. Remaining' = Remaining /\ plan' = plan
  BY DEF Remaining, plan
<1>2. Given("rollback")' = Given("rollback")
  BY DEF Given, SameCommands
<1>3. \A k \in Given("rollback") : tried'[k].step = tried[k].step
  BY DEF Given, SameCommands
<1> QED BY <1>1, <1>2, <1>3 DEF UndoInv

LEMMA TriedStays ==
    ASSUME RowInv, TriedInv, RowGood',
           \/ Connect \/ ConnectFails \/ SkipStep \/ RenderingFails \/ BeginStep \/ DryRunStep
           \/ LeaveExecutor \/ ExecutorLeft \/ EndOfSteps \/ StartRollback \/ EndRollback
           \/ TesterStep \/ UNCHANGED vars
    PROVE  TriedInv'
<1>1. /\ TypeOK /\ LoopInv /\ CountInv /\ VerdictInv /\ CompletedInv /\ CompletedInv'
      /\ tried \in Seq(Command) /\ UndoInv /\ GivenInv
      /\ i \in Nat /\ i' \in Nat
  BY Indices DEF RowInv, TriedInv, RowGood, RowTypes, TypeOK
<1>2. CASE SkipStep \/ RenderingFails \/ BeginStep
  <2>1. pc = "step" /\ pc' \in {"step", "attempt"} /\ tried' = tried /\ job' = job
        /\ i \in StepIndex /\ \E v \in Statuses : status' = [status EXCEPT ![i] = v] /\ (v \in {"success", "failed"} => ~Sent(i))
    BY <1>1, <1>2, Indices DEF SkipStep, RenderingFails, BeginStep, Statuses, Sent, TypeOK
  <2>2. i <= i'
    BY <1>1, <1>2, <2>1, Indices DEF SkipStep, RenderingFails, BeginStep, AfterFailure
  <2>3. Captured' \subseteq Captured
    <3>1. PICK v \in Statuses : status' = [status EXCEPT ![i] = v] /\ (v \in {"success", "failed"} => ~Sent(i))
      BY <2>1
    <3>2. status'[i] = v /\ \A s \in StepIndex : s # i => status'[s] = status[s]
      BY <1>1, <2>1, <3>1, StatusSet
    <3>3. plan' = plan
      BY <2>1 DEF plan
    <3> QED BY <2>1, <3>1, <3>2, <3>3 DEF Captured, Sent
  <2>4. ~Ending /\ ~Ending' /\ Given("rollback")' = {}
    BY <1>1, <2>1 DEF Ending, UndoInv, Given
  <2>5. UndoInv'
    BY <1>1, <2>4, UndoBefore
  <2>6. tried' \in Seq(Command) /\ GivenInv' /\ AnsweredInv' /\ CapturedInv'
    BY <1>1, <2>1, <2>2, <2>3, GivenStays
  <2> QED BY <2>5, <2>6 DEF TriedInv
<1>3. CASE DryRunStep
  <2>1. job' = job /\ job.dry_run /\ tried = <<>> /\ tried' = <<>> /\ OnStep /\ pc' \in {"attempt", "step"}
    BY <1>1, <1>3, HowAttemptsEnd DEF DryRunStep, GivenInv, HostFollowsThePlan, AttemptEnds, Again, Over
  <2>2. \A kind : Given(kind)' = {}
    BY <2>1 DEF Given
  <2>3. DOMAIN tried' = {}
    BY <2>1
  <2>4. UndoInv'
    BY <1>1, <2>1, <2>2, UndoBefore DEF Ending
  <2>5. HostFollowsThePlan' /\ AnsweredIsNotResent' /\ ConditionsHold'
    BY <2>1, <2>2, <2>3 DEF HostFollowsThePlan, AnsweredIsNotResent, ConditionsHold
  <2>6. tried' \in Seq(Command)
    BY <2>1, EmptySeq
  <2> QED BY <2>1, <2>2, <2>3, <2>4, <2>5, <2>6 DEF TriedInv, GivenInv, AnsweredInv, CapturedInv
<1>4. CASE \/ Connect \/ ConnectFails \/ LeaveExecutor \/ ExecutorLeft \/ EndOfSteps
           \/ StartRollback \/ EndRollback \/ TesterStep \/ UNCHANGED vars
  <2>1. UNCHANGED <<job, i, attempt, status, completed_steps, tried>>
    BY <1>4 DEF Connect, ConnectFails, LeaveExecutor, ExecutorLeft, EndOfSteps, StartRollback,
                EndRollback, TesterStep, vars, resultVars
  <2>2. \/ pc \notin {"attempt", "waiting", "undoing"} /\ pc' \notin {"waiting", "undoing"}
        \/ UNCHANGED pc
    BY <1>4 DEF Connect, ConnectFails, LeaveExecutor, ExecutorLeft, EndOfSteps, StartRollback,
                EndRollback, TesterStep, vars
  <2>3. Captured' = Captured /\ i <= i'
    BY <1>1, <2>1 DEF Captured, plan
  <2>4. Ending => Ending' /\ outcome' = outcome
    BY <1>4 DEF Ending, Connect, ConnectFails, LeaveExecutor, ExecutorLeft, EndOfSteps,
                StartRollback, EndRollback, TesterStep, vars
  <2>5. UndoInv'
    BY <1>1, <2>1, <2>2, <2>4, UndoKept DEF SameCommands, UndoInv
  <2>6. tried' \in Seq(Command) /\ GivenInv' /\ AnsweredInv' /\ CapturedInv'
    BY <1>1, <2>1, <2>2, <2>3, GivenStays
  <2> QED BY <2>5, <2>6 DEF TriedInv
<1> QED BY <1>2, <1>3, <1>4

---------------------------------------------------------------------------
(* The attempts of a step                                                  *)

\* The command of the step the run is at, and what was given before it.
LEMMA AttemptGiven ==
    ASSUME RowInv, TriedInv, pc = "attempt", ~job.dry_run, UNCHANGED job,
           NEW f \in Fates, Try("step", i, f)
    PROVE  /\ tried' \in Seq(Command) /\ HostFollowsThePlan'
           /\ Len(tried) \in Nat /\ Len(tried') = Len(tried) + 1
           /\ DOMAIN tried' = 1 .. (Len(tried) + 1)
           /\ \A k \in 1 .. Len(tried) : k \in DOMAIN tried /\ tried'[k] = tried[k]
           /\ \A k \in 1 .. Len(tried) : tried[k].kind = "step" /\ tried[k].fate # "open"
           /\ tried'[Len(tried) + 1] = [kind |-> "step", step |-> i, attempt |-> attempt, fate |-> f]
           /\ AnsweredIsNotResent' /\ ConditionsHold'
<1> DEFINE n == Len(tried)
           c == [kind |-> "step", step |-> i, attempt |-> attempt, fate |-> f]
<1>1. /\ TypeOK /\ LoopInv /\ tried \in Seq(Command) /\ GivenInv /\ AnsweredInv /\ CapturedInv /\ UndoInv
      /\ OnStep /\ ~Ending /\ i \in StepIndex
  BY Indices DEF RowInv, TriedInv, OnStep, Ending, LoopInv, TypeOK
<1>2. c \in Command /\ tried' = Append(tried, c)
  BY <1>1 DEF Try, Command, TypeOK
<1>3. c.kind = "step" /\ c.step = i /\ c.attempt = attempt /\ c.fate = f
  OBVIOUS
<1> HIDE DEF c
<1>4. /\ tried' \in Seq(Command) /\ n \in Nat
      /\ DOMAIN tried = 1 .. n /\ DOMAIN tried' = 1 .. (n + 1) /\ Len(tried') = n + 1
      /\ \A k \in 1 .. n : tried'[k] = tried[k]
      /\ tried'[n + 1] = c
  BY <1>1, <1>2, Appended
<1> HIDE DEF n
<1>5. \A k \in 1 .. n : /\ tried[k].kind = "step" /\ tried[k].fate # "open"
                        /\ \/ tried[k].step < i
                           \/ tried[k].step = i /\ tried[k].attempt < attempt
  <2>1. \A k \in 1 .. n : tried[k].kind = "step"
    BY <1>1, <1>4, CommandTyping DEF UndoInv, Given
  <2>2. \A k \in 1 .. n : tried[k].fate # "open"
    BY <1>1, <1>4 DEF GivenInv
  <2> QED BY <1>1, <1>4, <2>1, <2>2 DEF GivenInv, Given
<1>6. HostFollowsThePlan'
  <2>1. \A k \in DOMAIN tried : Behind(tried[k], c)
    BY <1>3, <1>4, <1>5 DEF Behind
  <2>2. c.attempt <= plan[c.step].retry_count
    BY <1>1, <1>3 DEF LoopInv
  <2> QED BY <1>1, <1>2, <2>1, <2>2, PlanContinues DEF GivenInv
<1>7. plan' = plan /\ \A k : k \in Given("step")' <=> k \in 1 .. (n + 1)
  BY <1>3, <1>4, <1>5 DEF plan, Given
<1>8. AnsweredIsNotResent'
  <2> SUFFICES ASSUME job.protocol # "api", NEW k \in 1 .. (n + 1), NEW l \in 1 .. (n + 1),
                      k < l, tried'[k].fate = "answered"
               PROVE  tried'[k].step # tried'[l].step
    BY <1>7 DEF AnsweredIsNotResent
  <2>1. k \in 1 .. n /\ (l \in 1 .. n \/ l = n + 1)
    BY <1>4
  <2>2. k \in Given("step") /\ tried[k].fate = "answered"
    BY <1>4, <1>5, <2>1 DEF Given
  <2>3. CASE l \in 1 .. n
    <3>1. l \in Given("step")
      BY <1>4, <1>5, <2>3 DEF Given
    <3> QED BY <1>1, <1>4, <2>1, <2>2, <2>3, <3>1 DEF AnsweredInv, AnsweredIsNotResent
  <2>4. CASE l = n + 1
    <3>1. tried[k].step < i
      BY <1>1, <2>2 DEF AnsweredInv
    <3>2. tried[k].step # i
      BY <1>1, <2>2, <3>1, CommandTyping, Indices DEF Given
    <3> QED BY <1>3, <1>4, <2>1, <2>4, <3>2
  <2> QED BY <2>1, <2>3, <2>4
<1>9. ConditionsHold'
  <2> SUFFICES ASSUME NEW k \in 1 .. (n + 1), plan[tried'[k].step].needs # 0
               PROVE  \E l \in 1 .. (n + 1) : /\ l < k /\ tried'[l].step = plan[tried'[k].step].needs
                                              /\ tried'[l].fate # "open"
    BY <1>7 DEF ConditionsHold
  <2>1. CASE k \in 1 .. n
    <3>1. k \in Given("step") /\ tried'[k] = tried[k]
      BY <1>4, <1>5, <2>1 DEF Given
    <3>2. PICK l \in Given("step") : l < k /\ tried[l].step = plan[tried[k].step].needs /\ tried[l].fate # "open"
      BY <1>1, <3>1 DEF CapturedInv, ConditionsHold
    <3>3. l \in 1 .. n /\ l \in 1 .. (n + 1)
      BY <1>4, <3>2 DEF Given
    <3> QED BY <1>4, <3>1, <3>2, <3>3
  <2>2. CASE k = n + 1
    <3>1. tried'[k].step = i /\ plan[i].needs \in Captured
      BY <1>1, <1>3, <1>4, <2>2 DEF LoopInv, Applies
    <3>2. PICK l \in Given("step") : tried[l].step = plan[i].needs /\ tried[l].fate # "open"
      BY <1>1, <3>1 DEF CapturedInv
    <3>3. l \in 1 .. n /\ l \in 1 .. (n + 1) /\ l < n + 1
      BY <1>4, <3>2 DEF Given
    <3> QED BY <1>4, <2>2, <3>1, <3>2, <3>3
  <2>3. k \in 1 .. n \/ k = n + 1
    BY <1>4
  <2> QED BY <2>1, <2>2, <2>3
<1> QED BY <1>4, <1>5, <1>6, <1>8, <1>9 DEF n, c

LEMMA TriedSend ==
    ASSUME RowInv, TriedInv, RowGood', Send
    PROVE  TriedInv'
<1> DEFINE n == Len(tried)
<1>1. /\ pc = "attempt" /\ pc' = "waiting" /\ ~job.dry_run
      /\ UNCHANGED <<job, i, attempt, status>> /\ Try("step", i, "open")
  BY DEF Send, resultVars
<1>2. /\ TypeOK /\ LoopInv /\ tried \in Seq(Command) /\ GivenInv /\ AnsweredInv /\ CapturedInv
      /\ CompletedInv' /\ i \in Nat /\ attempt \in Nat
  BY Indices DEF RowInv, TriedInv, RowGood, TypeOK
<1>3. /\ tried' \in Seq(Command) /\ HostFollowsThePlan'
      /\ n \in Nat /\ Len(tried') = n + 1 /\ DOMAIN tried' = 1 .. (n + 1)
      /\ \A k \in 1 .. n : k \in DOMAIN tried /\ tried'[k] = tried[k]
      /\ \A k \in 1 .. n : tried[k].kind = "step" /\ tried[k].fate # "open"
      /\ tried'[n + 1] = [kind |-> "step", step |-> i, attempt |-> attempt, fate |-> "open"]
      /\ AnsweredIsNotResent' /\ ConditionsHold'
  <2>1. "open" \in Fates
    BY DEF Fates
  <2> QED BY <1>1, <2>1, AttemptGiven
<1> HIDE DEF n
<1>4. /\ tried'[n + 1].kind = "step" /\ tried'[n + 1].step = i
      /\ tried'[n + 1].attempt = attempt /\ tried'[n + 1].fate = "open"
  BY <1>3
<1>5. \A k \in 1 .. (n + 1) : k \in 1 .. n \/ k = n + 1
  BY <1>3
<1>6. \A k \in 1 .. n : k \in Given("step")
  BY <1>3 DEF Given
<1>7. tried' # <<>> /\ plan' = plan
  BY <1>1, <1>3 DEF plan
<1>8. \A k \in Given("step")' : /\ k \in 1 .. (n + 1)
                                /\ k # n + 1 => k \in Given("step") /\ tried'[k] = tried[k]
  BY <1>3, <1>5, <1>6 DEF Given
<1>9. GivenInv'
  <2>1. \A k \in Given("step")' :
          tried'[k].step < i \/ (tried'[k].step = i /\ tried'[k].attempt <= attempt)
    <3> TAKE k \in Given("step")'
    <3>1. CASE k = n + 1
      BY <1>2, <1>4, <3>1
    <3>2. CASE k # n + 1
      <4>1. k \in Given("step") /\ tried'[k] = tried[k] /\ tried[k].attempt \in Nat
        BY <1>2, <1>8, <3>2, CommandTyping, Indices DEF Given
      <4> QED BY <1>1, <1>2, <4>1 DEF GivenInv
    <3> QED BY <3>1, <3>2
  <2>2. \A k \in DOMAIN tried' : tried'[k].fate = "open" => k = Len(tried')
    BY <1>3, <1>5
  <2> QED BY <1>1, <1>3, <1>4, <1>7, <2>1, <2>2 DEF GivenInv
<1>10. AnsweredInv'
  <2>1. job.protocol # "api" => \A k \in Given("step")' : tried'[k].fate = "answered" => tried'[k].step < i
    BY <1>2, <1>4, <1>8 DEF AnsweredInv
  <2> QED BY <1>1, <1>3, <2>1 DEF AnsweredInv
<1>11. CapturedInv'
  <2>1. Captured' = Captured
    BY <1>1, <1>7 DEF Captured
  <2>2. \A k \in Given("step") : k \in Given("step")' /\ tried'[k] = tried[k]
    <3>1. DOMAIN tried = 1 .. n
      BY <1>2, LenProperties DEF n
    <3> QED BY <1>3, <3>1 DEF Given
  <2>3. \A s \in Captured' : \E k \in Given("step")' : tried'[k].step = s /\ tried'[k].fate # "open"
    <3> TAKE s \in Captured'
    <3>1. PICK k \in Given("step") : tried[k].step = s /\ tried[k].fate # "open"
      BY <1>1, <1>2, <2>1 DEF CapturedInv
    <3> QED BY <2>2, <3>1
  <2> QED BY <1>3, <2>3 DEF CapturedInv
<1>12. UndoInv'
  <2>1. Given("rollback")' = {}
    BY <1>3, <1>4, <1>5 DEF Given
  <2> QED BY <1>1, <1>2, <2>1, UndoBefore DEF Ending
<1> QED BY <1>3, <1>9, <1>10, <1>11, <1>12 DEF TriedInv

\* However an attempt ends, its command is the last one given and has a fate.
LEMMA TriedConcluded ==
    ASSUME RowInv, TriedInv, RowGood', AttemptEnds,
           tried' \in Seq(Command), HostFollowsThePlan', AnsweredIsNotResent', ConditionsHold',
           NEW n \in Nat \ {0}, DOMAIN tried' = 1 .. n,
           \A k \in 1 .. n : tried'[k].kind = "step" /\ tried'[k].fate # "open",
           \A k \in 1 .. n : \/ tried'[k].step < i
                             \/ tried'[k].step = i /\ tried'[k].attempt <= attempt,
           tried'[n].step = i,
           \A s \in Captured : \E k \in 1 .. n : tried'[k].step = s,
           job.protocol # "api" => \A k \in 1 .. n : tried'[k].fate = "answered" => tried'[k].step < i'
    PROVE  TriedInv'
<1>1. /\ TypeOK /\ LoopInv /\ CompletedInv' /\ i \in Nat /\ i' \in Nat /\ attempt \in Nat
      /\ UNCHANGED job /\ OnStep /\ pc' \in {"attempt", "step"}
  BY HowAttemptsEnd, Indices DEF RowInv, RowGood, RowTypes, TypeOK, Again, Over
<1>2. plan' = plan /\ (\A k : k \in Given("step")' <=> k \in 1 .. n) /\ Given("rollback")' = {}
  BY <1>1 DEF plan, Given
<1>3. \A k \in 1 .. n : tried'[k].step \in Nat /\ tried'[k].attempt \in Nat
  <2>1. \A k \in DOMAIN tried' : tried'[k] \in Command
    BY ElementOfSeq, LenProperties
  <2> QED BY <2>1, Indices DEF Command
<1>4. \/ /\ pc' = "attempt" /\ i' = i /\ attempt' = attempt + 1 /\ status' = status
      \/ /\ pc' = "step" /\ i < i'
         /\ \E v \in Statuses : status' = [status EXCEPT ![i] = v]
  <2>1. i \in StepIndex
    BY <1>1, Indices DEF LoopInv, TypeOK
  <2>2. CASE Again
    BY <2>2 DEF Again, resultVars
  <2>3. CASE \E e \in BOOLEAN : Over(e)
    <3>1. PICK e \in BOOLEAN : Over(e)
      BY <2>3
    <3> DEFINE v == IF e THEN "success" ELSE "failed"
    <3>2. v \in Statuses /\ status' = [status EXCEPT ![i] = v]
      BY <3>1 DEF Over, EndStep, Statuses
    <3>3. pc' = "step" /\ i < i'
      BY <1>1, <2>1, <3>1, Indices DEF Over, EndStep, AfterFailure
    <3> QED BY <3>2, <3>3
  <2> QED BY <2>2, <2>3, HowAttemptsEnd
<1>5. \A k \in 1 .. n : \/ tried'[k].step < i'
                        \/ tried'[k].step = i' /\ pc' = "attempt" /\ tried'[k].attempt < attempt'
  <2> TAKE k \in 1 .. n
  <2>1. CASE pc' = "attempt" /\ i' = i /\ attempt' = attempt + 1
    BY <1>1, <1>3, <2>1
  <2>2. CASE i < i'
    BY <1>1, <1>3, <2>2
  <2> QED BY <1>4, <2>1, <2>2
<1>6. GivenInv'
  BY <1>1, <1>2, <1>5 DEF GivenInv
<1>7. AnsweredInv'
  BY <1>1, <1>2 DEF AnsweredInv
<1>8. Captured' \subseteq Captured \cup {i}
  <2>1. \A s \in StepIndex : s # i => status'[s] = status[s]
    BY <1>1, <1>4, Indices DEF TypeOK, LoopInv
  <2> QED BY <1>2, <2>1 DEF Captured
<1>9. \A s \in Captured' : \E k \in 1 .. n : tried'[k].step = s /\ tried'[k].fate # "open"
  <2> TAKE s \in Captured'
  <2>1. n \in 1 .. n
    OBVIOUS
  <2>2. \E k \in 1 .. n : tried'[k].step = s
    BY <1>8, <2>1
  <2> QED BY <2>2
<1>10. CapturedInv'
  BY <1>2, <1>9 DEF CapturedInv
<1>11. UndoInv'
  BY <1>1, <1>2, UndoBefore DEF Ending
<1> QED BY <1>6, <1>7, <1>10, <1>11 DEF TriedInv

LEMMA TriedRefuse ==
    ASSUME RowInv, TriedInv, RowGood', RefuseStep
    PROVE  TriedInv'
<1> DEFINE n == Len(tried)
<1>1. /\ pc = "attempt" /\ ~job.dry_run /\ Try("step", i, "refused") /\ AttemptEnds
      /\ UNCHANGED job /\ "refused" \in Fates
  BY HowAttemptsEnd DEF RefuseStep, AttemptEnds, Fates
<1>2. /\ TypeOK /\ tried \in Seq(Command) /\ GivenInv /\ AnsweredInv /\ CapturedInv
      /\ i \in Nat /\ attempt \in Nat
  BY Indices DEF RowInv, TriedInv, TypeOK
<1>3. /\ tried' \in Seq(Command) /\ HostFollowsThePlan'
      /\ n \in Nat /\ DOMAIN tried' = 1 .. (n + 1)
      /\ \A k \in 1 .. n : k \in DOMAIN tried /\ tried'[k] = tried[k]
      /\ \A k \in 1 .. n : tried[k].kind = "step" /\ tried[k].fate # "open"
      /\ tried'[n + 1] = [kind |-> "step", step |-> i, attempt |-> attempt, fate |-> "refused"]
      /\ AnsweredIsNotResent' /\ ConditionsHold'
  BY <1>1, AttemptGiven
<1>4. DOMAIN tried = 1 .. n
  BY <1>2, LenProperties
<1> HIDE DEF n
<1>5. /\ tried'[n + 1].kind = "step" /\ tried'[n + 1].step = i
      /\ tried'[n + 1].attempt = attempt /\ tried'[n + 1].fate = "refused"
  BY <1>3
<1>6. \A k \in 1 .. (n + 1) : k \in 1 .. n \/ k = n + 1
  BY <1>3
<1>7. \A k \in 1 .. n : k \in Given("step")
  BY <1>3 DEF Given
<1>8. \A k \in 1 .. (n + 1) : tried'[k].kind = "step" /\ tried'[k].fate # "open"
  BY <1>3, <1>5, <1>6
<1>9. \A k \in 1 .. (n + 1) : \/ tried'[k].step < i
                              \/ tried'[k].step = i /\ tried'[k].attempt <= attempt
  <2> TAKE k \in 1 .. (n + 1)
  <2>1. CASE k = n + 1
    BY <1>2, <1>5, <2>1
  <2>2. CASE k \in 1 .. n
    <3>1. tried[k].attempt \in Nat
      BY <1>2, <1>4, <2>2, CommandTyping, Indices
    <3> QED BY <1>1, <1>2, <1>3, <1>7, <2>2, <3>1 DEF GivenInv
  <2> QED BY <1>6, <2>1, <2>2
<1>10. \A s \in Captured : \E k \in 1 .. (n + 1) : tried'[k].step = s
  <2> TAKE s \in Captured
  <2>1. PICK k \in Given("step") : tried[k].step = s
    BY <1>1, <1>2 DEF CapturedInv
  <2>2. k \in 1 .. n /\ k \in 1 .. (n + 1)
    BY <1>3, <1>4, <2>1 DEF Given
  <2> QED BY <1>3, <2>1, <2>2
<1>11. job.protocol # "api" => \A k \in 1 .. (n + 1) : tried'[k].fate = "answered" => tried'[k].step < i'
  <2> SUFFICES ASSUME job.protocol # "api", NEW k \in 1 .. (n + 1), tried'[k].fate = "answered"
               PROVE  tried'[k].step < i'
    OBVIOUS
  <2>1. k \in 1 .. n
    BY <1>5, <1>6
  <2>2. tried[k].step < i /\ tried[k].step \in Nat
    BY <1>2, <1>3, <1>7, <2>1, CommandTyping, Indices DEF AnsweredInv
  <2>3. i <= i' /\ i' \in Nat
    <3>1. i' \in Nat
      BY Indices DEF RowGood, RowTypes
    <3>2. Again => i' = i
      BY DEF Again
    <3>3. (\E e \in BOOLEAN : Over(e)) => i <= i'
      BY <1>2, Indices DEF Over, EndStep, AfterFailure, RowInv, TypeOK
    <3> QED BY <1>1, <1>2, <3>1, <3>2, <3>3, HowAttemptsEnd
  <2> QED BY <1>2, <1>3, <2>1, <2>2, <2>3
<1>12. n + 1 \in Nat \ {0}
  BY <1>3
<1> QED BY <1>1, <1>3, <1>5, <1>8, <1>9, <1>10, <1>11, <1>12, TriedConcluded

LEMMA TriedResult ==
    ASSUME RowInv, TriedInv, RowGood', Answer \/ AnswerGarbled \/ TimeOut \/ Lose
    PROVE  TriedInv'
<1> DEFINE n == Len(tried)
<1>1. /\ TypeOK /\ LoopInv /\ tried \in Seq(Command) /\ GivenInv /\ AnsweredInv /\ CapturedInv /\ UndoInv
      /\ i \in Nat /\ attempt \in Nat /\ i' \in Nat
  BY Indices DEF RowInv, TriedInv, TypeOK, RowGood, RowTypes
<1>2. /\ pc = "waiting" /\ ~Ending /\ AttemptEnds /\ UNCHANGED job
      /\ tried # <<>> /\ tried[n].kind = "step" /\ tried[n].step = i
      /\ ~job.dry_run
  <2>1. pc = "waiting" /\ AttemptEnds
    BY DEF Answer, AnswerGarbled, TimeOut, Lose, AttemptEnds
  <2>2. tried # <<>> /\ tried[n].kind = "step" /\ tried[n].step = i
    BY <1>1, <2>1 DEF GivenInv
  <2>3. ~job.dry_run
    BY <1>1, <2>2 DEF GivenInv, HostFollowsThePlan
  <2> QED BY <2>1, <2>2, <2>3, HowAttemptsEnd DEF Ending
<1>3. PICK f \in {"answered", "garbled", "left"} : Settle(f) /\ (f = "answered" => Answer)
  BY DEF Answer, AnswerGarbled, TimeOut, Lose
<1>4. /\ tried' \in Seq(Command) /\ n \in Nat \ {0}
      /\ DOMAIN tried = 1 .. n /\ DOMAIN tried' = 1 .. n /\ Len(tried') = n
      /\ \A k \in 1 .. n :
           /\ tried'[k].kind = tried[k].kind /\ tried'[k].step = tried[k].step
           /\ tried'[k].attempt = tried[k].attempt
           /\ tried'[k].fate = IF k = n THEN f ELSE tried[k].fate
  <2>1. f \in Fates
    BY DEF Fates
  <2> QED BY <1>1, <1>2, <1>3, <2>1, Settled
<1> HIDE DEF n
<1>5. \A k \in 1 .. n : tried[k].kind = "step" /\ k \in Given("step")
  BY <1>1, <1>2, <1>4, CommandTyping DEF UndoInv, Given
<1>6. \A k \in 1 .. n : tried'[k].kind = "step" /\ tried'[k].fate # "open"
  <2> TAKE k \in 1 .. n
  <2>1. k # n => tried[k].fate # "open"
    BY <1>1, <1>4 DEF GivenInv, n
  <2> QED BY <1>4, <1>5, <2>1
<1>7. tried' # <<>> /\ SameCommands
  BY <1>2, <1>4 DEF SameCommands
<1>8. HostFollowsThePlan'
  BY <1>1, <1>2, <1>7, PlanKept DEF GivenInv
<1>9. plan' = plan /\ \A k : k \in Given("step")' <=> k \in 1 .. n
  BY <1>2, <1>4, <1>6 DEF plan, Given
<1>10. AnsweredIsNotResent'
  <2> SUFFICES ASSUME job.protocol # "api", NEW k \in 1 .. n, NEW l \in 1 .. n,
                      k < l, tried'[k].fate = "answered"
               PROVE  tried'[k].step # tried'[l].step
    BY <1>2, <1>9 DEF AnsweredIsNotResent
  <2>1. k # n
    BY <1>4
  <2> QED BY <1>1, <1>4, <1>5, <2>1 DEF AnsweredInv, AnsweredIsNotResent
<1>11. ConditionsHold'
  <2> SUFFICES ASSUME NEW k \in 1 .. n, plan[tried'[k].step].needs # 0
               PROVE  \E l \in 1 .. n : /\ l < k /\ tried'[l].step = plan[tried'[k].step].needs
                                        /\ tried'[l].fate # "open"
    BY <1>9 DEF ConditionsHold
  <2>1. PICK l \in Given("step") : l < k /\ tried[l].step = plan[tried[k].step].needs
    BY <1>1, <1>4, <1>5 DEF CapturedInv, ConditionsHold
  <2>2. l \in 1 .. n
    BY <1>4, <2>1 DEF Given
  <2> QED BY <1>4, <1>6, <2>1, <2>2
<1>12. \A k \in 1 .. n : \/ tried'[k].step < i
                         \/ tried'[k].step = i /\ tried'[k].attempt <= attempt
  BY <1>1, <1>2, <1>4, <1>5 DEF GivenInv
<1>13. n \in 1 .. n
  BY <1>4
<1>14. \A s \in Captured : \E k \in 1 .. n : tried'[k].step = s
  <2> TAKE s \in Captured
  <2>1. PICK k \in Given("step") : tried[k].step = s
    BY <1>1, <1>2 DEF CapturedInv
  <2>2. k \in 1 .. n
    BY <1>4, <2>1 DEF Given
  <2> QED BY <1>4, <2>1, <2>2
<1>15. job.protocol # "api" => \A k \in 1 .. n : tried'[k].fate = "answered" => tried'[k].step < i'
  <2> SUFFICES ASSUME job.protocol # "api", NEW k \in 1 .. n, tried'[k].fate = "answered"
               PROVE  tried'[k].step < i'
    OBVIOUS
  <2>1. \A e \in BOOLEAN : Over(e) => i < i'
    <3>1. i \in 1 .. Steps
      BY <1>1, <1>2, Indices DEF LoopInv, OnStep, TypeOK
    <3> QED BY <3>1, Indices DEF Over, EndStep, AfterFailure
  <2>2. CASE k = n
    <3>1. Answer
      BY <1>3, <1>4, <2>2
    <3>2. PICK r \in Answers : Conclude(r)
      BY <3>1 DEF Answer
    <3>3. ~Retries(r) /\ r.expected \in BOOLEAN
      BY <3>2 DEF Answers, Retries, Result
    <3>4. Over(r.expected)
      BY <3>2, <3>3 DEF Conclude, Over
    <3>5. i < i'
      BY <2>1, <3>3, <3>4
    <3> QED BY <1>2, <1>4, <2>2, <3>5
  <2>3. CASE k # n
    <3>1. tried[k].step < i /\ tried[k].step \in Nat
      BY <1>1, <1>4, <1>5, <2>3, CommandTyping, Indices DEF AnsweredInv
    <3>2. i <= i'
      <4>1. Again => i' = i
        BY DEF Again
      <4> QED BY <1>1, <1>2, <2>1, <4>1, HowAttemptsEnd
    <3> QED BY <1>1, <1>4, <3>1, <3>2
  <2> QED BY <2>2, <2>3
<1> QED BY <1>2, <1>4, <1>6, <1>8, <1>10, <1>11, <1>12, <1>13, <1>14, <1>15, TriedConcluded

---------------------------------------------------------------------------
(* The rollback                                                            *)

\* The last of what remains is taken off, and is larger than the rest.
LEMMA RemainingPopped ==
    ASSUME RowInv, pc = "undo", completed_steps # <<>>,
           \/ pc' = "undo" /\ Undone
           \/ pc' = "undoing" /\ UNCHANGED completed_steps
    PROVE  /\ NextUndone \in StepIndex /\ status[NextUndone] = "success"
           /\ NextUndone \in Remaining
           /\ Remaining' = Remaining \ {NextUndone}
           /\ \A s \in Remaining' : s \in StepIndex /\ s < NextUndone
<1> DEFINE n == Len(completed_steps)
<1>1. completed_steps \in Seq(StepIndex) /\ CompletedInv
  BY DEF RowInv, TypeOK
<1>2. /\ n \in Nat \ {0} /\ DOMAIN completed_steps = 1 .. n
      /\ NextUndone = completed_steps[n]
  BY <1>1, FrontLast, LenProperties DEF NextUndone
<1>3. \A x \in 1 .. n : completed_steps[x] \in StepIndex
  BY <1>1, ElementOfSeq
<1>4. \A x \in 1 .. (n - 1) : x \in 1 .. n /\ x < n /\ completed_steps[x] < completed_steps[n]
  <2>1. \A x \in 1 .. (n - 1) : x \in 1 .. n /\ x < n /\ n \in 1 .. n
    BY <1>2
  <2> QED BY <1>1, <1>2, <2>1 DEF CompletedInv
<1>5. Remaining = {completed_steps[x] : x \in 1 .. n}
  BY <1>2 DEF Remaining
<1>6. Remaining' = {completed_steps[x] : x \in 1 .. (n - 1)}
  <2>1. CASE pc' = "undo" /\ Undone
    <3>1. /\ DOMAIN completed_steps' = 1 .. (n - 1)
          /\ \A x \in 1 .. (n - 1) : completed_steps'[x] = completed_steps[x]
      BY <2>1, CompletedShrinks DEF RowInv, Ending
    <3>2. Remaining' = {completed_steps'[x] : x \in 1 .. (n - 1)}
      BY <2>1, <3>1 DEF Remaining
    <3> QED BY <3>1, <3>2
  <2>2. CASE pc' = "undoing" /\ UNCHANGED completed_steps
    <3>1. {y \in 1 .. n : y < n} = 1 .. (n - 1)
      BY <1>2
    <3> QED BY <1>2, <2>2, <3>1 DEF Remaining
  <2> QED BY <2>1, <2>2
<1> HIDE DEF n
<1>7. n \in 1 .. n /\ \A x \in 1 .. n : x = n \/ x \in 1 .. (n - 1)
  BY <1>2
<1>8. \A x \in 1 .. (n - 1) : completed_steps[x] # completed_steps[n]
  BY <1>3, <1>4, <1>7, Indices
<1>9. Remaining' = Remaining \ {NextUndone}
  BY <1>2, <1>4, <1>5, <1>6, <1>7, <1>8
<1>10. status[NextUndone] = "success"
  BY <1>1, <1>2, <1>7 DEF CompletedInv
<1> QED BY <1>2, <1>3, <1>4, <1>5, <1>6, <1>7, <1>9, <1>10

LEMMA UndoPopped ==
    ASSUME RowInv, UndoInv, tried \in Seq(Command), pc = "undo", completed_steps # <<>>,
           \/ pc' = "undo" /\ Undone
           \/ pc' = "undoing" /\ UNCHANGED <<job, status, completed_steps, outcome>>,
           \/ tried' = tried /\ plan[NextUndone].rollback # "sent"
           \/ /\ plan[NextUndone].rollback = "sent"
              /\ \E f \in Fates : Try("rollback", NextUndone, f)
    PROVE  UndoInv'
<1>1. /\ NextUndone \in StepIndex /\ status[NextUndone] = "success" /\ NextUndone \in Remaining
      /\ Remaining' = Remaining \ {NextUndone}
      /\ \A s \in Remaining' : s \in StepIndex /\ s < NextUndone
  BY RemainingPopped
<1>2. UNCHANGED <<job, status, outcome>> /\ plan' = plan /\ Ending'
  BY DEF Undone, plan, Ending
<1>3. outcome = "failed" /\ ~job.dry_run
  BY DEF RowInv, VerdictInv, Ending
<1>4. CASE tried' = tried /\ plan[NextUndone].rollback # "sent"
  <2>1. Given("rollback")' = Given("rollback")
    BY <1>4 DEF Given
  <2>2. \A s \in StepIndex :
          status[s] = "success" /\ plan[s].rollback = "sent" /\ s \notin Remaining
            <=> status[s] = "success" /\ plan[s].rollback = "sent" /\ s \notin Remaining'
    BY <1>1, <1>4
  <2>3. \A k \in Given("rollback") : \A s \in Remaining' : s < tried[k].step
    BY <1>1 DEF UndoInv
  <2> QED BY <1>2, <1>3, <1>4, <2>1, <2>2, <2>3 DEF UndoInv
<1>5. CASE plan[NextUndone].rollback = "sent" /\ \E f \in Fates : Try("rollback", NextUndone, f)
  <2>1. PICK f \in Fates : Try("rollback", NextUndone, f)
    BY <1>5
  <2> DEFINE c == [kind |-> "rollback", step |-> NextUndone, attempt |-> 0, fate |-> f]
             n == Len(tried)
  <2>2. c \in Command /\ tried' = Append(tried, c)
    BY <1>1, <2>1, Indices DEF Try, Command
  <2>3. c.kind = "rollback" /\ c.step = NextUndone
    OBVIOUS
  <2> HIDE DEF c
  <2>4. /\ n \in Nat /\ DOMAIN tried = 1 .. n /\ DOMAIN tried' = 1 .. (n + 1)
        /\ \A k \in 1 .. n : tried'[k] = tried[k]
        /\ tried'[n + 1] = c
    BY <2>2, Appended
  <2> HIDE DEF n
  <2>5. \A k : k \in Given("rollback")' <=> k \in Given("rollback") \/ k = n + 1
    <3>1. \A k : k \in 1 .. (n + 1) <=> k \in 1 .. n \/ k = n + 1
      BY <2>4
    <3>2. n + 1 \notin 1 .. n
      BY <2>4
    <3> QED BY <2>3, <2>4, <3>1, <3>2 DEF Given
  <2>6. \A k \in Given("rollback") : tried'[k] = tried[k]
    BY <2>4 DEF Given
  <2>7. \A k \in Given("rollback")' : \A s \in Remaining' : s < tried'[k].step
    BY <1>1, <2>3, <2>4, <2>5, <2>6 DEF UndoInv
  <2>8. \A s \in StepIndex :
          (\E k \in Given("rollback")' : tried'[k].step = s)
            <=> (\E k \in Given("rollback") : tried[k].step = s) \/ s = NextUndone
    BY <2>3, <2>4, <2>5, <2>6
  <2>9. \A s \in StepIndex :
          (\E k \in Given("rollback")' : tried'[k].step = s)
            <=> status[s] = "success" /\ plan[s].rollback = "sent" /\ s \notin Remaining'
    BY <1>1, <1>5, <2>8 DEF UndoInv
  <2> QED BY <1>2, <1>3, <2>7, <2>9 DEF UndoInv
<1> QED BY <1>4, <1>5

\* The rollback of the step whose turn it is.
LEMMA UndoGiven ==
    ASSUME RowInv, TriedInv, pc = "undo", completed_steps # <<>>, UNCHANGED <<job, i, status>>,
           NEW f \in Fates, Try("rollback", NextUndone, f),
           \/ f # "open" /\ pc' = "undo"
           \/ f = "open" /\ pc' = "undoing" /\ UNCHANGED completed_steps
    PROVE  tried' \in Seq(Command) /\ GivenInv' /\ AnsweredInv' /\ CapturedInv'
<1> DEFINE n == Len(tried)
           c == [kind |-> "rollback", step |-> NextUndone, attempt |-> 0, fate |-> f]
<1>1. /\ TypeOK /\ tried \in Seq(Command) /\ GivenInv /\ AnsweredInv /\ CapturedInv /\ UndoInv
      /\ ~job.dry_run /\ VerdictInv
  BY DEF RowInv, TriedInv, VerdictInv, Ending
<1>2. NextUndone \in StepIndex
  BY <1>1, FrontLast DEF NextUndone, TypeOK
<1>3. c \in Command /\ tried' = Append(tried, c)
  BY <1>2, Indices DEF Try, Command
<1>4. c.kind = "rollback" /\ c.step = NextUndone /\ c.fate = f
  OBVIOUS
<1> HIDE DEF c
<1>5. /\ tried' \in Seq(Command) /\ n \in Nat /\ Len(tried') = n + 1
      /\ DOMAIN tried = 1 .. n /\ DOMAIN tried' = 1 .. (n + 1)
      /\ \A k \in 1 .. n : tried'[k] = tried[k]
      /\ tried'[n + 1] = c
  BY <1>1, <1>3, Appended
<1> HIDE DEF n
<1>6. \A k : k \in 1 .. (n + 1) <=> k \in 1 .. n \/ k = n + 1
  BY <1>5
<1>7. plan' = plan /\ (\A k : k \in Given("step")' <=> k \in Given("step"))
      /\ \A k \in Given("step") : tried'[k] = tried[k]
  BY <1>4, <1>5, <1>6 DEF plan, Given
<1>8. HostFollowsThePlan'
  <2>1. NextUndone \in Remaining
    <3>1. /\ Len(completed_steps) \in Nat \ {0} /\ NextUndone = completed_steps[Len(completed_steps)]
          /\ DOMAIN completed_steps = 1 .. Len(completed_steps)
      BY <1>1, FrontLast, LenProperties DEF NextUndone, TypeOK
    <3>2. Len(completed_steps) \in DOMAIN completed_steps
      BY <3>1
    <3> QED BY <3>1, <3>2 DEF Remaining
  <2>2. \A k \in DOMAIN tried : Behind(tried[k], c)
    <3> TAKE k \in DOMAIN tried
    <3>1. CASE tried[k].kind = "step"
      BY <1>4, <3>1 DEF Behind
    <3>2. CASE tried[k].kind = "rollback"
      <4>1. NextUndone < tried[k].step
        BY <1>1, <2>1, <3>2 DEF UndoInv, Given
      <4>2. tried[k].step > NextUndone
        BY <1>1, <1>2, <4>1, CommandTyping, Indices
      <4> QED BY <1>4, <3>2, <4>2 DEF Behind
    <3> QED BY <1>1, <3>1, <3>2, CommandTyping
  <2>3. c.kind # "step"
    BY <1>4
  <2> QED BY <1>1, <1>3, <2>2, <2>3, PlanContinues DEF GivenInv
<1>9. \A k \in Given("step") : tried[k].step < i
  BY <1>1 DEF GivenInv
<1>10. GivenInv'
  <2>1. \A k \in 1 .. n : tried[k].fate # "open"
    BY <1>1, <1>5 DEF GivenInv
  <2>2. \A k \in DOMAIN tried' : tried'[k].fate = "open" => k = Len(tried') /\ f = "open"
    BY <1>4, <1>5, <1>6, <2>1
  <2>3. tried' # <<>>
    BY <1>5, EmptySeq
  <2>4. UNCHANGED completed_steps => NextUndone' = NextUndone
    BY DEF NextUndone
  <2> QED BY <1>4, <1>5, <1>7, <1>8, <1>9, <2>2, <2>3, <2>4 DEF GivenInv
<1>11. AnsweredInv'
  BY <1>1, <1>7 DEF AnsweredInv, AnsweredIsNotResent
<1>12. CapturedInv'
  <2>1. Captured' = Captured
    BY <1>7 DEF Captured
  <2>2. ConditionsHold'
    BY <1>1, <1>7 DEF CapturedInv, ConditionsHold
  <2> QED BY <1>1, <1>7, <2>1, <2>2 DEF CapturedInv
<1> QED BY <1>5, <1>10, <1>11, <1>12

LEMMA TriedUndo ==
    ASSUME RowInv, TriedInv, SkipUndo \/ RefuseUndo \/ SendUndo
    PROVE  TriedInv'
<1>1. tried \in Seq(Command) /\ UndoInv /\ i \in Nat
  BY Indices DEF RowInv, TriedInv, TypeOK
<1>2. /\ pc = "undo" /\ completed_steps # <<>>
      /\ UNCHANGED <<job, i, attempt, status, outcome>>
  BY DEF SkipUndo, RefuseUndo, SendUndo, Undone, resultVars
<1>3. CASE SkipUndo
  <2>1. tried' = tried /\ Undone /\ pc' = "undo" /\ plan[NextUndone].rollback # "sent"
    BY <1>3 DEF SkipUndo
  <2>2. Captured' = Captured /\ i <= i' /\ i' \in Nat
    BY <1>1, <1>2 DEF Captured, plan
  <2>3. tried' \in Seq(Command) /\ GivenInv' /\ AnsweredInv' /\ CapturedInv'
    BY <1>2, <2>1, <2>2, GivenStays
  <2> QED BY <1>1, <1>2, <2>1, <2>3, UndoPopped DEF TriedInv
<1>4. CASE RefuseUndo
  <2>1. /\ Try("rollback", NextUndone, "refused") /\ Undone /\ pc' = "undo"
        /\ plan[NextUndone].rollback = "sent" /\ "refused" \in Fates
    BY <1>4 DEF RefuseUndo, Fates
  <2>2. tried' \in Seq(Command) /\ GivenInv' /\ AnsweredInv' /\ CapturedInv'
    BY <1>2, <2>1, UndoGiven
  <2> QED BY <1>1, <1>2, <2>1, <2>2, UndoPopped DEF TriedInv
<1>5. CASE SendUndo
  <2>1. /\ Try("rollback", NextUndone, "open") /\ pc' = "undoing" /\ UNCHANGED completed_steps
        /\ plan[NextUndone].rollback = "sent" /\ "open" \in Fates
    BY <1>5 DEF SendUndo, Fates, resultVars
  <2>2. tried' \in Seq(Command) /\ GivenInv' /\ AnsweredInv' /\ CapturedInv'
    BY <1>2, <2>1, UndoGiven
  <2> QED BY <1>1, <1>2, <2>1, <2>2, UndoPopped DEF TriedInv
<1> QED BY <1>3, <1>4, <1>5

LEMMA TriedEndUndo ==
    ASSUME RowInv, TriedInv, EndUndo
    PROVE  TriedInv'
<1> DEFINE n == Len(tried)
<1>1. /\ TypeOK /\ CompletedInv /\ tried \in Seq(Command)
      /\ GivenInv /\ AnsweredInv /\ CapturedInv /\ UndoInv
  BY DEF RowInv, TriedInv
<1>2. /\ pc = "undoing" /\ pc' = "undo" /\ Undone
      /\ UNCHANGED <<job, i, attempt, status, outcome>>
      /\ \E f \in {"answered", "garbled", "left"} : Settle(f)
  BY DEF EndUndo, Undone
<1>3. PICK f \in {"answered", "garbled", "left"} : Settle(f)
  BY <1>2
<1>4. tried # <<>> /\ completed_steps # <<>> /\ tried[n].kind = "rollback"
  BY <1>1, <1>2 DEF GivenInv, CompletedInv
<1>5. /\ tried' \in Seq(Command) /\ n \in Nat \ {0}
      /\ DOMAIN tried = 1 .. n /\ DOMAIN tried' = 1 .. n
      /\ \A k \in 1 .. n :
           /\ tried'[k].kind = tried[k].kind /\ tried'[k].step = tried[k].step
           /\ tried'[k].attempt = tried[k].attempt
           /\ tried'[k].fate = IF k = n THEN f ELSE tried[k].fate
  <2>1. f \in Fates
    BY DEF Fates
  <2> QED BY <1>1, <1>3, <1>4, <2>1, Settled
<1>6. \A k \in 1 .. n : tried[k].fate = "open" => k = n
  BY <1>1, <1>5 DEF GivenInv
<1> HIDE DEF n
<1>7. SameCommands
  <2>1. tried' # <<>>
    BY <1>5, EmptySeq
  <2> QED BY <1>4, <1>5, <2>1 DEF SameCommands
<1>8. plan' = plan /\ Captured' = Captured /\ \A kind : Given(kind)' = Given(kind)
  BY <1>2, <1>7 DEF plan, Captured, Given, SameCommands
<1>9. \A k \in Given("step") : /\ tried'[k].fate = tried[k].fate /\ tried'[k].step = tried[k].step
                               /\ tried'[k].attempt = tried[k].attempt
  BY <1>4, <1>5 DEF Given
<1>10. GivenInv'
  <2>1. HostFollowsThePlan'
    BY <1>1, <1>2, <1>7, PlanKept DEF GivenInv
  <2>2. \A k \in 1 .. n : tried'[k].fate # "open"
    BY <1>5, <1>6
  <2>3. \A k \in Given("step") : tried[k].step < i
    BY <1>1, <1>2 DEF GivenInv
  <2> QED BY <1>2, <1>5, <1>8, <1>9, <2>1, <2>2, <2>3 DEF GivenInv
<1>11. AnsweredInv'
  BY <1>1, <1>2, <1>8, <1>9 DEF AnsweredInv, AnsweredIsNotResent
<1>12. CapturedInv'
  BY <1>1, <1>2, <1>8, <1>9 DEF CapturedInv, ConditionsHold
<1>13. Remaining' = Remaining
  <2> DEFINE m == Len(completed_steps)
  <2>1. /\ m \in Nat \ {0} /\ DOMAIN completed_steps = 1 .. m
        /\ DOMAIN completed_steps' = 1 .. (m - 1)
        /\ \A x \in 1 .. (m - 1) : completed_steps'[x] = completed_steps[x]
    BY <1>1, <1>2, <1>4, CompletedShrinks DEF Ending
  <2>2. {y \in 1 .. m : y < m} = 1 .. (m - 1)
    BY <2>1
  <2>3. Remaining = {completed_steps[x] : x \in 1 .. (m - 1)}
    BY <1>2, <2>1, <2>2 DEF Remaining
  <2>4. Remaining' = {completed_steps'[x] : x \in 1 .. (m - 1)}
    BY <1>2, <2>1 DEF Remaining
  <2> QED BY <2>1, <2>3, <2>4
<1>14. \A k \in Given("rollback") : tried'[k].step = tried[k].step
  BY <1>5 DEF Given
<1>15. UndoInv'
  BY <1>1, <1>2, <1>8, <1>13, <1>14 DEF UndoInv, Ending
<1> QED BY <1>5, <1>10, <1>11, <1>12, <1>15 DEF TriedInv

---------------------------------------------------------------------------
(* The invariant and what it says                                          *)

LEMMA TriedInit == Init => TriedInv
<1> SUFFICES ASSUME Init PROVE TriedInv
  OBVIOUS
<1>1. /\ tried = <<>> /\ pc = "connect" /\ completed_steps = <<>>
      /\ status = [s \in StepIndex |-> "none"]
  BY DEF Init
<1>2. DOMAIN tried = {} /\ (\A kind : Given(kind) = {}) /\ tried \in Seq(Command)
  BY <1>1, EmptySeq DEF Given
<1>3. Captured = {} /\ \A s \in StepIndex : status[s] # "success"
  BY <1>1 DEF Captured
<1>4. HostFollowsThePlan /\ AnsweredIsNotResent /\ ConditionsHold
  BY <1>1, <1>2 DEF HostFollowsThePlan, AnsweredIsNotResent, ConditionsHold
<1> QED BY <1>1, <1>2, <1>3, <1>4 DEF TriedInv, GivenInv, AnsweredInv, CapturedInv, UndoInv

LEMMA TriedStep ==
    ASSUME RowInv, TriedInv, RowGood', [Next]_vars
    PROVE  TriedInv'
BY TriedStays, TriedSend, TriedRefuse, TriedResult, TriedUndo, TriedEndUndo DEF Next, RunStep

StepInv == RowInv /\ TriedInv

LEMMA StepInvHolds == Spec => []StepInv
<1>1. Init => StepInv
  <2> SUFFICES ASSUME Init PROVE StepInv
    OBVIOUS
  <2>1. RowGood /\ TriedInv
    BY RowInit, TriedInit
  <2>2. SharedTypes
    BY DEF Init, SharedTypes, Users
  <2> QED BY <2>1, <2>2, TypeParts DEF StepInv, RowInv, RowGood, TriedInv
<1>2. StepInv /\ [Next]_vars => StepInv'
  <2> SUFFICES ASSUME StepInv, [Next]_vars PROVE StepInv'
    OBVIOUS
  <2>1. RowInv /\ TriedInv /\ TypeOK
    BY DEF StepInv, RowInv
  <2>2. RowGood' /\ SharedTypes'
    BY <2>1, RowStep, SharedStep
  <2>3. TriedInv'
    BY <2>1, <2>2, TriedStep
  <2>4. TypeOK'
    BY <2>2, <2>3 DEF TypeOK, RowGood, RowTypes, SharedTypes, TriedInv, Points, Statuses
  <2> QED BY <2>2, <2>3, <2>4 DEF StepInv, RowInv, RowGood
<1> QED BY <1>1, <1>2, PTL DEF Spec

\* Every variable keeps its type: the loop never leaves the steps of the runbook, no
\* attempt its bound, and no counter passes the number of steps.
THEOREM TypeCorrect == Spec => []TypeOK
<1>1. StepInv => TypeOK
  BY DEF StepInv, RowInv
<1> QED BY <1>1, StepInvHolds, PTL

\* A step that failed without continue_on_fail is the last one the loop touches.
THEOREM FatalFailureEndsTheLoop == Spec => []NothingAfterFatalFailure
<1>1. StepInv => NothingAfterFatalFailure
  BY DEF StepInv, RowInv
<1> QED BY <1>1, StepInvHolds, PTL

\* What the executor is given is the plan: the steps in their order, each with its
\* attempts, then the rollbacks in the reverse order, and nothing in a dry run.
THEOREM ThePlanIsFollowed == Spec => []HostFollowsThePlan
<1>1. StepInv => HostFollowsThePlan
  BY DEF StepInv, TriedInv, GivenInv
<1> QED BY <1>1, StepInvHolds, PTL

\* Whatever the handlers do to the connection, the retries of a command step never
\* repeat what the host has answered.
THEOREM NothingAnsweredTwice == Spec => []AnsweredIsNotResent
<1>1. StepInv => AnsweredIsNotResent
  BY DEF StepInv, TriedInv, AnsweredInv
<1> QED BY <1>1, StepInvHolds, PTL

\* A conditional step is only given after the step it depends on.
THEOREM ConditionsAreKept == Spec => []ConditionsHold
<1>1. StepInv => ConditionsHold
  BY DEF StepInv, TriedInv, CapturedInv
<1> QED BY <1>1, StepInvHolds, PTL

\* The verdict and the counters of a finished run are those of its steps.
THEOREM VerdictIsTrue == Spec => []VerdictMatchesSteps
<1>1. StepInv => VerdictMatchesSteps
  <2> SUFFICES ASSUME StepInv, pc = "done" PROVE VerdictMatchesSteps
    BY DEF VerdictMatchesSteps
  <2>1. TypeOK /\ LoopInv /\ CountInv /\ VerdictInv /\ ~OnStep
    BY DEF StepInv, RowInv, OnStep
  <2>2. \A s \in StepIndex : status[s] # "running"
    BY <2>1 DEF LoopInv
  <2>3. outcome = "success" => \A s \in StepIndex : status[s] \in {"success", "skipped"}
    <3> SUFFICES ASSUME outcome = "success", NEW s \in StepIndex
                 PROVE  status[s] \in {"success", "skipped"}
      OBVIOUS
    <3>1. status[s] # "failed"
      BY <2>1 DEF VerdictInv, CountInv
    <3>2. status[s] # "none"
      <4>1. i = Steps + 1 /\ all_success
        BY <2>1, StepRunnerAssumption DEF VerdictInv
      <4> QED BY <2>1, <4>1, Indices DEF LoopInv, CountInv
    <3> QED BY <2>1, <2>2, <3>1, <3>2 DEF TypeOK
  <2>4. outcome = "failed" => \/ \E s \in StepIndex : status[s] = "failed"
                              \/ \A s \in StepIndex : status[s] = "none"
    <3>1. i = 1 => \A s \in StepIndex : status[s] = "none"
      BY <2>1, Indices DEF LoopInv
    <3> QED BY <2>1, <3>1 DEF VerdictInv, CountInv
  <2>5. /\ steps_completed = Cardinality({s \in StepIndex : status[s] = "success"})
        /\ steps_failed = Cardinality({s \in StepIndex : status[s] = "failed" /\ plan[s].command = "sent"})
    BY <2>1 DEF CountInv, Successes, Failures, Sent
  <2> QED BY <2>2, <2>3, <2>4, <2>5 DEF VerdictMatchesSteps
<1> QED BY <1>1, StepInvHolds, PTL

\* The rollbacks of a failed run are those of its successful steps, all of them.
THEOREM SuccessesAreRolledBack == Spec => []RollsBackItsSuccesses
<1>1. StepInv => RollsBackItsSuccesses
  <2> SUFFICES ASSUME StepInv, pc = "done" PROVE RollsBackItsSuccesses
    BY DEF RollsBackItsSuccesses
  <2>1. TypeOK /\ VerdictInv /\ CompletedInv /\ UndoInv /\ tried \in Seq(Command)
    BY DEF StepInv, RowInv, TriedInv
  <2>2. \A k \in Given("rollback") : tried[k].step \in StepIndex
    BY <2>1, CommandTyping DEF Given
  <2>3. CASE outcome = "failed" /\ ~job.dry_run
    <3>1. Remaining = {}
      BY <2>1, <2>3 DEF VerdictInv, Remaining
    <3>2. {tried[k].step : k \in Given("rollback")} =
              {s \in StepIndex : status[s] = "success" /\ plan[s].rollback = "sent"}
      BY <2>1, <2>2, <3>1 DEF UndoInv
    <3> QED BY <2>3, <3>2 DEF RollsBackItsSuccesses
  <2>4. CASE ~(outcome = "failed" /\ ~job.dry_run)
    <3>1. Given("rollback") = {}
      BY <2>1, <2>4 DEF UndoInv
    <3>2. {tried[k].step : k \in Given("rollback")} = {}
      BY <3>1
    <3> QED BY <2>4, <3>2 DEF RollsBackItsSuccesses
  <2> QED BY <2>3, <2>4
<1> QED BY <1>1, StepInvHolds, PTL

---------------------------------------------------------------------------
(* The run is one of RunbookExecution's                                    *)

\* What the core's worker has of this run.
CoreRow(dry_run, completed, failed) ==
    [status |-> "running", completed_at |-> FALSE, approval_expires_at |-> "none",
     approval_required |-> FALSE, dry_run |-> dry_run, alert_id |-> FALSE,
     steps_completed |-> completed, steps_failed |-> failed]

Succeeded == \E s \in StepIndex : status[s] = "success"

LEMMA OneRow ==
    \A r, q : [<<r>> EXCEPT ![1] = q] = <<q>> /\ <<r>>[1] = r
OBVIOUS

\* The row of a step that succeeds, of one that fails.
Completing(r, x) == [r EXCEPT !.steps_completed = x]
Failing(r, y) == [r EXCEPT !.steps_failed = y]
StillRunning(r, x, y) ==
    [r EXCEPT !.status = "running", !.completed_at = FALSE, !.steps_completed = x,
              !.steps_failed = y]

\* A row with some columns written.
LEMMA CoreWritten ==
    ASSUME NEW r \in Core!Row, NEW x, NEW y
    PROVE  /\ [r EXCEPT !.steps_completed = x] =
                [status |-> r.status, completed_at |-> r.completed_at,
                 approval_expires_at |-> r.approval_expires_at,
                 approval_required |-> r.approval_required, dry_run |-> r.dry_run,
                 alert_id |-> r.alert_id, steps_completed |-> x, steps_failed |-> r.steps_failed]
           /\ [r EXCEPT !.steps_failed = y] =
                [status |-> r.status, completed_at |-> r.completed_at,
                 approval_expires_at |-> r.approval_expires_at,
                 approval_required |-> r.approval_required, dry_run |-> r.dry_run,
                 alert_id |-> r.alert_id, steps_completed |-> r.steps_completed, steps_failed |-> y]
<1>1. [r EXCEPT !.steps_completed = x] =
                [status |-> r.status, completed_at |-> r.completed_at,
                 approval_expires_at |-> r.approval_expires_at,
                 approval_required |-> r.approval_required, dry_run |-> r.dry_run,
                 alert_id |-> r.alert_id, steps_completed |-> x, steps_failed |-> r.steps_failed]
  BY DEF Core!Row, Core!Statuses
<1>2. [r EXCEPT !.steps_failed = y] =
                [status |-> r.status, completed_at |-> r.completed_at,
                 approval_expires_at |-> r.approval_expires_at,
                 approval_required |-> r.approval_required, dry_run |-> r.dry_run,
                 alert_id |-> r.alert_id, steps_completed |-> r.steps_completed, steps_failed |-> y]
  BY DEF Core!Row, Core!Statuses
<1> QED BY <1>1, <1>2

LEMMA CoreOnlyTallies ==
    ASSUME NEW r \in Core!Row, r.status = "running", r.completed_at = FALSE,
           NEW x \in Nat, NEW y \in Nat
    PROVE  StillRunning(r, x, y) = Failing(Completing(r, x), y)
BY DEF StillRunning, Failing, Completing, Core!Row, Core!Statuses

\* What a step makes of the row.
LEMMA CoreCompleted ==
    ASSUME NEW d, d \in BOOLEAN, NEW a \in Nat, NEW b \in Nat, NEW x \in Nat
    PROVE  Completing(CoreRow(d, a, b), x) = CoreRow(d, x, b)
<1> DEFINE r == CoreRow(d, a, b)
<1>1. /\ r \in Core!Row
      /\ r.status = "running" /\ r.completed_at = FALSE /\ r.approval_expires_at = "none"
      /\ r.approval_required = FALSE /\ r.alert_id = FALSE /\ r.dry_run = d
      /\ r.steps_completed = a /\ r.steps_failed = b
  BY DEF CoreRow, Core!Row, Core!Statuses
<1> HIDE DEF r
<1>2. [r EXCEPT !.steps_completed = x] =
                [status |-> r.status, completed_at |-> r.completed_at,
                 approval_expires_at |-> r.approval_expires_at,
                 approval_required |-> r.approval_required, dry_run |-> r.dry_run,
                 alert_id |-> r.alert_id, steps_completed |-> x, steps_failed |-> r.steps_failed]
  BY <1>1, CoreWritten, Zenon
<1>3. [r EXCEPT !.steps_completed = x] = CoreRow(d, x, b)
  BY <1>1, <1>2, Zenon DEF CoreRow
<1> QED BY <1>3, Zenon DEF r, Completing, Failing

LEMMA CoreFailed ==
    ASSUME NEW d, d \in BOOLEAN, NEW a \in Nat, NEW b \in Nat, NEW y \in Nat
    PROVE  Failing(CoreRow(d, a, b), y) = CoreRow(d, a, y)
<1> DEFINE r == CoreRow(d, a, b)
<1>1. /\ r \in Core!Row
      /\ r.status = "running" /\ r.completed_at = FALSE /\ r.approval_expires_at = "none"
      /\ r.approval_required = FALSE /\ r.alert_id = FALSE /\ r.dry_run = d
      /\ r.steps_completed = a /\ r.steps_failed = b
  BY DEF CoreRow, Core!Row, Core!Statuses
<1> HIDE DEF r
<1>2. [r EXCEPT !.steps_failed = y] =
                [status |-> r.status, completed_at |-> r.completed_at,
                 approval_expires_at |-> r.approval_expires_at,
                 approval_required |-> r.approval_required, dry_run |-> r.dry_run,
                 alert_id |-> r.alert_id, steps_completed |-> r.steps_completed, steps_failed |-> y]
  BY <1>1, CoreWritten, Zenon
<1>3. [r EXCEPT !.steps_failed = y] = CoreRow(d, a, y)
  BY <1>1, <1>2, Zenon DEF CoreRow
<1> QED BY <1>3, Zenon DEF r, Completing, Failing

\* A commit of the core's worker writes its object over the same row.
LEMMA CoreFlush ==
    ASSUME NEW d, d \in BOOLEAN, NEW a \in Nat, NEW b \in Nat, NEW x \in Nat, NEW y \in Nat
    PROVE  Core!Flush(CoreRow(d, a, b), CoreRow(d, a, b), CoreRow(d, x, y)) = CoreRow(d, x, y)
<1> DEFINE r == CoreRow(d, a, b)
           q == CoreRow(d, x, y)
<1>1. /\ r \in Core!Row
      /\ r.status = "running" /\ r.completed_at = FALSE
      /\ r.steps_completed = a /\ r.steps_failed = b
  BY DEF CoreRow, Core!Row, Core!Statuses
<1>2. /\ q.status = "running" /\ q.completed_at = FALSE
      /\ q.steps_completed = x /\ q.steps_failed = y
  BY DEF CoreRow
<1>3. Failing(Completing(r, x), y) = q
  <2>1. Completing(r, x) = CoreRow(d, x, b)
    BY CoreCompleted
  <2>2. Failing(CoreRow(d, x, b), y) = q
    BY CoreFailed
  <2> QED BY <2>1, <2>2, Zenon
<1> HIDE DEF r, q
<1>4. /\ Core!Column(r.status, r.status, q.status) = "running"
      /\ Core!Column(r.completed_at, r.completed_at, q.completed_at) = FALSE
      /\ Core!Column(r.steps_completed, r.steps_completed, q.steps_completed) = x
      /\ Core!Column(r.steps_failed, r.steps_failed, q.steps_failed) = y
  BY <1>1, <1>2 DEF Core!Column
<1>5. Core!Flush(r, r, q) = StillRunning(r, x, y)
  BY <1>4 DEF Core!Flush, StillRunning
<1>6. Core!Flush(r, r, q) = Failing(Completing(r, x), y)
  BY <1>1, <1>5, CoreOnlyTallies
<1> QED BY <1>3, <1>6, Zenon DEF r, q

LEMMA CoreKept ==
    ASSUME UNCHANGED <<job, i, steps_completed, steps_failed, all_success, outcome, corePc>>,
           Succeeded' <=> Succeeded
    PROVE  UNCHANGED Core!vars
BY DEF Core!vars, Core!dbVars, Core!workerVars, Core!runVars, Core!historyVars, coreRow, Succeeded

LEMMA CoreSaves ==
    ASSUME TypeOK, NEW x \in Nat, NEW y \in Nat, coreRow' = CoreRow(job.dry_run, x, y)
    PROVE  Core!Save(1, CoreRow(job.dry_run, x, y))
<1>1. coreRow = CoreRow(job.dry_run, steps_completed, steps_failed)
  BY DEF coreRow, CoreRow
<1>2. job.dry_run \in BOOLEAN /\ steps_completed \in Nat /\ steps_failed \in Nat
  BY PlanTyping, Indices DEF TypeOK
<1>3. Core!Flush(coreRow, coreRow, CoreRow(job.dry_run, x, y)) = CoreRow(job.dry_run, x, y)
  BY <1>1, <1>2, CoreFlush
<1> QED BY <1>3, OneRow DEF Core!Save

\* The names of the run's points in the core.
LEMMA CorePoints ==
    /\ pc \in {"connect", "step", "closing", "left"} => corePc = "step"
    /\ pc \in {"attempt", "waiting"} => corePc = "command"
    /\ pc \in {"undo", "undoing"} => corePc = "rollback"
    /\ pc = "done" => corePc = "verdict"
BY DEF corePc

LEMMA CorePointsNext ==
    /\ pc' \in {"connect", "step", "closing", "left"} => corePc' = "step"
    /\ pc' \in {"attempt", "waiting"} => corePc' = "command"
    /\ pc' \in {"undo", "undoing"} => corePc' = "rollback"
    /\ pc' = "done" => corePc' = "verdict"
BY DEF corePc

\* completed_steps of the core says that some step has succeeded.
LEMMA SomethingToUndo ==
    ASSUME RowInv, ~Ending
    PROVE  completed_steps # <<>> <=> Succeeded
<1>1. completed_steps \in Seq(StepIndex)
  BY DEF RowInv, TypeOK
<1>2. ASSUME completed_steps # <<>> PROVE Succeeded
  <2>1. 1 \in DOMAIN completed_steps /\ completed_steps[1] \in StepIndex
    BY <1>1, <1>2, EmptySeq, ElementOfSeq
  <2> QED BY <2>1 DEF RowInv, CompletedInv, Succeeded
<1>3. ASSUME completed_steps = <<>>, Succeeded PROVE FALSE
  <2>1. PICK s \in StepIndex : status[s] = "success"
    BY <1>3 DEF Succeeded
  <2>2. PICK x \in DOMAIN completed_steps : completed_steps[x] = s
    BY <2>1 DEF RowInv, CompletedInv
  <2>3. DOMAIN completed_steps = {}
    BY <1>3
  <2> QED BY <2>2, <2>3
<1> QED BY <1>2, <1>3

\* A step that is over without success changes nothing in that.
LEMMA SucceededKept ==
    ASSUME RowInv, i \in StepIndex, NEW v, v # "success",
           status' = [status EXCEPT ![i] = v]
    PROVE  Succeeded' <=> Succeeded
<1>1. status[i] # "success"
  BY Indices DEF RowInv, LoopInv
<1>2. status'[i] = v /\ \A s \in StepIndex : s # i => status'[s] = status[s]
  BY StatusSet DEF RowInv
<1> QED BY <1>1, <1>2 DEF Succeeded

LEMMA CoreSkips ==
    ASSUME RowInv, SkipStep
    PROVE  Core!SkipStep
<1>1. i \in StepIndex /\ corePc = "step" /\ corePc' = "step"
  BY Indices, CorePoints, CorePointsNext DEF SkipStep, RowInv, TypeOK
<1>2. Succeeded' <=> Succeeded
  BY <1>1, SucceededKept DEF SkipStep
<1> QED BY <1>1, <1>2 DEF SkipStep, StepIndex, Core!SkipStep, Core!dbVars, Core!historyVars,
                          coreRow, Succeeded

LEMMA CoreCannotRender ==
    ASSUME RowInv, RenderingFails
    PROVE  \E b \in BOOLEAN : Core!RenderingFails(b)
<1>1. i \in StepIndex /\ corePc = "step" /\ corePc' = "step"
  BY Indices, CorePoints, CorePointsNext DEF RenderingFails, RowInv, TypeOK
<1>2. Succeeded' <=> Succeeded
  BY <1>1, SucceededKept DEF RenderingFails
<1>3. plan[i].continue_on_fail \in BOOLEAN
  BY <1>1, PlanTyping DEF RowInv
<1>4. Core!RenderingFails(plan[i].continue_on_fail)
  BY <1>1, <1>2, <1>3 DEF RenderingFails, AfterFailure, StepIndex, Core!RenderingFails,
     Core!dbVars, Core!historyVars, coreRow, Succeeded
<1> QED BY <1>3, <1>4

LEMMA CoreBegins ==
    ASSUME RowInv, BeginStep
    PROVE  Core!IssueCommand
<1>1. i \in StepIndex /\ corePc = "step" /\ corePc' = "command"
  BY Indices, CorePoints, CorePointsNext DEF BeginStep, RowInv, TypeOK
<1>2. Succeeded' <=> Succeeded
  BY <1>1, SucceededKept DEF BeginStep
<1> QED BY <1>1, <1>2 DEF BeginStep, StepIndex, Core!IssueCommand, Core!dbVars,
                          Core!historyVars, Core!runVars, coreRow, Succeeded

\* The end of an attempt is the end of the core's command, or another attempt, which
\* the core does not know.
LEMMA CoreAttempts ==
    ASSUME RowInv, AttemptEnds
    PROVE  \/ UNCHANGED Core!vars
           \/ Core!StepSucceeds
           \/ \E b \in BOOLEAN : Core!StepFails(b)
<1>1. /\ OnStep /\ UNCHANGED <<job, outcome>> /\ i \in StepIndex /\ TypeOK
      /\ corePc = "command"
  <2>1. OnStep /\ UNCHANGED <<job, outcome>>
    BY HowAttemptsEnd
  <2> QED BY <2>1, Indices, CorePoints DEF RowInv, LoopInv, TypeOK, OnStep
<1>2. CASE Again
  <2>1. corePc' = "command"
    BY <1>2, CorePointsNext DEF Again
  <2>2. Succeeded' <=> Succeeded
    BY <1>2 DEF Again, resultVars, Succeeded
  <2>3. UNCHANGED Core!vars
    BY <1>1, <1>2, <2>1, <2>2, CoreKept DEF Again, resultVars
  <2> QED BY <2>3
<1>3. CASE \E e \in BOOLEAN : Over(e)
  <2> DEFINE d == job.dry_run
             a == steps_completed
             b == steps_failed
  <2>1. d \in BOOLEAN /\ a \in Nat /\ b \in Nat /\ a + 1 \in Nat /\ b + 1 \in Nat
    BY <1>1, PlanTyping, Indices DEF TypeOK
  <2>2. coreRow = CoreRow(d, a, b)
    BY DEF coreRow, CoreRow
  <2>3. coreRow.steps_completed = a /\ coreRow.steps_failed = b
    BY DEF coreRow
  <2>4. PICK e \in BOOLEAN : Over(e)
    BY <1>3
  <2>5. corePc' = "step"
    BY <2>4, CorePointsNext DEF Over
  <2>6. coreRow' = CoreRow(d, steps_completed', steps_failed')
    BY <1>1 DEF coreRow, CoreRow
  <2>7. CASE e
    <3>1. Succeeded' /\ i' = i + 1 /\ all_success' = all_success
      <4>1. status'[i] = "success"
        BY <1>1, <2>4, <2>7, StatusSet DEF Over, EndStep
      <4>2. i' = i + 1
        BY <2>4, <2>7 DEF Over, EndStep
      <4>3. all_success' = all_success
        BY <1>1, <2>4, <2>7, ZenonT(30) DEF Over, EndStep, TypeOK
      <4> QED BY <1>1, <4>1, <4>2, <4>3 DEF Succeeded
    <3>2. steps_completed' = a + 1 /\ steps_failed' = b
      BY <2>4, <2>7 DEF Over, EndStep
    <3>3. Core!Save(1, CoreRow(d, a + 1, b))
      BY <1>1, <2>1, <2>6, <3>2, CoreSaves
    <3>4. Completing(coreRow, coreRow.steps_completed + 1) = CoreRow(d, a + 1, b)
      BY <2>1, <2>2, <2>3, CoreCompleted
    <3> HIDE DEF d, a, b
    <3>5. Core!Save(1, Completing(<<coreRow>>[1], <<coreRow>>[1].steps_completed + 1))
      BY <3>3, <3>4, OneRow, Zenon
    <3> QED BY <1>1, <2>5, <3>1, <3>5 DEF Core!StepSucceeds, Core!historyVars, Completing, Succeeded
  <2>8. CASE ~e
    <3>1. Succeeded' <=> Succeeded
      BY <1>1, <2>4, <2>8, SucceededKept DEF Over, EndStep
    <3>2. steps_completed' = a /\ steps_failed' = b + 1 /\ i' = AfterFailure(i)
      BY <2>4, <2>8 DEF Over, EndStep
    <3>3. all_success' = FALSE
      BY <2>4, <2>8, ZenonT(30) DEF Over, EndStep
    <3>4. Core!Save(1, CoreRow(d, a, b + 1))
      BY <1>1, <2>1, <2>6, <3>2, CoreSaves
    <3>5. Failing(coreRow, coreRow.steps_failed + 1) = CoreRow(d, a, b + 1)
      BY <2>1, <2>2, <2>3, CoreFailed
    <3>6. plan[i].continue_on_fail \in BOOLEAN
      BY <1>1, PlanTyping
    <3> HIDE DEF d, a, b
    <3>7. Core!Save(1, Failing(<<coreRow>>[1], <<coreRow>>[1].steps_failed + 1))
      BY <3>4, <3>5, OneRow, Zenon
    <3>8. Core!StepFails(plan[i].continue_on_fail)
      BY <1>1, <2>5, <3>1, <3>2, <3>3, <3>6, <3>7
         DEF Core!StepFails, Core!historyVars, Failing, AfterFailure, Succeeded
    <3> QED BY <3>6, <3>8
  <2> QED BY <2>7, <2>8
<1> QED BY <1>2, <1>3, HowAttemptsEnd

\* The last step, with or without something to undo, and a connection that failed.
LEMMA CoreEnds ==
    ASSUME RowInv, EndOfSteps \/ StartRollback \/ EndRollback \/ ConnectFails
    PROVE  Core!EndOfSteps \/ Core!StartRollback \/ Core!EndRollback \/ Core!RunRaises
<1>1. UNCHANGED <<job, coreRow, i, all_success, status>> /\ (Succeeded' <=> Succeeded)
  BY DEF EndOfSteps, StartRollback, EndRollback, ConnectFails, resultVars, coreRow, Succeeded
<1>2. <<coreRow>>[1].dry_run = job.dry_run
  BY OneRow DEF coreRow
<1>3. CASE EndOfSteps
  <2>1. i = Steps + 1 /\ ~Ending
    BY <1>3 DEF EndOfSteps, RowInv, LoopInv, AfterLoop, Ending
  <2>2. all_success \/ ~(Succeeded /\ ~<<coreRow>>[1].dry_run)
    BY <1>2, <1>3, <2>1, SomethingToUndo DEF EndOfSteps, RollsBack
  <2>3. corePc = "step" /\ corePc' = "verdict" /\ outcome' = (IF all_success THEN "success" ELSE "failed")
    BY <1>3, CorePoints, CorePointsNext DEF EndOfSteps
  <2> QED BY <1>1, <2>1, <2>2, <2>3
          DEF Core!EndOfSteps, Core!CanRollBack, Core!Conclude, Core!dbVars, Core!historyVars, Succeeded
<1>4. CASE StartRollback
  <2>1. i = Steps + 1 /\ ~Ending
    BY <1>4 DEF StartRollback, RowInv, LoopInv, AfterLoop, Ending
  <2>2. ~all_success /\ Succeeded /\ ~<<coreRow>>[1].dry_run
    BY <1>2, <1>4, <2>1, SomethingToUndo DEF StartRollback, RollsBack
  <2>3. corePc = "step" /\ corePc' = "rollback" /\ outcome' = "failed"
    BY <1>4, CorePoints, CorePointsNext DEF StartRollback
  <2> QED BY <1>1, <2>1, <2>2, <2>3
          DEF Core!StartRollback, Core!CanRollBack, Core!dbVars, Core!historyVars, Succeeded
<1>5. CASE EndRollback
  <2>1. outcome = "failed" /\ outcome' = "failed"
    BY <1>5 DEF EndRollback, RowInv, VerdictInv, Ending
  <2>2. corePc = "rollback" /\ corePc' = "verdict"
    BY <1>5, CorePoints, CorePointsNext DEF EndRollback
  <2> QED BY <1>1, <2>1, <2>2
          DEF Core!EndRollback, Core!Conclude, Core!dbVars, Core!historyVars, Succeeded
<1>6. CASE ConnectFails
  <2>1. corePc = "step" /\ corePc' = "verdict" /\ outcome' = "failed"
    BY <1>6, CorePoints, CorePointsNext DEF ConnectFails
  <2> QED BY <1>1, <2>1
          DEF Core!RunRaises, Core!Conclude, Core!dbVars, Core!historyVars, Succeeded
<1> QED BY <1>3, <1>4, <1>5, <1>6

\* Connections, attempts, single rollbacks and the handlers are below the core.
Below ==
    \/ Connect \/ Send \/ LeaveExecutor \/ ExecutorLeft
    \/ SkipUndo \/ RefuseUndo \/ SendUndo \/ EndUndo
    \/ TesterStep

LEMMA CoreRests ==
    ASSUME RowInv, Below \/ UNCHANGED vars
    PROVE  UNCHANGED Core!vars
<1>1. UNCHANGED <<job, i, status, steps_completed, steps_failed, all_success, outcome>>
  BY DEF Below, Connect, Send, LeaveExecutor, ExecutorLeft, SkipUndo, RefuseUndo, SendUndo,
         EndUndo, Undone, TesterStep, resultVars, vars
<1>2. corePc' = corePc
  <2>1. UNCHANGED pc => corePc' = corePc
    BY DEF corePc
  <2>2. CASE Connect \/ LeaveExecutor \/ ExecutorLeft
    BY <2>2, CorePoints, CorePointsNext DEF Connect, LeaveExecutor, ExecutorLeft
  <2>3. CASE Send
    BY <2>3, CorePoints, CorePointsNext DEF Send
  <2>4. CASE SendUndo \/ EndUndo
    BY <2>4, CorePoints, CorePointsNext DEF SendUndo, EndUndo
  <2>5. CASE SkipUndo \/ RefuseUndo \/ TesterStep \/ UNCHANGED vars
    BY <2>1, <2>5 DEF SkipUndo, RefuseUndo, TesterStep, vars
  <2> QED BY <2>2, <2>3, <2>4, <2>5 DEF Below
<1>3. Succeeded' <=> Succeeded
  BY <1>1 DEF Succeeded
<1> QED BY <1>1, <1>2, <1>3, CoreKept

\* Whatever the executor, its retries and the handlers that share it do, the core's
\* worker is right about the run: each step of it is a step of the worker, or none.
THEOREM ImplementsCore == Spec => RefinesCore
<1>1. StepInv /\ [Next]_vars => [Core!WorkerStep]_(Core!vars)
  <2> SUFFICES ASSUME StepInv, [Next]_vars
               PROVE  Core!WorkerStep \/ UNCHANGED Core!vars
    OBVIOUS
  <2>1. RowInv
    BY DEF StepInv
  <2>2. CASE SkipStep \/ RenderingFails \/ BeginStep
    BY <2>1, <2>2, CoreSkips, CoreCannotRender, CoreBegins DEF Core!WorkerStep
  <2>3. CASE AttemptEnds
    BY <2>1, <2>3, CoreAttempts DEF Core!WorkerStep
  <2>4. CASE EndOfSteps \/ StartRollback \/ EndRollback \/ ConnectFails
    BY <2>1, <2>4, CoreEnds DEF Core!WorkerStep
  <2>5. CASE Below \/ UNCHANGED vars
    BY <2>1, <2>5, CoreRests
  <2> QED BY <2>2, <2>3, <2>4, <2>5 DEF Next, RunStep, AttemptEnds, Below
<1> QED BY <1>1, StepInvHolds, PTL DEF Spec, RefinesCore

=============================================================================
