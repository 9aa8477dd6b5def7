------------------------- MODULE AgentSessionProofs -------------------------
(***************************************************************************)
(* Theorems about AgentSession, for any number of connections, steps and   *)
(* requests: types, the entry of the running agent, the count of steps,    *)
(* the record of a command, consent, and that a stop holds.                *)
(***************************************************************************)
EXTENDS AgentSession, SequenceTheorems, TLAPS

Commanding == {"shown", "asking", "waiting", "starting", "running", "reported"}

Questioning == {"asked", "question"}

\* The step an agent is busy with is its own, and of the kind its place says.
PhaseOK ==
    \A c \in Conns :
        /\ pc[c] \in Commanding \cup Questioning =>
             current[c] \in DOMAIN steps /\ steps[current[c]].by = c
        /\ pc[c] \in Commanding => steps[current[c]].step_type = "command"
        /\ pc[c] \in Questioning => steps[current[c]].step_type = "question"

TypeInv == TypeOK /\ PhaseOK

\* Without an overlap one agent at most is at work, and the session's entry is its own.
\* Those that a stop saw are on their way out.
AloneInv ==
    /\ ~overlap => \A c, d \in Conns : Busy(c) /\ Busy(d) => c = d
    /\ StopFindsTheAgent
    /\ \A c \in stopSaw : Busy(c) /\ (pc[c] \in Running => overlap)

\* Without an overlap what an agent holds while the model thinks is what the row says,
\* but for a stop, and the number is below the maximum.
RowInv ==
    /\ ~overlap => \A c \in Conns : pc[c] = "llm" =>
         /\ loaded[c].number = session.current_step_number
         /\ session.status \in {loaded[c].status, "stopped"}
         /\ session.current_step_number < session.max_steps
    /\ CountedOnce
    /\ LoopClosesTheRow

\* A step nobody but POST reject has decided.
Undecided(step) == step.status = "pending" \/ (step.status = "rejected" /\ step.restRejected)

Ended(c) == pc[c] \in {"closing", "cut", "off"}

\* What the record of a command can be, wherever its agent is: not run before "running",
\* open there only or when the agent ended there.
FateInv ==
    /\ \A c \in Conns : pc[c] \in {"shown", "asking", "waiting", "starting"} =>
         steps[current[c]].ran = "no" /\ Undecided(steps[current[c]])
    /\ \A k \in DOMAIN steps : steps[k].step_type = "command" =>
         /\ pc[steps[k].by] \notin {"new", "accepted"}
         /\ steps[k].ran = "open" =>
              /\ Undecided(steps[k])
              /\ Ended(steps[k].by) \/ (pc[steps[k].by] = "running" /\ k = current[steps[k].by])
         /\ steps[k].status = "pending" => steps[k].ran \in {"no", "open"}
    /\ RecordTellsFate

\* As long as no wait was ended by a stray message, an approval or an answer that has
\* come is for the step the agent waits with, and what runs was granted.
ConsentInv ==
    /\ ~astray => \A c \in Conns :
         /\ pc[c] = "waiting" /\ event[c] /\ ~stop_requested[c] /\ approved[c] =>
              steps[current[c]].granted
         /\ pc[c] = "question" /\ event[c] /\ ~stop_requested[c] => answer[c] = current[c]
         /\ pc[c] \in {"starting", "running"} => steps[current[c]].granted \/ session.auto_approve
    /\ ConsentUnlessAstray

---------------------------------------------------------------------------
(* What the steps do, variable by variable                                 *)

Row == [status : Status, current_step_number : Nat, max_steps : 1 .. MaxSteps,
        auto_approve : BOOLEAN]

Held == [status : Status \cup {"expired"}, number : Nat]

Place == Running \cup {"new", "accepted", "closing", "cut", "off"}

\* Only the connection moves, to one of the places.
Moves(c, places) ==
    /\ pc' \in [Conns -> Place]
    /\ pc'[c] \in places
    /\ \A d \in Conns \ {c} : pc'[d] = pc[d]

\* Only the object of the connection changes.
Reloads(c) ==
    /\ loaded' \in [Conns -> Held]
    /\ \A d \in Conns \ {c} : loaded'[d] = loaded[d]

\* The row keeps what is not its status.
KeepsRow(row) ==
    /\ row \in Row
    /\ row.current_step_number = session.current_step_number
    /\ row.max_steps = session.max_steps
    /\ row.auto_approve = session.auto_approve

\* One step changes.
Edits(k, step) ==
    /\ steps' \in Seq(Step) /\ Len(steps') = Len(steps) /\ DOMAIN steps' = DOMAIN steps
    /\ steps'[k] = step
    /\ \A l \in DOMAIN steps : l # k => steps'[l] = steps[l]

\* The agent of the connection adds a step and is at it.
Adds(c, step) ==
    /\ steps' \in Seq(Step)
    /\ DOMAIN steps' = DOMAIN steps \cup {Len(steps) + 1} /\ Len(steps) + 1 \notin DOMAIN steps
    /\ steps'[Len(steps) + 1] = step
    /\ \A l \in DOMAIN steps : steps'[l] = steps[l]
    /\ current' \in [Conns -> 0 .. Len(steps')]
    /\ current'[c] = Len(steps) + 1 /\ \A d \in Conns \ {c} : current'[d] = current[d]

LEMMA StepsDomain ==
    ASSUME TypeOK
    PROVE  /\ Len(steps) \in Nat /\ DOMAIN steps = 1 .. Len(steps)
           /\ \A k \in DOMAIN steps : steps[k] \in Step
BY ElementOfSeq, LenProperties DEF TypeOK

LEMMA Edited ==
    ASSUME TypeOK, NEW k \in DOMAIN steps, NEW step \in Step, steps' = [steps EXCEPT ![k] = step]
    PROVE  Edits(k, step)
BY ExceptSeq, LenProperties DEF Edits, TypeOK

LEMMA Added ==
    ASSUME TypeOK, NEW c \in Conns, NEW step \in Step, steps' = Append(steps, step),
           current' = [current EXCEPT ![c] = Len(steps) + 1]
    PROVE  Adds(c, step)
<1>1. /\ steps' \in Seq(Step) /\ Len(steps') = Len(steps) + 1
      /\ steps'[Len(steps) + 1] = step /\ \A l \in 1 .. Len(steps) : steps'[l] = steps[l]
  BY AppendProperties DEF TypeOK
<1>2. Len(steps) \in Nat /\ DOMAIN steps = 1 .. Len(steps) /\ DOMAIN steps' = 1 .. Len(steps')
  BY <1>1, LenProperties DEF TypeOK
<1>3. current' \in [Conns -> 0 .. Len(steps')]
  BY <1>1, <1>2 DEF TypeOK
<1>4. current'[c] = Len(steps) + 1 /\ \A d \in Conns \ {c} : current'[d] = current[d]
  BY DEF TypeOK
<1>5. DOMAIN steps' = DOMAIN steps \cup {Len(steps) + 1} /\ Len(steps) + 1 \notin DOMAIN steps
  BY <1>1, <1>2
<1> QED BY <1>1, <1>2, <1>3, <1>4, <1>5 DEF Adds

LEMMA ExpireReloads ==
    ASSUME TypeOK, NEW c \in Conns, Expire(c)
    PROVE  Reloads(c)
BY DEF Expire, Expired, Reloads, Held, TypeOK

LEMMA GoToMoves ==
    ASSUME TypeOK, NEW c \in Conns, NEW next \in Running, NEW sent \in BOOLEAN, GoTo(c, next, sent)
    PROVE  Moves(c, {next, "cut"}) /\ pc'[c] = IF sent THEN next ELSE "cut"
BY DEF GoTo, Moves, Place, TypeOK

LEMMA SendMoves ==
    ASSUME TypeOK, NEW c \in Conns, NEW next \in Running, SendAndGoTo(c, next)
    PROVE  Moves(c, {next, "cut"})
BY GoToMoves DEF SendAndGoTo

\* A change of status keeps the rest of the row.
LEMMA StatusKeeps ==
    ASSUME TypeOK, NEW status \in Status
    PROVE  /\ KeepsRow([session EXCEPT !.status = status])
           /\ [session EXCEPT !.status = status].status = status
           /\ \A c \in Conns : KeepsRow(SetStatus(c, status))
BY DEF KeepsRow, Row, SetStatus, TypeOK

LEMMA RowKept ==
    ASSUME TypeOK
    PROVE  KeepsRow(session) /\ Refreshed(session) \in Held
BY DEF KeepsRow, Row, Refreshed, Held, TypeOK

\* Leaving the loop, with the row as it was or failed for the maximum.
LEMMA LeaveEffect ==
    ASSUME TypeOK, NEW c \in Conns, NEW seen, NEW row, KeepsRow(row), NEW where \in {"closing", "cut"},
           Leave(c, seen, row, where)
    PROVE  /\ KeepsRow(session') /\ Moves(c, {where}) /\ Reloads(c)
           /\ session'.status \in {row.status, "failed"}
           /\ row.status \in Final => session'.status \in Final
           /\ seen.number >= row.max_steps /\ seen.status = row.status => session'.status \in Final
<1>1. Reloads(c)
  BY ExpireReloads DEF Leave
<1>2. Moves(c, {where})
  BY DEF Leave, Moves, Place, TypeOK
<1>3. KeepsRow(session') /\ session'.status \in {row.status, "failed"}
  BY DEF Leave, KeepsRow, Row, Status, Final
<1>4. /\ row.status \in Final => session'.status \in Final
      /\ seen.number >= row.max_steps /\ seen.status = row.status => session'.status \in Final
  BY DEF Leave, KeepsRow, Row, Final
<1> QED BY <1>1, <1>2, <1>3, <1>4

\* The head of the loop leads to the model with the row read again, or out of it.
LEMMA AskEffect ==
    ASSUME TypeOK, NEW c \in Conns, RefreshAndAsk(c)
    PROVE  /\ KeepsRow(session') /\ Moves(c, {"llm", "closing"}) /\ Reloads(c)
           /\ pc'[c] = "llm" => loaded'[c] = Refreshed(session) /\ UNCHANGED session
           /\ pc'[c] = "closing" => session'.status \in Final
<1>1. CASE session.status = "stopped"
  <2>1. Leave(c, Refreshed(session), session, "closing")
    BY <1>1 DEF RefreshAndAsk
  <2>2. KeepsRow(session) /\ session.status \in Final
    BY <1>1 DEF KeepsRow, Row, Final, TypeOK
  <2>3. /\ KeepsRow(session') /\ Moves(c, {"closing"}) /\ Reloads(c)
        /\ session'.status \in Final
    BY <2>1, <2>2, LeaveEffect
  <2> QED BY <2>3 DEF Moves
<1>2. CASE session.status # "stopped"
  <2>1. KeepsRow(session') /\ UNCHANGED session
    BY <1>2, RowKept DEF RefreshAndAsk
  <2>2. Moves(c, {"llm"})
    BY <1>2 DEF RefreshAndAsk, Moves, Place, Running, TypeOK
  <2>3. Reloads(c) /\ loaded'[c] = Refreshed(session)
    BY <1>2, RowKept DEF RefreshAndAsk, Reloads, Held, TypeOK
  <2> QED BY <2>1, <2>2, <2>3 DEF Moves
<1> QED BY <1>1, <1>2

LEMMA LoopHeadEffect ==
    ASSUME TypeOK, NEW c \in Conns, LoopHead(c)
    PROVE  /\ KeepsRow(session') /\ Moves(c, {"llm", "closing", "cut"}) /\ Reloads(c)
           /\ pc'[c] = "llm" => /\ loaded'[c] = Refreshed(session) /\ UNCHANGED session
                               /\ session.current_step_number < session.max_steps
           /\ pc'[c] = "closing" => session'.status \in Final
<1>1. CASE session.current_step_number < session.max_steps /\ ~stop_requested[c]
  BY <1>1, AskEffect DEF LoopHead, Moves
<1>2. CASE ~(session.current_step_number < session.max_steps /\ ~stop_requested[c])
  <2>1. Leave(c, Refreshed(session), session, ExitBy(c))
    BY <1>2 DEF LoopHead
  <2>2. KeepsRow(session) /\ ExitBy(c) \in {"closing", "cut"}
    BY DEF ExitBy, KeepsRow, Row, TypeOK
  <2>3. /\ KeepsRow(session') /\ Moves(c, {ExitBy(c)}) /\ Reloads(c)
        /\ Refreshed(session).number >= session.max_steps => session'.status \in Final
    BY <2>1, <2>2, LeaveEffect DEF Refreshed
  <2>4. ExitBy(c) = "closing" => Refreshed(session).number >= session.max_steps
    BY <1>2 DEF ExitBy, Refreshed, TypeOK
  <2> QED BY <2>2, <2>3, <2>4 DEF Moves
<1> QED BY <1>1, <1>2

---------------------------------------------------------------------------
(* Type correctness                                                        *)

\* What the actions of an agent leave alone.
LEMMA AgentFrame ==
    ASSUME NEW c \in Conns, AgentStep(c)
    PROVE  UNCHANGED <<agent_tasks, approved, answer, stop_requested, requests, histVars>>
BY DEF AgentStep, agentFrame, flagVars, histVars, CannotOpen, Open, EnterLoop, LLMError, NoAction,
       Ask, Propose, Conclude, AwaitApproval, Wait, StopWaiting, Answered, Skip, Execute, Run,
       Resume, Finish

\* Actions of an agent that touch no step.
Quiet(c) ==
    \/ CannotOpen(c) \/ Open(c) \/ EnterLoop(c) \/ LLMError(c) \/ NoAction(c)
    \/ AwaitApproval(c) \/ Wait(c) \/ StopWaiting(c) \/ Execute(c) \/ Resume(c)

LEMMA QuietEffect ==
    ASSUME TypeInv, NEW c \in Conns, Quiet(c)
    PROVE  /\ KeepsRow(session') /\ Reloads(c) /\ UNCHANGED <<steps, current>>
           /\ event' \in [Conns -> BOOLEAN] /\ \A d \in Conns \ {c} : event'[d] = event[d]
           /\ Moves(c, Running \cup {"closing", "cut"}) /\ pc[c] \in Running
           /\ pc'[c] \in Commanding => pc[c] \in Commanding
           /\ pc'[c] \in Questioning => pc[c] \in Questioning
<1> USE DEF TypeInv
<1>0. /\ UNCHANGED event => event' \in [Conns -> BOOLEAN]
      /\ UNCHANGED loaded => Reloads(c)
  BY DEF TypeOK, Reloads, Held
<1>1. CASE CannotOpen(c)
  <2>1. Moves(c, {"cut"})
    BY <1>1 DEF CannotOpen, Moves, Place, TypeOK
  <2> QED BY <1>0, <1>1, <2>1, RowKept DEF CannotOpen, agentFrame, rowVars, flagVars, Moves, Running, Commanding, Questioning
<1>2. CASE Open(c)
  <2>1. Moves(c, {"resumed", "cut"})
    BY <1>2, SendMoves DEF Open, Running
  <2>2. KeepsRow(session')
    BY <1>2, StatusKeeps DEF Open, Status
  <2> QED BY <1>0, <1>2, <2>1, <2>2, ExpireReloads DEF Open, agentFrame, flagVars, Moves, Running, Commanding, Questioning
<1>3. CASE EnterLoop(c)
  <2>1. KeepsRow(session') /\ Moves(c, {"llm", "closing", "cut"}) /\ Reloads(c)
    BY <1>3, LoopHeadEffect DEF EnterLoop
  <2> QED BY <1>0, <1>3, <2>1 DEF EnterLoop, agentFrame, flagVars, Moves, Running, Commanding, Questioning
<1>4. CASE LLMError(c)
  <2>1. KeepsRow(session') /\ Moves(c, {"cut"}) /\ Reloads(c)
    BY <1>4, LeaveEffect, RowKept DEF LLMError
  <2> QED BY <1>0, <1>4, <2>1 DEF LLMError, agentFrame, flagVars, Moves, Running, Commanding, Questioning
<1>5. CASE NoAction(c)
  <2>1. KeepsRow(session') /\ Moves(c, {"llm", "closing", "cut"}) /\ Reloads(c)
    <3>1. CASE loaded[c].number < session.max_steps /\ ~stop_requested[c]
      BY <1>5, <3>1, AskEffect DEF NoAction, Moves
    <3>2. CASE ~(loaded[c].number < session.max_steps /\ ~stop_requested[c])
      <4>1. ExitBy(c) \in {"closing", "cut"} /\ KeepsRow(session)
        BY RowKept DEF ExitBy
      <4>2. KeepsRow(session') /\ Moves(c, {ExitBy(c)}) /\ Reloads(c)
        BY <1>5, <3>2, <4>1, LeaveEffect DEF NoAction
      <4> QED BY <4>1, <4>2 DEF Moves
    <3> QED BY <3>1, <3>2
  <2> QED BY <1>0, <1>5, <2>1 DEF NoAction, agentFrame, flagVars, Moves, Running, Commanding, Questioning
<1>6. CASE AwaitApproval(c)
  <2>1. Moves(c, {"starting", "asking", "cut"})
    BY <1>6, SendMoves DEF AwaitApproval, Running, Moves
  <2>2. KeepsRow(session')
    BY <1>6, StatusKeeps DEF AwaitApproval, Status
  <2> QED BY <1>0, <1>6, <2>1, <2>2, ExpireReloads DEF AwaitApproval, agentFrame, flagVars, Moves, Running, Commanding, Questioning
<1>7. CASE Wait(c)
  <2>1. Moves(c, IF pc[c] = "asking" THEN {"waiting"} ELSE {"question"})
    BY <1>7 DEF Wait, Moves, Place, Running, TypeOK
  <2>2. event' \in [Conns -> BOOLEAN] /\ \A d \in Conns \ {c} : event'[d] = event[d]
    BY <1>7 DEF Wait, TypeOK
  <2> QED BY <1>0, <1>7, <2>1, <2>2, RowKept DEF Wait, rowVars, Moves, Running, Commanding, Questioning
<1>8. CASE StopWaiting(c)
  <2>1. KeepsRow(session') /\ Moves(c, {"cut"}) /\ Reloads(c)
    BY <1>8, LeaveEffect, RowKept DEF StopWaiting
  <2> QED BY <1>0, <1>8, <2>1 DEF StopWaiting, agentFrame, flagVars, Moves, Running, Commanding, Questioning
<1>9. CASE Execute(c)
  <2>1. Moves(c, {"starting", "cut"})
    BY <1>9, SendMoves DEF Execute, Running
  <2>2. KeepsRow(session')
    BY <1>9, StatusKeeps DEF Execute, Status
  <2> QED BY <1>0, <1>9, <2>1, <2>2, ExpireReloads DEF Execute, agentFrame, flagVars, Moves, Running, Commanding, Questioning
<1>10. CASE Resume(c)
  <2>1. Moves(c, {"resumed", "cut"})
    BY <1>10, SendMoves DEF Resume, Running
  <2>2. KeepsRow(session')
    BY <1>10, StatusKeeps DEF Resume, Status
  <2> QED BY <1>0, <1>10, <2>1, <2>2, ExpireReloads DEF Resume, agentFrame, flagVars, Moves, Running, Commanding, Questioning
<1> QED
  BY <1>1, <1>2, <1>3, <1>4, <1>5, <1>6, <1>7, <1>8, <1>9, <1>10 DEF Quiet

\* The row with a number more, counted from the one that was read.
CountsFrom(n, row) ==
    /\ row \in Row
    /\ row.current_step_number = n + 1
    /\ row.max_steps = session.max_steps
    /\ row.auto_approve = session.auto_approve

LEMMA NewStepType ==
    ASSUME NEW c \in Conns, NEW n \in Nat, NEW type \in {"command", "question", "complete", "failed"},
           NEW status \in {"pending", "executed", "failed"}
    PROVE  NewStep(c, n + 1, type, status) \in Step
BY DEF NewStep, Step

LEMMA CountsType ==
    ASSUME NEW n \in Nat, NEW row, KeepsRow(row)
    PROVE  /\ CountsFrom(n, [row EXCEPT !.current_step_number = n + 1])
           /\ [row EXCEPT !.current_step_number = n + 1].status = row.status
BY DEF KeepsRow, CountsFrom, Row

LEMMA AskUserEffect ==
    ASSUME TypeInv, NEW c \in Conns, Ask(c)
    PROVE  /\ Adds(c, NewStep(c, session.current_step_number + 1, "question", "pending"))
           /\ CountsFrom(session.current_step_number, session')
           /\ Moves(c, {"asked", "cut"}) /\ Reloads(c) /\ pc[c] = "llm" /\ UNCHANGED event
<1>1. session.current_step_number \in Nat
  BY DEF TypeInv, TypeOK
<1>2. NewStep(c, session.current_step_number + 1, "question", "pending") \in Step
  BY <1>1, NewStepType
<1>3. Adds(c, NewStep(c, session.current_step_number + 1, "question", "pending"))
  BY <1>2, Added DEF Ask, AddStep, TypeInv
<1>4. CountsFrom(session.current_step_number, session')
  <2>1. KeepsRow(SetStatus(c, "awaiting_input"))
    BY StatusKeeps DEF Status, TypeInv
  <2> QED BY <1>1, <2>1, CountsType DEF Ask, AddStep
<1>5. Moves(c, {"asked", "cut"}) /\ Reloads(c)
  BY SendMoves, ExpireReloads DEF Ask, AddStep, Running, TypeInv
<1> QED BY <1>3, <1>4, <1>5 DEF Ask, agentFrame, flagVars

LEMMA ProposeEffect ==
    ASSUME TypeInv, NEW c \in Conns, Propose(c)
    PROVE  /\ Adds(c, NewStep(c, loaded[c].number + 1, "command", "pending"))
           /\ CountsFrom(loaded[c].number, session') /\ session'.status = session.status
           /\ Moves(c, {"shown", "cut"}) /\ Reloads(c) /\ pc[c] = "llm" /\ UNCHANGED event
<1>1. loaded[c].number \in Nat
  BY DEF TypeInv, TypeOK
<1>2. NewStep(c, loaded[c].number + 1, "command", "pending") \in Step
  BY <1>1, NewStepType
<1>3. Adds(c, NewStep(c, loaded[c].number + 1, "command", "pending"))
  BY <1>2, Added DEF Propose, AddStep, TypeInv
<1>4. CountsFrom(loaded[c].number, session') /\ session'.status = session.status
  BY <1>1, RowKept, CountsType DEF Propose, AddStep, TypeInv
<1>5. Moves(c, {"shown", "cut"}) /\ Reloads(c)
  BY SendMoves, ExpireReloads DEF Propose, AddStep, Running, TypeInv
<1> QED BY <1>3, <1>4, <1>5 DEF Propose, agentFrame, flagVars

LEMMA ConcludeEffect ==
    ASSUME TypeInv, NEW c \in Conns, NEW status \in {"completed", "failed"}, Conclude(c, status)
    PROVE  /\ \E type \in {"complete", "failed"}, result \in {"executed", "failed"} :
                Adds(c, NewStep(c, session.current_step_number + 1, type, result))
           /\ KeepsRow(session')
           /\ loaded[c].status # status \/ session.status \in Final => session'.status \in Final
           /\ Moves(c, {"closing"}) /\ Reloads(c) /\ pc[c] = "llm" /\ UNCHANGED event
<1> DEFINE row == SetStatus(c, status)
           type == IF status = "completed" THEN "complete" ELSE "failed"
           result == IF status = "completed" THEN "executed" ELSE "failed"
<1>1. KeepsRow(row) /\ (loaded[c].status # status \/ session.status \in Final => row.status \in Final)
  BY StatusKeeps DEF SetStatus, Status, Final, TypeInv
<1>2. NewStep(c, session.current_step_number + 1, type, result) \in Step
  BY NewStepType DEF TypeInv, TypeOK
<1>3. /\ steps' = Append(steps, NewStep(c, session.current_step_number + 1, type, result))
      /\ current' = [current EXCEPT ![c] = Len(steps) + 1]
      /\ Leave(c, Refreshed(row), row, "closing")
  BY <1>1 DEF Conclude, KeepsRow
<1> HIDE DEF row
<1>4. Adds(c, NewStep(c, session.current_step_number + 1, type, result))
  BY <1>2, <1>3, Added DEF TypeInv
<1>5. KeepsRow(session') /\ Moves(c, {"closing"}) /\ Reloads(c)
  BY <1>1, <1>3, LeaveEffect DEF TypeInv
<1>6. type \in {"complete", "failed"} /\ result \in {"executed", "failed"}
  OBVIOUS
<1>7. loaded[c].status # status \/ session.status \in Final => session'.status \in Final
  BY <1>1, <1>3, LeaveEffect DEF TypeInv
<1> HIDE DEF type, result
<1> QED BY <1>4, <1>5, <1>6, <1>7 DEF Conclude, agentFrame, flagVars

LEMMA AnsweredEffect ==
    ASSUME TypeInv, NEW c \in Conns, Answered(c)
    PROVE  /\ current[c] \in DOMAIN steps /\ steps[current[c]].step_type = "question"
           /\ Edits(current[c], [steps[current[c]] EXCEPT !.status = "executed", !.output = answer[c]])
           /\ KeepsRow(session') /\ Moves(c, {"llm", "closing", "cut"}) /\ Reloads(c)
           /\ UNCHANGED <<current, event>>
<1> DEFINE k == current[c]
<1>1. k \in DOMAIN steps /\ steps[k].step_type = "question" /\ steps[k] \in Step /\ answer[c] \in Nat
  BY StepsDomain DEF Answered, Questioning, TypeInv, TypeOK, PhaseOK
<1>2. [steps[k] EXCEPT !.status = "executed", !.output = answer[c]] \in Step
  BY <1>1 DEF Step
<1>3. steps' = [steps EXCEPT ![k] = [steps[k] EXCEPT !.status = "executed", !.output = answer[c]]]
  BY <1>1 DEF Answered, Step
<1> HIDE DEF k
<1>4. Edits(k, [steps[k] EXCEPT !.status = "executed", !.output = answer[c]])
  BY <1>1, <1>2, <1>3, Edited DEF TypeInv
<1>5. KeepsRow(session') /\ Moves(c, {"llm", "closing", "cut"}) /\ Reloads(c)
  BY LoopHeadEffect DEF Answered, TypeInv
<1> QED BY <1>1, <1>4, <1>5 DEF k, Answered, agentFrame, flagVars

LEMMA SkipEffect ==
    ASSUME TypeInv, NEW c \in Conns, Skip(c)
    PROVE  /\ current[c] \in DOMAIN steps /\ steps[current[c]].step_type = "command"
           /\ Edits(current[c], [steps[current[c]] EXCEPT !.status = "rejected"])
           /\ Moves(c, {"reported", "cut"})
           /\ UNCHANGED <<session, loaded, current, event>>
<1> DEFINE k == current[c]
<1>1. k \in DOMAIN steps /\ steps[k].step_type = "command" /\ steps[k] \in Step
  BY StepsDomain DEF Skip, Commanding, TypeInv, PhaseOK
<1>2. [steps[k] EXCEPT !.status = "rejected"] \in Step
  BY <1>1 DEF Step
<1>3. steps' = [steps EXCEPT ![k] = [steps[k] EXCEPT !.status = "rejected"]]
  BY DEF Skip, SetStep
<1>4. Edits(k, [steps[k] EXCEPT !.status = "rejected"])
  BY <1>1, <1>2, <1>3, Edited DEF TypeInv
<1>5. Moves(c, {"reported", "cut"})
  BY SendMoves DEF Skip, Running, TypeInv
<1> QED BY <1>1, <1>4, <1>5 DEF Skip, agentFrame, flagVars

LEMMA RunEffect ==
    ASSUME TypeInv, NEW c \in Conns, Run(c)
    PROVE  /\ current[c] \in DOMAIN steps /\ steps[current[c]].step_type = "command"
           /\ Edits(current[c], [steps[current[c]] EXCEPT !.ran = "open"])
           /\ Moves(c, {"running"})
           /\ UNCHANGED <<session, loaded, current, event>>
<1> DEFINE k == current[c]
<1>1. k \in DOMAIN steps /\ steps[k].step_type = "command" /\ steps[k] \in Step
  BY StepsDomain DEF Run, Commanding, TypeInv, PhaseOK
<1>2. [steps[k] EXCEPT !.ran = "open"] \in Step
  BY <1>1 DEF Step
<1>3. steps' = [steps EXCEPT ![k] = [steps[k] EXCEPT !.ran = "open"]]
  BY DEF Run
<1>4. Edits(k, [steps[k] EXCEPT !.ran = "open"])
  BY <1>1, <1>2, <1>3, Edited DEF TypeInv
<1>5. Moves(c, {"running"})
  BY DEF Run, Moves, Place, Running, TypeInv, TypeOK
<1> QED BY <1>1, <1>4, <1>5 DEF Run, agentFrame, flagVars

LEMMA FinishEffect ==
    ASSUME TypeInv, NEW c \in Conns, NEW fate \in {"done", "cut"}, NEW sent \in BOOLEAN,
           Finish(c, fate, sent)
    PROVE  /\ current[c] \in DOMAIN steps /\ steps[current[c]].step_type = "command"
           /\ Edits(current[c], [steps[current[c]] EXCEPT
                    !.status = IF fate = "done" /\ sent THEN "executed" ELSE "failed", !.ran = fate])
           /\ Moves(c, {"reported", "cut"}) /\ pc'[c] = IF sent THEN "reported" ELSE "cut"
           /\ UNCHANGED <<session, loaded, current, event>>
<1> DEFINE k == current[c]
           status == IF fate = "done" /\ sent THEN "executed" ELSE "failed"
<1>1. k \in DOMAIN steps /\ steps[k].step_type = "command" /\ steps[k] \in Step
  BY StepsDomain DEF Finish, Commanding, TypeInv, PhaseOK
<1>2. status \in {"executed", "failed"}
  OBVIOUS
<1>3. steps' = [steps EXCEPT ![k].status = status, ![k].ran = fate]
  BY DEF Finish
<1> HIDE DEF k, status
<1>4. steps' = [steps EXCEPT ![k] = [steps[k] EXCEPT !.status = status, !.ran = fate]]
  BY <1>1, <1>3 DEF Step
<1>5. [steps[k] EXCEPT !.status = status, !.ran = fate] \in Step
  BY <1>1, <1>2 DEF Step
<1>6. Edits(k, [steps[k] EXCEPT !.status = status, !.ran = fate])
  BY <1>1, <1>4, <1>5, Edited DEF TypeInv
<1>7. Moves(c, {"reported", "cut"}) /\ pc'[c] = IF sent THEN "reported" ELSE "cut"
  BY GoToMoves DEF Finish, Running, TypeInv
<1> QED BY <1>1, <1>6, <1>7 DEF k, status, Finish, agentFrame, flagVars

\* The messages that are about a step.
LEMMA HearEffect ==
    ASSUME TypeInv, NEW c \in Conns, NEW k \in DOMAIN steps, NEW wait, Hear(c, k, wait)
    PROVE  /\ event' \in [Conns -> BOOLEAN] /\ event'[c] /\ \A d \in Conns \ {c} : event'[d] = event[d]
           /\ requests' \in 0 .. RequestBound /\ astray' \in BOOLEAN
           /\ astray \/ Misses(c, k, wait) => astray'
           /\ pc[c] \in Running /\ steps[k].by = c
           /\ UNCHANGED <<session, agent_tasks, pc, loaded, stop_requested, current, overlap, stopSaw>>
<1>1. event' \in [Conns -> BOOLEAN] /\ event'[c] /\ \A d \in Conns \ {c} : event'[d] = event[d]
  BY DEF Hear, TypeInv, TypeOK
<1>2. requests' \in 0 .. RequestBound
  BY BoundsAssumption DEF Hear, Request, TypeInv, TypeOK
<1>3. astray' \in BOOLEAN /\ (astray \/ Misses(c, k, wait) => astray')
  BY Zenon DEF Hear, Misses, TypeInv, TypeOK
<1>4. pc[c] \in Running /\ steps[k].by = c
  BY DEF Hear, Hears, Shown
<1>5. UNCHANGED <<session, agent_tasks, pc, loaded, stop_requested, current, overlap, stopSaw>>
  BY DEF Hear
<1> QED BY <1>1, <1>2, <1>3, <1>4, <1>5

LEMMA ApproveEffect ==
    ASSUME TypeInv, NEW c \in Conns, NEW k \in DOMAIN steps, Approve(c, k)
    PROVE  /\ Hear(c, k, "waiting")
           /\ Edits(k, [steps[k] EXCEPT !.granted = TRUE])
           /\ approved' \in [Conns -> BOOLEAN] /\ \A d \in Conns \ {c} : approved'[d] = approved[d]
           /\ UNCHANGED answer
<1>1. [steps[k] EXCEPT !.granted = TRUE] \in Step
  BY StepsDomain DEF Step, TypeInv
<1>2. Edits(k, [steps[k] EXCEPT !.granted = TRUE])
  BY <1>1, Edited DEF Approve, TypeInv
<1> QED BY <1>2 DEF Approve, TypeInv, TypeOK

\* POST reject.
LEMMA RestRejectEffect ==
    ASSUME TypeInv, RestReject
    PROVE  /\ \E k \in DOMAIN steps :
                /\ steps[k].status = "pending"
                /\ Edits(k, [steps[k] EXCEPT !.status = "rejected", !.restRejected = TRUE])
           /\ requests' \in 0 .. RequestBound
           /\ UNCHANGED <<session, agent_tasks, pc, loaded, flagVars, current, histVars>>
<1>1. PICK k \in DOMAIN steps :
        /\ steps[k].status = "pending"
        /\ steps' = [steps EXCEPT ![k].status = "rejected", ![k].restRejected = TRUE]
        /\ UNCHANGED <<session, agent_tasks, pc, loaded, flagVars, current, histVars>>
  BY DEF RestReject
<1>2. steps[k] \in Step
  BY StepsDomain DEF TypeInv
<1>3. [steps[k] EXCEPT !.status = "rejected", !.restRejected = TRUE] \in Step
  BY <1>2 DEF Step
<1>4. steps' = [steps EXCEPT ![k] = [steps[k] EXCEPT !.status = "rejected", !.restRejected = TRUE]]
  BY <1>1, <1>2 DEF Step
<1>5. Edits(k, [steps[k] EXCEPT !.status = "rejected", !.restRejected = TRUE])
  BY <1>3, <1>4, Edited DEF TypeInv
<1>6. requests' \in 0 .. RequestBound
  BY BoundsAssumption DEF RestReject, Request, TypeInv, TypeOK
<1> QED BY <1>1, <1>5, <1>6

\* What keeps the agents at their steps.
LEMMA PhaseKept ==
    ASSUME PhaseOK, UNCHANGED current, DOMAIN steps' = DOMAIN steps,
           \A k \in DOMAIN steps : steps'[k].by = steps[k].by /\ steps'[k].step_type = steps[k].step_type,
           \A d \in Conns : /\ pc'[d] \in Commanding => pc[d] \in Commanding
                            /\ pc'[d] \in Questioning => pc[d] \in Questioning
    PROVE  PhaseOK'
BY DEF PhaseOK, Commanding, Questioning

LEMMA EditKept ==
    ASSUME NEW k \in DOMAIN steps, NEW step, Edits(k, step), step.by = steps[k].by,
           step.step_type = steps[k].step_type
    PROVE  \A l \in DOMAIN steps : steps'[l].by = steps[l].by /\ steps'[l].step_type = steps[l].step_type
BY DEF Edits

\* One agent moves to places of its kind.
LEMMA MoveKept ==
    ASSUME TypeInv, NEW c \in Conns, NEW places, Moves(c, places), UNCHANGED current,
           DOMAIN steps' = DOMAIN steps,
           \A k \in DOMAIN steps : steps'[k].by = steps[k].by /\ steps'[k].step_type = steps[k].step_type,
           pc'[c] \in Commanding => pc[c] \in Commanding,
           pc'[c] \in Questioning => pc[c] \in Questioning
    PROVE  PhaseOK'
<1>1. \A d \in Conns : /\ pc'[d] \in Commanding => pc[d] \in Commanding
                       /\ pc'[d] \in Questioning => pc[d] \in Questioning
  BY DEF Moves
<1> QED BY <1>1, PhaseKept DEF TypeInv

LEMMA AddPhase ==
    ASSUME TypeInv, NEW c \in Conns, NEW step, Adds(c, step), step.by = c, NEW places, Moves(c, places),
           pc'[c] \in Commanding => step.step_type = "command",
           pc'[c] \in Questioning => step.step_type = "question"
    PROVE  PhaseOK'
<1> SUFFICES ASSUME NEW d \in Conns
             PROVE  /\ pc'[d] \in Commanding \cup Questioning =>
                          current'[d] \in DOMAIN steps' /\ steps'[current'[d]].by = d
                    /\ pc'[d] \in Commanding => steps'[current'[d]].step_type = "command"
                    /\ pc'[d] \in Questioning => steps'[current'[d]].step_type = "question"
  BY DEF PhaseOK, Commanding, Questioning
<1>1. CASE d = c
  BY <1>1 DEF Adds
<1>2. CASE d # c
  BY <1>2 DEF Adds, Moves, TypeInv, PhaseOK
<1> QED BY <1>1, <1>2

LEMMA NewStepFields ==
    ASSUME NEW c, NEW n, NEW type, NEW status
    PROVE  /\ NewStep(c, n, type, status).by = c /\ NewStep(c, n, type, status).step_number = n
           /\ NewStep(c, n, type, status).step_type = type /\ NewStep(c, n, type, status).status = status
           /\ NewStep(c, n, type, status).ran = "no" /\ ~NewStep(c, n, type, status).granted
           /\ ~NewStep(c, n, type, status).restRejected
BY DEF NewStep

\* What one step of an agent does to the variables that AgentFrame does not name.
LEMMA AgentTypes ==
    ASSUME TypeInv, NEW c \in Conns, AgentStep(c)
    PROVE  /\ session' \in Row /\ Reloads(c)
           /\ steps' \in Seq(Step) /\ current' \in [Conns -> 0 .. Len(steps')]
           /\ event' \in [Conns -> BOOLEAN]
           /\ Moves(c, Running \cup {"closing", "cut"}) /\ pc[c] \in Running
           /\ PhaseOK'
<1>0. /\ session \in Row /\ loaded \in [Conns -> Held] /\ steps \in Seq(Step)
      /\ event \in [Conns -> BOOLEAN] /\ current \in [Conns -> 0 .. Len(steps)]
      /\ UNCHANGED loaded => Reloads(c)
  BY DEF Row, Held, Reloads, TypeInv, TypeOK
<1>1. CASE Quiet(c)
  <2>1. PhaseOK'
    BY <1>1, QuietEffect, MoveKept
  <2> QED BY <1>0, <1>1, <2>1, QuietEffect DEF KeepsRow
<1>2. CASE Ask(c)
  <2>1. PhaseOK'
    <3> DEFINE step == NewStep(c, session.current_step_number + 1, "question", "pending")
    <3>1. Adds(c, step) /\ Moves(c, {"asked", "cut"})
      BY <1>2, AskUserEffect
    <3>2. step.by = c /\ step.step_type = "question"
      BY NewStepFields
    <3> HIDE DEF step
    <3> QED BY <3>1, <3>2, AddPhase DEF Moves, Commanding, Questioning
  <2> QED BY <1>0, <1>2, <2>1, AskUserEffect DEF CountsFrom, Adds, Moves, Running
<1>3. CASE Propose(c)
  <2>1. PhaseOK'
    <3> DEFINE step == NewStep(c, loaded[c].number + 1, "command", "pending")
    <3>1. Adds(c, step) /\ Moves(c, {"shown", "cut"})
      BY <1>3, ProposeEffect
    <3>2. step.by = c /\ step.step_type = "command"
      BY NewStepFields
    <3> HIDE DEF step
    <3> QED BY <3>1, <3>2, AddPhase DEF Moves, Commanding, Questioning
  <2> QED BY <1>0, <1>3, <2>1, ProposeEffect DEF CountsFrom, Adds, Moves, Running
<1>4. ASSUME NEW status \in {"completed", "failed"}, Conclude(c, status)
      PROVE  /\ session' \in Row /\ Reloads(c)
             /\ steps' \in Seq(Step) /\ current' \in [Conns -> 0 .. Len(steps')]
             /\ event' \in [Conns -> BOOLEAN]
             /\ Moves(c, Running \cup {"closing", "cut"}) /\ pc[c] \in Running
             /\ PhaseOK'
  <2>1. PICK type \in {"complete", "failed"}, result \in {"executed", "failed"} :
            Adds(c, NewStep(c, session.current_step_number + 1, type, result))
    BY <1>4, ConcludeEffect
  <2>2. KeepsRow(session') /\ Moves(c, {"closing"}) /\ Reloads(c) /\ pc[c] = "llm" /\ UNCHANGED event
    BY <1>4, ConcludeEffect
  <2>3. PhaseOK'
    BY <2>1, <2>2, AddPhase DEF Moves, Commanding, Questioning, NewStep
  <2> QED BY <1>0, <2>1, <2>2, <2>3 DEF KeepsRow, Adds, Moves, Running
<1>5. CASE Answered(c)
  <2>1. pc[c] = "question"
    BY <1>5 DEF Answered
  <2>2. PhaseOK'
    <3>1. \A k \in DOMAIN steps : steps'[k].by = steps[k].by /\ steps'[k].step_type = steps[k].step_type
      BY <1>5, AnsweredEffect, EditKept, StepsDomain DEF Step, TypeInv
    <3> QED BY <1>5, <3>1, AnsweredEffect, MoveKept DEF Edits, Moves, Commanding, Questioning
  <2> QED BY <1>0, <1>5, <2>1, <2>2, AnsweredEffect DEF KeepsRow, Edits, Moves, Running
<1>6. CASE Skip(c)
  <2>1. pc[c] = "waiting"
    BY <1>6 DEF Skip
  <2>2. PhaseOK'
    <3>1. \A k \in DOMAIN steps : steps'[k].by = steps[k].by /\ steps'[k].step_type = steps[k].step_type
      BY <1>6, SkipEffect, EditKept, StepsDomain DEF Step, TypeInv
    <3>2. /\ Moves(c, {"reported", "cut"}) /\ DOMAIN steps' = DOMAIN steps /\ UNCHANGED current
          /\ pc[c] \in Commanding /\ pc'[c] \notin Questioning
      BY <1>6, <2>1, SkipEffect DEF Edits, Moves, Commanding, Questioning
    <3> QED BY <3>1, <3>2, MoveKept
  <2> QED BY <1>0, <1>6, <2>1, <2>2, SkipEffect DEF Edits, Moves, Running
<1>7. CASE Run(c)
  <2>1. pc[c] = "starting"
    BY <1>7 DEF Run
  <2>2. PhaseOK'
    <3>1. \A k \in DOMAIN steps : steps'[k].by = steps[k].by /\ steps'[k].step_type = steps[k].step_type
      BY <1>7, RunEffect, EditKept, StepsDomain DEF Step, TypeInv
    <3>2. /\ Moves(c, {"running"}) /\ DOMAIN steps' = DOMAIN steps /\ UNCHANGED current
          /\ pc[c] \in Commanding /\ pc'[c] \notin Questioning
      BY <1>7, <2>1, RunEffect DEF Edits, Moves, Commanding, Questioning
    <3> QED BY <3>1, <3>2, MoveKept
  <2> QED BY <1>0, <1>7, <2>1, <2>2, RunEffect DEF Edits, Moves, Running
<1>8. ASSUME NEW fate \in {"done", "cut"}, NEW sent \in BOOLEAN, Finish(c, fate, sent)
      PROVE  /\ session' \in Row /\ Reloads(c)
             /\ steps' \in Seq(Step) /\ current' \in [Conns -> 0 .. Len(steps')]
             /\ event' \in [Conns -> BOOLEAN]
             /\ Moves(c, Running \cup {"closing", "cut"}) /\ pc[c] \in Running
             /\ PhaseOK'
  <2>1. pc[c] = "running"
    BY <1>8 DEF Finish
  <2>2. PhaseOK'
    <3>1. \A k \in DOMAIN steps : steps'[k].by = steps[k].by /\ steps'[k].step_type = steps[k].step_type
      BY <1>8, FinishEffect, EditKept, StepsDomain DEF Step, TypeInv
    <3>2. /\ Moves(c, {"reported", "cut"}) /\ DOMAIN steps' = DOMAIN steps /\ UNCHANGED current
          /\ pc[c] \in Commanding /\ pc'[c] \notin Questioning
      BY <1>8, <2>1, FinishEffect DEF Edits, Moves, Commanding, Questioning
    <3> QED BY <3>1, <3>2, MoveKept
  <2> QED BY <1>0, <1>8, <2>1, <2>2, FinishEffect DEF Edits, Moves, Running
<1> QED
  BY <1>1, <1>2, <1>3, <1>4, <1>5, <1>6, <1>7, <1>8 DEF AgentStep, Quiet

\* A handler that ended holds nothing; the others keep what they had.
LEMMA LoseEffect ==
    ASSUME TypeInv, NEW ended \in SUBSET Conns, LoseLocals(ended)
    PROVE  /\ loaded' \in [Conns -> Held]
           /\ event' \in [Conns -> BOOLEAN] /\ approved' \in [Conns -> BOOLEAN]
           /\ stop_requested' \in [Conns -> BOOLEAN] /\ answer' \in [Conns -> Nat]
           /\ current' \in [Conns -> 0 .. Len(steps)]
           /\ stopSaw' \subseteq Conns /\ stopSaw' = stopSaw \ ended
           /\ \A d \in Conns \ ended :
                /\ loaded'[d] = loaded[d] /\ event'[d] = event[d] /\ approved'[d] = approved[d]
                /\ stop_requested'[d] = stop_requested[d] /\ answer'[d] = answer[d]
                /\ current'[d] = current[d]
<1>1. loaded' \in [Conns -> Held] /\ \A d \in Conns \ ended : loaded'[d] = loaded[d]
  BY DEF LoseLocals, Expired, Held, TypeInv, TypeOK
<1>2. event' \in [Conns -> BOOLEAN] /\ \A d \in Conns \ ended : event'[d] = event[d]
  BY DEF LoseLocals, TypeInv, TypeOK
<1>3. approved' \in [Conns -> BOOLEAN] /\ \A d \in Conns \ ended : approved'[d] = approved[d]
  BY DEF LoseLocals, TypeInv, TypeOK
<1>4. stop_requested' \in [Conns -> BOOLEAN]
      /\ \A d \in Conns \ ended : stop_requested'[d] = stop_requested[d]
  BY DEF LoseLocals, TypeInv, TypeOK
<1>5. answer' \in [Conns -> Nat] /\ \A d \in Conns \ ended : answer'[d] = answer[d]
  BY DEF LoseLocals, TypeInv, TypeOK
<1>6. current' \in [Conns -> 0 .. Len(steps)] /\ \A d \in Conns \ ended : current'[d] = current[d]
  BY StepsDomain DEF LoseLocals, TypeInv, TypeOK
<1>7. stopSaw' \subseteq Conns /\ stopSaw' = stopSaw \ ended
  BY DEF LoseLocals, TypeInv, TypeOK
<1> QED BY <1>1, <1>2, <1>3, <1>4, <1>5, <1>6, <1>7

LEMMA CleanUpEffect ==
    ASSUME TypeInv, NEW c \in Conns, CleanUp(c)
    PROVE  /\ LoseLocals({c}) /\ Moves(c, {"off"}) /\ pc[c] \in {"closing", "cut"}
           /\ agent_tasks' = None /\ UNCHANGED <<session, steps, requests, overlap, astray>>
BY DEF CleanUp, Moves, Place, rowVars, TypeInv, TypeOK

LEMMA RestartEffect ==
    ASSUME TypeInv, Restart
    PROVE  /\ LoseLocals(Conns) /\ pc' \in [Conns -> {"new", "off"}]
           /\ \A d \in Conns : pc[d] = "new" <=> pc'[d] = "new"
           /\ agent_tasks' = None /\ UNCHANGED <<session, steps, requests, overlap, astray>>
BY DEF Restart, rowVars, TypeInv, TypeOK

LEMMA ConnectEffect ==
    ASSUME TypeInv, NEW c \in Conns, Connect(c)
    PROVE  /\ Moves(c, {"accepted"}) /\ Reloads(c) /\ pc[c] = "new"
           /\ UNCHANGED <<rowVars, agent_tasks, flagVars, current, requests, histVars>>
<1>1. Moves(c, {"accepted"})
  BY DEF Connect, Moves, Place, TypeInv, TypeOK
<1>2. Reloads(c)
  BY RowKept DEF Connect, Reloads, Held, TypeInv, TypeOK
<1> QED BY <1>1, <1>2 DEF Connect

LEMMA BeginEffect ==
    ASSUME TypeInv, NEW c \in Conns, Begin(c)
    PROVE  /\ \/ /\ Moves(c, {"opening"}) /\ agent_tasks' = c
                /\ overlap' = (overlap \/ \E d \in Conns \ {c} : Busy(d))
              \/ Moves(c, {"off"}) /\ UNCHANGED <<agent_tasks, overlap>>
           /\ Reloads(c) /\ pc[c] = "accepted" /\ overlap' \in BOOLEAN
           /\ UNCHANGED <<rowVars, flagVars, current, requests, stopSaw, astray>>
<1>1. CASE /\ pc' = [pc EXCEPT ![c] = "opening"]
           /\ agent_tasks' = c
           /\ overlap' = (overlap \/ \E d \in Conns \ {c} : Busy(d))
           /\ UNCHANGED loaded
  <2>1. Moves(c, {"opening"})
    BY <1>1 DEF Moves, Place, Running, TypeInv, TypeOK
  <2>2. Reloads(c)
    BY <1>1 DEF Reloads, Held, TypeInv, TypeOK
  <2>3. overlap' \in BOOLEAN
    BY <1>1, Zenon DEF TypeInv, TypeOK
  <2> QED BY <1>1, <2>1, <2>2, <2>3 DEF Begin
<1>2. CASE pc' = [pc EXCEPT ![c] = "off"] /\ Expire(c) /\ UNCHANGED <<agent_tasks, overlap>>
  <2>1. Moves(c, {"off"})
    BY <1>2 DEF Moves, Place, TypeInv, TypeOK
  <2>2. Reloads(c) /\ overlap' \in BOOLEAN
    BY <1>2, ExpireReloads DEF TypeInv, TypeOK
  <2> QED BY <1>2, <2>1, <2>2 DEF Begin
<1> QED BY <1>1, <1>2 DEF Begin

LEMMA DisconnectEffect ==
    ASSUME TypeInv, NEW c \in Conns, Disconnect(c)
    PROVE  /\ Moves(c, {"cut"}) /\ pc[c] \in Running
           /\ UNCHANGED <<rowVars, agent_tasks, loaded, flagVars, current, requests,
                          overlap, stopSaw, astray>>
BY DEF Disconnect, Moves, Place, TypeInv, TypeOK

LEMMA AskToStopEffect ==
    ASSUME TypeInv, NEW c \in Conns, AskToStop(c)
    PROVE  /\ stop_requested' \in [Conns -> BOOLEAN] /\ stop_requested'[c]
           /\ \A d \in Conns \ {c} : stop_requested'[d] = stop_requested[d]
           /\ event' \in [Conns -> BOOLEAN] /\ \A d \in Conns \ {c} : event'[d] = event[d]
           /\ requests' \in 0 .. RequestBound /\ pc[c] \in Running
           /\ UNCHANGED <<rowVars, agent_tasks, pc, loaded, approved, answer, current, histVars>>
<1>1. /\ stop_requested' \in [Conns -> BOOLEAN] /\ stop_requested'[c]
      /\ \A d \in Conns \ {c} : stop_requested'[d] = stop_requested[d]
  BY DEF AskToStop, TypeInv, TypeOK
<1>2. event' \in [Conns -> BOOLEAN] /\ \A d \in Conns \ {c} : event'[d] = event[d]
  BY DEF AskToStop, TypeInv, TypeOK
<1>3. requests' \in 0 .. RequestBound
  BY BoundsAssumption DEF AskToStop, Request, TypeInv, TypeOK
<1> QED BY <1>1, <1>2, <1>3 DEF AskToStop, Hears

\* POST stop.
LEMMA RestStopEffect ==
    ASSUME TypeInv, RestStop
    PROVE  /\ KeepsRow(session') /\ session'.status = "stopped"
           /\ pc' \in [Conns -> Place]
           /\ \A d \in Conns : pc'[d] = IF d = agent_tasks /\ pc[d] \in Running THEN "cut" ELSE pc[d]
           /\ agent_tasks' = None /\ stopSaw' = {d \in Conns : pc[d] \in Running}
           /\ requests' \in 0 .. RequestBound
           /\ UNCHANGED <<steps, loaded, flagVars, current, overlap, astray>>
<1>1. KeepsRow(session') /\ session'.status = "stopped"
  BY StatusKeeps DEF RestStop, Status, Final, TypeInv
<1>2. /\ pc' \in [Conns -> Place]
      /\ \A d \in Conns : pc'[d] = IF d = agent_tasks /\ pc[d] \in Running THEN "cut" ELSE pc[d]
  BY DEF RestStop, Place, TypeInv, TypeOK
<1>3. requests' \in 0 .. RequestBound
  BY BoundsAssumption DEF RestStop, Request, TypeInv, TypeOK
<1> QED BY <1>1, <1>2, <1>3 DEF RestStop

LEMMA TypeInit ==
    ASSUME Init
    PROVE  TypeInv
<1>1. TypeOK
  <2>1. session \in [status : Status, current_step_number : Nat, max_steps : 1 .. MaxSteps,
                     auto_approve : BOOLEAN]
    BY DEF Init, Status
  <2>2. steps \in Seq(Step) /\ Len(steps) = 0
    BY EmptySeq DEF Init
  <2>3. requests \in 0 .. RequestBound
    BY BoundsAssumption DEF Init
  <2>4. loaded \in [Conns -> [status : Status \cup {"expired"}, number : Nat]]
    BY DEF Init, Expired
  <2>5. current \in [Conns -> 0 .. Len(steps)]
    BY <2>2 DEF Init
  <2> QED BY <2>1, <2>2, <2>3, <2>4, <2>5 DEF Init, TypeOK
<1>2. PhaseOK
  BY DEF Init, PhaseOK, Commanding, Questioning
<1> QED BY <1>1, <1>2 DEF TypeInv

\* The types as the effects name them.
LEMMA TypesNow ==
    ASSUME TypeOK
    PROVE  /\ session \in Row /\ steps \in Seq(Step) /\ agent_tasks \in Conns \cup {None}
           /\ pc \in [Conns -> Place] /\ loaded \in [Conns -> Held]
           /\ event \in [Conns -> BOOLEAN] /\ approved \in [Conns -> BOOLEAN]
           /\ answer \in [Conns -> Nat] /\ stop_requested \in [Conns -> BOOLEAN]
           /\ current \in [Conns -> 0 .. Len(steps)] /\ requests \in 0 .. RequestBound
           /\ overlap \in BOOLEAN /\ stopSaw \subseteq Conns /\ astray \in BOOLEAN
BY DEF TypeOK, Row, Place, Held

LEMMA TypesNext ==
    ASSUME session' \in Row, steps' \in Seq(Step), agent_tasks' \in Conns \cup {None},
           pc' \in [Conns -> Place], loaded' \in [Conns -> Held],
           event' \in [Conns -> BOOLEAN], approved' \in [Conns -> BOOLEAN],
           answer' \in [Conns -> Nat], stop_requested' \in [Conns -> BOOLEAN],
           current' \in [Conns -> 0 .. Len(steps')], requests' \in 0 .. RequestBound,
           overlap' \in BOOLEAN, stopSaw' \subseteq Conns, astray' \in BOOLEAN
    PROVE  TypeOK'
BY DEF TypeOK, Row, Place, Held

LEMMA AgentType ==
    ASSUME TypeInv, NEW c \in Conns, AgentStep(c)
    PROVE  TypeInv'
<1>1. TypeOK'
  BY AgentTypes, AgentFrame, TypesNow, TypesNext DEF TypeInv, Reloads, Moves, histVars
<1> QED BY <1>1, AgentTypes DEF TypeInv

LEMMA MessageType ==
    ASSUME TypeInv, NEW c \in Conns, NEW k \in DOMAIN steps,
           Approve(c, k) \/ Reject(c, k) \/ Answer(c, k)
    PROVE  TypeInv'
<1>1. CASE Approve(c, k)
  <2>1. TypeOK'
    BY <1>1, ApproveEffect, HearEffect, TypesNow, TypesNext DEF TypeInv, Edits
  <2>2. \A l \in DOMAIN steps : steps'[l].by = steps[l].by /\ steps'[l].step_type = steps[l].step_type
    <3> DEFINE step == [steps[k] EXCEPT !.granted = TRUE]
    <3>1. step.by = steps[k].by /\ step.step_type = steps[k].step_type
      BY StepsDomain DEF Step, TypeInv
    <3>2. Edits(k, step)
      BY <1>1, ApproveEffect
    <3> HIDE DEF step
    <3> QED BY <3>1, <3>2, EditKept
  <2>3. PhaseOK'
    BY <1>1, <2>2, ApproveEffect, HearEffect, PhaseKept DEF TypeInv, Edits
  <2> QED BY <2>1, <2>3 DEF TypeInv
<1>2. CASE Reject(c, k)
  <2>1. approved' \in [Conns -> BOOLEAN] /\ Hear(c, k, "waiting") /\ UNCHANGED <<steps, answer>>
    BY <1>2 DEF Reject, TypeInv, TypeOK
  <2>2. TypeOK'
    BY <2>1, HearEffect, TypesNow, TypesNext DEF TypeInv
  <2>3. PhaseOK'
    BY <2>1, HearEffect DEF TypeInv, PhaseOK
  <2> QED BY <2>2, <2>3 DEF TypeInv
<1>3. CASE Answer(c, k)
  <2>1. answer' \in [Conns -> Nat] /\ Hear(c, k, "question") /\ UNCHANGED <<steps, approved>>
    BY <1>3, StepsDomain DEF Answer, TypeInv, TypeOK
  <2>2. TypeOK'
    BY <2>1, HearEffect, TypesNow, TypesNext DEF TypeInv
  <2>3. PhaseOK'
    BY <2>1, HearEffect DEF TypeInv, PhaseOK
  <2> QED BY <2>2, <2>3 DEF TypeInv
<1> QED BY <1>1, <1>2, <1>3

LEMMA TypeStep ==
    ASSUME TypeInv, [Next]_vars
    PROVE  TypeInv'
<1>0. TypeOK /\ PhaseOK
  BY DEF TypeInv
<1>1. ASSUME NEW c \in Conns, Connect(c) PROVE TypeInv'
  <2>1. TypeOK'
    BY <1>0, <1>1, ConnectEffect, TypesNow, TypesNext DEF rowVars, flagVars, histVars, Moves, Reloads
  <2>2. PhaseOK'
    BY <1>1, ConnectEffect, MoveKept DEF rowVars, Moves, Commanding, Questioning
  <2> QED BY <2>1, <2>2 DEF TypeInv
<1>2. ASSUME NEW c \in Conns, Begin(c) PROVE TypeInv'
  <2>1. TypeOK'
    BY <1>0, <1>2, BeginEffect, TypesNow, TypesNext DEF rowVars, flagVars, Moves, Reloads
  <2>2. PhaseOK'
    BY <1>2, BeginEffect, MoveKept DEF rowVars, Moves, Commanding, Questioning
  <2> QED BY <2>1, <2>2 DEF TypeInv
<1>3. ASSUME NEW c \in Conns, Disconnect(c) PROVE TypeInv'
  <2>1. TypeOK'
    BY <1>0, <1>3, DisconnectEffect, TypesNow, TypesNext DEF rowVars, flagVars, Moves
  <2>2. PhaseOK'
    BY <1>3, DisconnectEffect, MoveKept DEF rowVars, Moves, Commanding, Questioning
  <2> QED BY <2>1, <2>2 DEF TypeInv
<1>4. ASSUME NEW c \in Conns, AskToStop(c) PROVE TypeInv'
  <2>1. TypeOK'
    BY <1>0, <1>4, AskToStopEffect, TypesNow, TypesNext DEF rowVars, histVars
  <2>2. PhaseOK'
    BY <1>0, <1>4, AskToStopEffect DEF rowVars, PhaseOK
  <2> QED BY <2>1, <2>2 DEF TypeInv
<1>5. ASSUME NEW c \in Conns, CleanUp(c) PROVE TypeInv'
  <2>1. TypeOK'
    BY <1>0, <1>5, CleanUpEffect, LoseEffect, TypesNow, TypesNext DEF Moves
  <2>2. PhaseOK'
    <3>1. {c} \in SUBSET Conns /\ LoseLocals({c}) /\ Moves(c, {"off"}) /\ UNCHANGED steps
      BY <1>5, CleanUpEffect
    <3>2. pc'[c] = "off" /\ \A d \in Conns \ {c} : pc'[d] = pc[d] /\ current'[d] = current[d]
      BY <3>1, LoseEffect DEF Moves
    <3> QED BY <1>0, <3>1, <3>2 DEF PhaseOK, Commanding, Questioning
  <2> QED BY <2>1, <2>2 DEF TypeInv
<1>6. CASE Restart
  <2>1. TypeOK'
    BY <1>0, <1>6, RestartEffect, LoseEffect, TypesNow, TypesNext DEF Place
  <2>2. PhaseOK'
    BY <1>0, <1>6, RestartEffect, LoseEffect DEF PhaseOK, Commanding, Questioning
  <2> QED BY <2>1, <2>2 DEF TypeInv
<1>7. CASE RestReject
  <2>1. PICK k \in DOMAIN steps : Edits(k, [steps[k] EXCEPT !.status = "rejected", !.restRejected = TRUE])
    BY <1>7, RestRejectEffect
  <2>2. TypeOK'
    BY <1>0, <1>7, <2>1, RestRejectEffect, TypesNow, TypesNext DEF flagVars, histVars, Edits
  <2>3. \A l \in DOMAIN steps : steps'[l].by = steps[l].by /\ steps'[l].step_type = steps[l].step_type
    BY <1>0, <2>1, EditKept, StepsDomain DEF Step
  <2>4. PhaseOK'
    BY <1>0, <1>7, <2>1, <2>3, RestRejectEffect, PhaseKept DEF Edits
  <2> QED BY <2>2, <2>4 DEF TypeInv
<1>8. CASE RestStop
  <2>1. TypeOK'
    BY <1>0, <1>8, RestStopEffect, TypesNow, TypesNext DEF flagVars, KeepsRow
  <2>2. PhaseOK'
    BY <1>0, <1>8, RestStopEffect DEF PhaseOK, Commanding, Questioning
  <2> QED BY <2>1, <2>2 DEF TypeInv
<1>9. CASE UNCHANGED vars
  <2>1. TypeOK'
    BY <1>0, <1>9 DEF vars, rowVars, flagVars, histVars, TypeOK
  <2>2. PhaseOK'
    BY <1>0, <1>9 DEF vars, rowVars, flagVars, histVars, PhaseOK
  <2> QED BY <2>1, <2>2 DEF TypeInv
<1> QED
  BY <1>1, <1>2, <1>3, <1>4, <1>5, <1>6, <1>7, <1>8, <1>9, AgentType, MessageType DEF Next, ClientStep

\* Every variable keeps to its values: the row's and the steps' statuses are those of
\* the tables, and what an agent is busy with is a step of the session.
THEOREM TypeCorrect == Spec => []TypeOK
<1>1. Spec => []TypeInv
  <2>1. Init => TypeInv
    BY TypeInit
  <2>2. TypeInv /\ [Next]_vars => TypeInv'
    BY TypeStep
  <2> QED BY <2>1, <2>2, PTL DEF Spec
<1>2. TypeInv => TypeOK
  BY DEF TypeInv
<1> QED BY <1>1, <1>2, PTL

---------------------------------------------------------------------------
(* One agent at a time, and the stop                                       *)

\* Nobody comes to be at work or leaves, and the entry stays.
LEMMA AloneKept ==
    ASSUME AloneInv, UNCHANGED <<overlap, agent_tasks, stopSaw>>, stopSaw \subseteq Conns,
           \A d \in Conns : /\ pc'[d] \in {"new", "accepted", "off"} <=> pc[d] \in {"new", "accepted", "off"}
                            /\ pc'[d] \in Running => pc[d] \in Running
    PROVE  AloneInv'
BY DEF AloneInv, StopFindsTheAgent, Busy

LEMMA AloneMove ==
    ASSUME TypeInv, AloneInv, NEW c \in Conns, UNCHANGED <<overlap, agent_tasks, stopSaw>>,
           Moves(c, Running \cup {"closing", "cut"}), pc[c] \in Running
    PROVE  AloneInv'
<1>1. /\ pc'[c] \notin {"new", "accepted", "off"} /\ pc[c] \notin {"new", "accepted", "off"}
      /\ \A d \in Conns : d # c => pc'[d] = pc[d]
  BY DEF Moves, Running
<1> QED BY <1>1, AloneKept DEF TypeInv, TypeOK

LEMMA AloneStep ==
    ASSUME TypeInv, AloneInv, [Next]_vars
    PROVE  AloneInv'
<1>0. stopSaw \subseteq Conns /\ overlap \in BOOLEAN
  BY DEF TypeInv, TypeOK
<1>1. ASSUME NEW c \in Conns, AgentStep(c) PROVE AloneInv'
  BY <1>1, AgentTypes, AgentFrame, AloneMove DEF histVars
<1>2. ASSUME NEW c \in Conns, Connect(c) PROVE AloneInv'
  BY <1>0, <1>2, ConnectEffect, AloneKept DEF Moves, Running, histVars
<1>3. ASSUME NEW c \in Conns, Begin(c) PROVE AloneInv'
  <2>1. CASE /\ Moves(c, {"opening"}) /\ agent_tasks' = c
             /\ overlap' = (overlap \/ \E d \in Conns \ {c} : Busy(d))
    <3>1. /\ pc[c] = "accepted" /\ UNCHANGED stopSaw
          /\ pc'[c] = "opening" /\ \A d \in Conns : d # c => pc'[d] = pc[d]
      BY <1>3, <2>1, BeginEffect DEF Moves
    <3>2. overlap => overlap'
      BY <2>1
    <3>3. ~overlap' => ~overlap /\ \A d \in Conns : d # c => ~Busy(d)
      BY <2>1
    <3>4. ~overlap' => \A d \in Conns : d # c => ~Busy(d)' /\ pc'[d] \notin Running
      BY <3>1, <3>3 DEF Busy, Running
    <3>5. \A d \in stopSaw : d # c
      BY <3>1 DEF AloneInv, Busy
    <3>6. \A d \in stopSaw : Busy(d)' /\ (pc'[d] \in Running => overlap')
      BY <1>0, <3>1, <3>2, <3>5 DEF AloneInv, Busy
    <3>7. ~overlap' => \A d, e \in Conns : Busy(d)' /\ Busy(e)' => d = e
      BY <3>4
    <3>8. StopFindsTheAgent'
      BY <2>1, <3>4 DEF StopFindsTheAgent
    <3> QED BY <3>1, <3>6, <3>7, <3>8 DEF AloneInv
  <2>2. CASE Moves(c, {"off"}) /\ UNCHANGED <<agent_tasks, overlap>>
    BY <1>0, <1>3, <2>2, BeginEffect, AloneKept DEF Moves, Running
  <2> QED BY <1>3, <2>1, <2>2, BeginEffect
<1>4. ASSUME NEW c \in Conns, Disconnect(c) PROVE AloneInv'
  BY <1>0, <1>4, DisconnectEffect, AloneKept DEF Moves, Running
<1>5. ASSUME NEW c \in Conns, AskToStop(c) PROVE AloneInv'
  BY <1>0, <1>5, AskToStopEffect, AloneKept DEF histVars
<1>6. ASSUME NEW c \in Conns, NEW k \in DOMAIN steps, Approve(c, k) \/ Reject(c, k) \/ Answer(c, k)
      PROVE AloneInv'
  <2>1. UNCHANGED <<overlap, agent_tasks, stopSaw, pc>>
    BY <1>6 DEF Approve, Reject, Answer, Hear
  <2> QED BY <1>0, <2>1, AloneKept
<1>7. ASSUME NEW c \in Conns, CleanUp(c) PROVE AloneInv'
  <2>1. {c} \in SUBSET Conns /\ LoseLocals({c}) /\ Moves(c, {"off"}) /\ pc[c] \in {"closing", "cut"}
    BY <1>7, CleanUpEffect
  <2>2. /\ stopSaw' = stopSaw \ {c} /\ agent_tasks' = None /\ UNCHANGED overlap
        /\ pc'[c] = "off" /\ \A d \in Conns : d # c => pc'[d] = pc[d]
    BY <1>7, <2>1, LoseEffect, CleanUpEffect DEF Moves
  <2>3. ~overlap => \A d \in Conns : ~Busy(d)'
    BY <2>1, <2>2 DEF AloneInv, Busy
  <2> QED BY <1>0, <2>2, <2>3 DEF AloneInv, StopFindsTheAgent, Busy, Running
<1>8. CASE Restart
  <2>1. stopSaw' = {} /\ \A d \in Conns : pc'[d] \in {"new", "off"}
    BY <1>0, <1>8, RestartEffect, LoseEffect
  <2> QED BY <2>1 DEF AloneInv, StopFindsTheAgent, Busy, Running
<1>9. CASE RestReject
  BY <1>0, <1>9, RestRejectEffect, AloneKept DEF histVars
<1>10. CASE RestStop
  <2>1. /\ UNCHANGED overlap /\ stopSaw' = {d \in Conns : pc[d] \in Running}
        /\ \A d \in Conns : pc'[d] = IF d = agent_tasks /\ pc[d] \in Running THEN "cut" ELSE pc[d]
    BY <1>10, RestStopEffect
  <2>2. \A d \in Conns : Busy(d)' <=> Busy(d)
    BY <2>1 DEF Busy, Running
  <2>3. \A d \in Conns : pc'[d] \in Running => pc[d] \in Running /\ overlap
    BY <2>1 DEF AloneInv, StopFindsTheAgent, Running
  <2>4. \A d \in Conns : pc[d] \in Running => Busy(d)
    BY DEF Busy, Running
  <2> QED BY <2>1, <2>2, <2>3, <2>4 DEF AloneInv, StopFindsTheAgent
<1>11. CASE UNCHANGED vars
  BY <1>0, <1>11, AloneKept DEF vars, histVars
<1> QED
  BY <1>1, <1>2, <1>3, <1>4, <1>5, <1>6, <1>7, <1>8, <1>9, <1>10, <1>11 DEF Next, ClientStep

LEMMA TypeAlone == Spec => [](TypeInv /\ AloneInv)
<1>1. Init => TypeInv /\ AloneInv
  <2>1. Init => AloneInv
    BY DEF Init, AloneInv, StopFindsTheAgent, Busy, Running
  <2> QED BY <2>1, TypeInit
<1>2. TypeInv /\ AloneInv /\ [Next]_vars => (TypeInv /\ AloneInv)'
  BY TypeStep, AloneStep
<1> QED BY <1>1, <1>2, PTL DEF Spec

\* The task that POST stop cancels is the one that runs, as long as no second
\* connection came while another agent was at work.
THEOREM TheRunningTaskIsFound == Spec => []StopFindsTheAgent
<1>1. AloneInv => StopFindsTheAgent
  BY DEF AloneInv
<1> QED BY <1>1, TypeAlone, PTL

\* A step of an agent that leaves it where it is writes no row.
LEMMA StayingWritesNothing ==
    ASSUME TypeInv, NEW c \in Conns, AgentStep(c), session' # session
    PROVE  pc'[c] # pc[c]
<1>0. TypeOK
  BY DEF TypeInv
<1>1. CASE CannotOpen(c) \/ Wait(c) \/ Skip(c) \/ Run(c) \/ \E fate \in {"done", "cut"}, sent \in BOOLEAN : Finish(c, fate, sent)
  BY <1>1 DEF CannotOpen, Wait, Skip, Run, Finish, rowVars
<1>2. CASE Open(c)
  BY <1>0, <1>2, SendMoves DEF Open, Running, Moves
<1>3. CASE EnterLoop(c)
  BY <1>0, <1>3, LoopHeadEffect DEF EnterLoop, Moves
<1>4. CASE LLMError(c)
  BY <1>0, <1>4, RowKept, LeaveEffect DEF LLMError, Moves
<1>5. CASE NoAction(c)
  <2>1. CASE loaded[c].number < session.max_steps /\ ~stop_requested[c]
    BY <1>0, <1>5, <2>1, AskEffect DEF NoAction, Moves
  <2>2. CASE ~(loaded[c].number < session.max_steps /\ ~stop_requested[c])
    BY <1>0, <1>5, <2>2, RowKept, LeaveEffect DEF NoAction, ExitBy, Moves
  <2> QED BY <2>1, <2>2
<1>6. CASE Ask(c)
  BY <1>6, AskUserEffect DEF Moves
<1>7. CASE Propose(c)
  BY <1>7, ProposeEffect DEF Moves
<1>8. CASE \E status \in {"completed", "failed"} : Conclude(c, status)
  BY <1>8, ConcludeEffect DEF Moves
<1>9. CASE AwaitApproval(c)
  BY <1>0, <1>9, SendMoves DEF AwaitApproval, Running, Moves
<1>10. CASE StopWaiting(c)
  BY <1>0, <1>10, RowKept, LeaveEffect DEF StopWaiting, Moves
<1>11. CASE Answered(c)
  BY <1>0, <1>11, AnsweredEffect DEF Answered, Moves
<1>12. CASE Execute(c)
  BY <1>0, <1>12, SendMoves DEF Execute, Running, Moves
<1>13. CASE Resume(c)
  BY <1>0, <1>13, SendMoves DEF Resume, Running, Moves
<1> QED
  BY <1>1, <1>2, <1>3, <1>4, <1>5, <1>6, <1>7, <1>8, <1>9, <1>10, <1>11, <1>12, <1>13 DEF AgentStep

\* The changes of one step that keep what the host did of it.
LEMMA EditRan ==
    ASSUME NEW k \in DOMAIN steps, NEW step, Edits(k, step), step.ran # "open" \/ step.ran = steps[k].ran
    PROVE  \A l \in DOMAIN steps : steps[l].ran = "no" => steps'[l].ran # "open"
BY DEF Edits

\* Only an agent at work sends a command, and it is the command of its own step.
LEMMA OnlyRunOpens ==
    ASSUME TypeInv, [Next]_vars, NEW k \in DOMAIN steps, steps[k].ran = "no", steps'[k].ran = "open"
    PROVE  \E c \in Conns : pc[c] \in Running /\ steps[k].by = c
<1>0. TypeOK /\ \A l \in DOMAIN steps : steps[l] \in Step
  BY StepsDomain DEF TypeInv
<1>1. ASSUME NEW c \in Conns, AgentStep(c)
      PROVE  Run(c)
  <2>1. CASE Quiet(c)
    BY <2>1, QuietEffect
  <2>2. CASE Ask(c)
    BY <2>2, AskUserEffect DEF Adds
  <2>3. CASE Propose(c)
    BY <2>3, ProposeEffect DEF Adds
  <2>4. CASE \E status \in {"completed", "failed"} : Conclude(c, status)
    BY <2>4, ConcludeEffect DEF Adds
  <2>5. CASE Answered(c)
    <3> DEFINE step == [steps[current[c]] EXCEPT !.status = "executed", !.output = answer[c]]
    <3>1. Edits(current[c], step) /\ current[c] \in DOMAIN steps
      BY <2>5, AnsweredEffect
    <3>2. step.ran = steps[current[c]].ran
      BY <1>0, <3>1 DEF Step
    <3> HIDE DEF step
    <3> QED BY <3>1, <3>2, EditRan
  <2>6. CASE Skip(c)
    <3> DEFINE step == [steps[current[c]] EXCEPT !.status = "rejected"]
    <3>1. Edits(current[c], step) /\ current[c] \in DOMAIN steps
      BY <2>6, SkipEffect
    <3>2. step.ran = steps[current[c]].ran
      BY <1>0, <3>1 DEF Step
    <3> HIDE DEF step
    <3> QED BY <3>1, <3>2, EditRan
  <2>7. ASSUME NEW fate \in {"done", "cut"}, NEW sent \in BOOLEAN, Finish(c, fate, sent)
        PROVE  Run(c)
    <3> DEFINE status == IF fate = "done" /\ sent THEN "executed" ELSE "failed"
    <3> DEFINE step == [steps[current[c]] EXCEPT !.status = status, !.ran = fate]
    <3>1. Edits(current[c], step) /\ current[c] \in DOMAIN steps
      BY <2>7, FinishEffect
    <3> HIDE DEF status
    <3>2. step.ran = fate
      BY <1>0, <3>1 DEF Step
    <3> HIDE DEF step
    <3> QED BY <3>1, <3>2, EditRan
  <2> QED BY <1>1, <2>1, <2>2, <2>3, <2>4, <2>5, <2>6, <2>7 DEF AgentStep, Quiet
<1>2. ASSUME NEW c \in Conns, Run(c)
      PROVE  pc[c] \in Running /\ steps[k].by = c
  <2>1. Edits(current[c], [steps[current[c]] EXCEPT !.ran = "open"])
    BY <1>2, RunEffect
  <2>2. k = current[c]
    BY <2>1 DEF Edits
  <2> QED BY <1>2, <2>2 DEF Run, Running, TypeInv, PhaseOK, Commanding
<1>3. ASSUME NEW c \in Conns, NEW l \in DOMAIN steps, Approve(c, l) PROVE FALSE
  <2> DEFINE step == [steps[l] EXCEPT !.granted = TRUE]
  <2>1. Edits(l, step)
    BY <1>3, ApproveEffect
  <2>2. step.ran = steps[l].ran
    BY <1>0 DEF Step
  <2> HIDE DEF step
  <2> QED BY <2>1, <2>2, EditRan
<1>4. CASE RestReject
  <2>1. PICK l \in DOMAIN steps : Edits(l, [steps[l] EXCEPT !.status = "rejected", !.restRejected = TRUE])
    BY <1>4, RestRejectEffect
  <2> DEFINE step == [steps[l] EXCEPT !.status = "rejected", !.restRejected = TRUE]
  <2>2. step.ran = steps[l].ran
    BY <1>0 DEF Step
  <2>3. Edits(l, step)
    BY <2>1
  <2> HIDE DEF step
  <2> QED BY <2>2, <2>3, EditRan
<1>5. UNCHANGED steps =>  FALSE
  OBVIOUS
<1> QED
  BY <1>1, <1>2, <1>3, <1>4, <1>5
  DEF Next, ClientStep, Connect, Begin, Disconnect, AskToStop, Reject, Answer, CleanUp, Restart, RestStop,
      rowVars, vars

\* The steps that write another status over "stopped".
LEMMA OnlyAgentsWrite ==
    ASSUME TypeInv, [Next]_vars, session.status = "stopped", session'.status # "stopped"
    PROVE  \E c \in Conns : pc[c] \in Running /\ pc'[c] # pc[c]
<1>1. ASSUME NEW c \in Conns, AgentStep(c)
      PROVE  pc[c] \in Running /\ pc'[c] # pc[c]
  BY <1>1, AgentTypes, StayingWritesNothing
<1>2. RestStop => FALSE
  BY RestStopEffect
<1>3. UNCHANGED session => FALSE
  OBVIOUS
<1> QED
  BY <1>1, <1>2, <1>3
  DEF Next, ClientStep, Connect, Begin, Disconnect, AskToStop, Approve, Reject, Answer, Hear, CleanUp,
      Restart, RestReject, rowVars, vars

\* After POST stop the row stays stopped and the agents that ran then send no command,
\* whatever they were waiting for, unless two agents were at work at once.
THEOREM StopIsKept == Spec => StopHolds
<1>1. TypeInv /\ AloneInv /\ [Next]_vars =>
        /\ session.status = "stopped" /\ session'.status # "stopped" =>
             overlap \/ \E c \in Conns \ stopSaw : pc[c] \in Running /\ pc'[c] # pc[c]
        /\ \A k \in DOMAIN steps : steps[k].ran = "no" /\ steps'[k].ran = "open" =>
             overlap \/ steps[k].by \notin stopSaw
  <2> SUFFICES ASSUME TypeInv, AloneInv, [Next]_vars, ~overlap
               PROVE  /\ session.status = "stopped" /\ session'.status # "stopped" =>
                           \E c \in Conns \ stopSaw : pc[c] \in Running /\ pc'[c] # pc[c]
                      /\ \A k \in DOMAIN steps : steps[k].ran = "no" /\ steps'[k].ran = "open" =>
                           steps[k].by \notin stopSaw
    OBVIOUS
  <2>1. \A c \in Conns : pc[c] \in Running => c \notin stopSaw
    BY DEF AloneInv
  <2> QED BY <2>1, OnlyAgentsWrite, OnlyRunOpens
<1> QED BY <1>1, TypeAlone, PTL DEF Spec, StopHolds

---------------------------------------------------------------------------
(* The count of steps                                                      *)

\* The numbers of the row that bound the steps stay.
SameCount ==
    /\ session'.current_step_number = session.current_step_number
    /\ session'.max_steps = session.max_steps

LEMMA CountedKept ==
    ASSUME CountedOnce, UNCHANGED overlap, SameCount, DOMAIN steps' = DOMAIN steps,
           \A l \in DOMAIN steps : /\ steps'[l].step_type = steps[l].step_type
                                  /\ steps'[l].step_number = steps[l].step_number
    PROVE  CountedOnce'
<1>1. Counted' = Counted /\ \A l \in Counted : l \in DOMAIN steps
  BY DEF Counted
<1> QED BY <1>1 DEF CountedOnce, SameCount

LEMMA CountedEdit ==
    ASSUME CountedOnce, UNCHANGED overlap, SameCount, NEW k \in DOMAIN steps, NEW step, Edits(k, step),
           step.step_type = steps[k].step_type, step.step_number = steps[k].step_number
    PROVE  CountedOnce'
<1>1. DOMAIN steps' = DOMAIN steps
      /\ \A l \in DOMAIN steps : /\ steps'[l].step_type = steps[l].step_type
                                 /\ steps'[l].step_number = steps[l].step_number
  BY DEF Edits
<1> QED BY <1>1, CountedKept

\* A step that does not count.
LEMMA CountedAside ==
    ASSUME TypeInv, CountedOnce, UNCHANGED overlap, SameCount, NEW c \in Conns, NEW step, Adds(c, step),
           step.step_type \notin {"command", "question"}
    PROVE  CountedOnce'
<1>1. Counted' = Counted /\ \A l \in Counted : steps'[l] = steps[l]
  BY DEF Counted, Adds
<1> QED BY <1>1 DEF CountedOnce, SameCount

\* A step that counts takes the next number.
LEMMA CountedAdd ==
    ASSUME TypeInv, CountedOnce, ~overlap, UNCHANGED overlap, NEW c \in Conns, NEW step, Adds(c, step),
           step.step_type \in {"command", "question"},
           step.step_number = session.current_step_number + 1,
           session'.current_step_number = session.current_step_number + 1,
           session'.max_steps = session.max_steps,
           session.current_step_number < session.max_steps
    PROVE  CountedOnce'
<1> DEFINE new == Len(steps) + 1
           n == session.current_step_number
           m == session.max_steps
<1>1. /\ Counted' = Counted \cup {new} /\ new \notin Counted
      /\ \A l \in Counted : steps'[l] = steps[l]
      /\ steps'[new].step_number = n + 1
  BY DEF Counted, Adds
<1>2. n \in Nat /\ m \in Nat /\ n < m /\ session'.current_step_number = n + 1 /\ session'.max_steps = m
  BY DEF TypeInv, TypeOK
<1>3. \A l \in Counted : l \in Nat /\ l < new
  BY StepsDomain DEF Counted, TypeInv
<1>4. new \in Nat
  BY StepsDomain DEF TypeInv
<1>5. /\ \A k \in Counted : steps[k].step_number \in 1 .. n
      /\ \A k, l \in Counted : k < l => steps[k].step_number < steps[l].step_number
      /\ \A i \in 1 .. n : \E k \in Counted : steps[k].step_number = i
  BY DEF CountedOnce
<1> HIDE DEF new, n, m
<1>6. ASSUME NEW k \in Counted'
      PROVE  steps'[k].step_number \in 1 .. n + 1
  <2>1. CASE k = new
    <3>1. steps'[k].step_number = n + 1
      BY <1>1, <2>1, Zenon
    <3> QED BY <1>2, <3>1
  <2>2. CASE k \in Counted
    <3>1. steps'[k].step_number \in 1 .. n
      BY <1>1, <1>5, <2>2
    <3> QED BY <1>2, <3>1
  <2> QED BY <1>1, <2>1, <2>2
<1>7. ASSUME NEW k \in Counted', NEW l \in Counted', k < l
      PROVE  steps'[k].step_number < steps'[l].step_number
  <2>1. k \in Counted
    BY <1>1, <1>3, <1>4, <1>7
  <2>2. CASE l = new
    BY <1>1, <1>2, <1>5, <2>1, <2>2
  <2>3. CASE l \in Counted
    BY <1>1, <1>5, <1>7, <2>1, <2>3
  <2> QED BY <1>1, <2>2, <2>3
<1>8. ASSUME NEW i \in 1 .. n + 1
      PROVE  \E k \in Counted' : steps'[k].step_number = i
  <2>1. CASE i = n + 1
    <3>1. new \in Counted'
      BY <1>1
    <3> QED BY <1>1, <2>1, <3>1, Zenon
  <2>2. CASE i \in 1 .. n
    BY <1>1, <1>5, <2>2
  <2> QED BY <1>2, <2>1, <2>2
<1>9. n + 1 <= m
  BY <1>2
<1> QED BY <1>2, <1>6, <1>7, <1>8, <1>9 DEF CountedOnce

\* What the row and the object of the one agent at work must satisfy.
RowAt(c) ==
    /\ pc[c] = "llm" =>
         /\ loaded[c].number = session.current_step_number
         /\ session.status \in {loaded[c].status, "stopped"}
         /\ session.current_step_number < session.max_steps
    /\ pc[c] = "closing" => session.status \in Final

LEMMA RowOfAll ==
    RowInv <=> CountedOnce /\ (~overlap => \A c \in Conns : RowAt(c))
BY DEF RowInv, RowAt, LoopClosesTheRow

\* A step of the one agent at work: only what it does counts.
LEMMA RowMove ==
    ASSUME TypeInv, AloneInv, NEW c \in Conns, NEW places, Moves(c, places), pc[c] \in Running, ~overlap,
           CountedOnce', RowAt(c)'
    PROVE  RowInv'
<1>1. \A d \in Conns : d # c => pc'[d] \notin {"llm", "closing"}
  BY DEF AloneInv, Busy, Moves, Running
<1> QED BY <1>1 DEF RowInv, RowAt, LoopClosesTheRow

\* What the head of the loop and a reply without an action do with the row.
LEMMA QuietRow ==
    ASSUME TypeInv, AloneInv, RowInv, ~overlap, NEW c \in Conns, Quiet(c)
    PROVE  RowAt(c)'
<1>0. TypeOK /\ RowAt(c)
  BY RowOfAll DEF TypeInv
<1>1. CASE CannotOpen(c)
  BY <1>0, <1>1 DEF CannotOpen, RowAt, TypeOK
<1>2. CASE Open(c)
  BY <1>0, <1>2, SendMoves DEF Open, Running, Moves, RowAt
<1>3. CASE EnterLoop(c)
  BY <1>0, <1>3, LoopHeadEffect DEF EnterLoop, RowAt, Refreshed
<1>4. CASE LLMError(c)
  BY <1>0, <1>4, RowKept, LeaveEffect DEF LLMError, Moves, RowAt
<1>5. CASE NoAction(c)
  <2>1. pc[c] = "llm" /\ session.current_step_number < session.max_steps
        /\ loaded[c].number < session.max_steps
    BY <1>0, <1>5 DEF NoAction, RowAt
  <2>2. CASE ~stop_requested[c]
    <3>1. RefreshAndAsk(c)
      BY <1>5, <2>1, <2>2 DEF NoAction
    <3> QED BY <1>0, <2>1, <3>1, AskEffect DEF RowAt, Refreshed
  <2>3. CASE stop_requested[c]
    <3>1. Leave(c, loaded[c], session, "cut")
      BY <1>5, <2>3 DEF NoAction, ExitBy
    <3> QED BY <1>0, <3>1, RowKept, LeaveEffect DEF RowAt, Moves
  <2> QED BY <1>0, <2>2, <2>3 DEF TypeOK
<1>6. CASE AwaitApproval(c)
  BY <1>0, <1>6, SendMoves DEF AwaitApproval, Running, Moves, RowAt
<1>7. CASE Wait(c)
  BY <1>0, <1>7 DEF Wait, RowAt, TypeOK
<1>8. CASE StopWaiting(c)
  BY <1>0, <1>8, RowKept, LeaveEffect DEF StopWaiting, Moves, RowAt
<1>9. CASE Execute(c)
  BY <1>0, <1>9, SendMoves DEF Execute, Running, Moves, RowAt
<1>10. CASE Resume(c)
  BY <1>0, <1>10, SendMoves DEF Resume, Running, Moves, RowAt
<1> QED
  BY <1>1, <1>2, <1>3, <1>4, <1>5, <1>6, <1>7, <1>8, <1>9, <1>10 DEF Quiet

LEMMA RowStep ==
    ASSUME TypeInv, AloneInv, RowInv, [Next]_vars
    PROVE  RowInv'
<1> SUFFICES ASSUME ~overlap'
             PROVE  RowInv'
  BY DEF RowInv, CountedOnce, LoopClosesTheRow
<1>0. TypeOK /\ CountedOnce /\ \A l \in DOMAIN steps : steps[l] \in Step
  BY StepsDomain DEF TypeInv, RowInv
<1>1. ASSUME NEW c \in Conns, AgentStep(c) PROVE RowInv'
  <2>1. ~overlap /\ UNCHANGED overlap /\ RowAt(c)
    BY <1>1, AgentFrame, RowOfAll DEF histVars
  <2>2. Moves(c, Running \cup {"closing", "cut"}) /\ pc[c] \in Running
    BY <1>1, AgentTypes
  <2>3. CASE Quiet(c)
    <3>1. CountedOnce'
      BY <1>0, <2>1, <2>3, QuietEffect, CountedKept DEF KeepsRow, SameCount
    <3> QED BY <2>1, <2>2, <2>3, <3>1, QuietRow, RowMove
  <2>4. CASE Ask(c)
    <3> DEFINE step == NewStep(c, session.current_step_number + 1, "question", "pending")
    <3>1. Adds(c, step) /\ CountsFrom(session.current_step_number, session')
          /\ Moves(c, {"asked", "cut"}) /\ pc[c] = "llm"
      BY <2>4, AskUserEffect
    <3>2. step.step_type = "question" /\ step.step_number = session.current_step_number + 1
      BY NewStepFields
    <3> HIDE DEF step
    <3>3. CountedOnce'
      BY <1>0, <2>1, <3>1, <3>2, CountedAdd DEF CountsFrom, RowAt
    <3>4. RowAt(c)'
      BY <3>1 DEF RowAt, Moves
    <3> QED BY <2>1, <2>2, <3>3, <3>4, RowMove
  <2>5. CASE Propose(c)
    <3> DEFINE step == NewStep(c, loaded[c].number + 1, "command", "pending")
    <3>1. Adds(c, step) /\ CountsFrom(loaded[c].number, session')
          /\ Moves(c, {"shown", "cut"}) /\ pc[c] = "llm"
      BY <2>5, ProposeEffect
    <3>2. step.step_type = "command" /\ step.step_number = loaded[c].number + 1
      BY NewStepFields
    <3> HIDE DEF step
    <3>3. CountedOnce'
      BY <1>0, <2>1, <3>1, <3>2, CountedAdd DEF CountsFrom, RowAt
    <3>4. RowAt(c)'
      BY <3>1 DEF RowAt, Moves
    <3> QED BY <2>1, <2>2, <3>3, <3>4, RowMove
  <2>6. ASSUME NEW status \in {"completed", "failed"}, Conclude(c, status) PROVE RowInv'
    <3>1. PICK type \in {"complete", "failed"}, result \in {"executed", "failed"} :
              Adds(c, NewStep(c, session.current_step_number + 1, type, result))
      BY <2>6, ConcludeEffect
    <3> DEFINE step == NewStep(c, session.current_step_number + 1, type, result)
    <3>2. Adds(c, step)
      BY <3>1
    <3>3. step.step_type \notin {"command", "question"}
      BY NewStepFields
    <3> HIDE DEF step
    <3>4. /\ KeepsRow(session') /\ Moves(c, {"closing"}) /\ pc[c] = "llm"
          /\ loaded[c].status # status \/ session.status \in Final => session'.status \in Final
      BY <2>6, ConcludeEffect
    <3>5. CountedOnce'
      BY <1>0, <2>1, <3>2, <3>3, <3>4, CountedAside DEF KeepsRow, SameCount
    <3>6. RowAt(c)'
      BY <2>1, <3>4 DEF RowAt, Moves, Final
    <3> QED BY <2>1, <2>2, <3>5, <3>6, RowMove
  <2>7. CASE Answered(c)
    <3> DEFINE step == [steps[current[c]] EXCEPT !.status = "executed", !.output = answer[c]]
    <3>1. current[c] \in DOMAIN steps /\ Edits(current[c], step) /\ KeepsRow(session') /\ LoopHead(c)
      BY <2>7, AnsweredEffect DEF Answered
    <3>2. step.step_type = steps[current[c]].step_type /\ step.step_number = steps[current[c]].step_number
      BY <1>0, <3>1 DEF Step
    <3> HIDE DEF step
    <3>3. CountedOnce'
      BY <1>0, <2>1, <3>1, <3>2, CountedEdit DEF KeepsRow, SameCount
    <3>4. RowAt(c)'
      BY <1>0, <3>1, LoopHeadEffect DEF RowAt, Refreshed
    <3> QED BY <2>1, <2>2, <3>3, <3>4, RowMove
  <2>8. CASE Skip(c)
    <3> DEFINE step == [steps[current[c]] EXCEPT !.status = "rejected"]
    <3>1. current[c] \in DOMAIN steps /\ Edits(current[c], step) /\ UNCHANGED session
          /\ Moves(c, {"reported", "cut"})
      BY <2>8, SkipEffect
    <3>2. step.step_type = steps[current[c]].step_type /\ step.step_number = steps[current[c]].step_number
      BY <1>0, <3>1 DEF Step
    <3> HIDE DEF step
    <3>3. CountedOnce'
      BY <1>0, <2>1, <3>1, <3>2, CountedEdit DEF SameCount
    <3>4. RowAt(c)'
      BY <3>1 DEF RowAt, Moves
    <3> QED BY <2>1, <2>2, <3>3, <3>4, RowMove
  <2>9. CASE Run(c)
    <3> DEFINE step == [steps[current[c]] EXCEPT !.ran = "open"]
    <3>1. current[c] \in DOMAIN steps /\ Edits(current[c], step) /\ UNCHANGED session
          /\ Moves(c, {"running"})
      BY <2>9, RunEffect
    <3>2. step.step_type = steps[current[c]].step_type /\ step.step_number = steps[current[c]].step_number
      BY <1>0, <3>1 DEF Step
    <3> HIDE DEF step
    <3>3. CountedOnce'
      BY <1>0, <2>1, <3>1, <3>2, CountedEdit DEF SameCount
    <3>4. RowAt(c)'
      BY <3>1 DEF RowAt, Moves
    <3> QED BY <2>1, <2>2, <3>3, <3>4, RowMove
  <2>10. ASSUME NEW fate \in {"done", "cut"}, NEW sent \in BOOLEAN, Finish(c, fate, sent) PROVE RowInv'
    <3> DEFINE status == IF fate = "done" /\ sent THEN "executed" ELSE "failed"
               step == [steps[current[c]] EXCEPT !.status = status, !.ran = fate]
    <3>1. current[c] \in DOMAIN steps /\ Edits(current[c], step) /\ UNCHANGED session
          /\ Moves(c, {"reported", "cut"})
      BY <2>10, FinishEffect
    <3> HIDE DEF status
    <3>2. step.step_type = steps[current[c]].step_type /\ step.step_number = steps[current[c]].step_number
      BY <1>0, <3>1 DEF Step
    <3> HIDE DEF step
    <3>3. CountedOnce'
      BY <1>0, <2>1, <3>1, <3>2, CountedEdit DEF SameCount
    <3>4. RowAt(c)'
      BY <3>1 DEF RowAt, Moves
    <3> QED BY <2>1, <2>2, <3>3, <3>4, RowMove
  <2> QED BY <1>1, <2>3, <2>4, <2>5, <2>6, <2>7, <2>8, <2>9, <2>10 DEF AgentStep, Quiet
<1>2. ASSUME UNCHANGED <<session, steps, overlap>>,
             \A d \in Conns : /\ pc'[d] \in {"llm", "closing"} => pc'[d] = pc[d]
                              /\ pc'[d] = "llm" => loaded'[d] = loaded[d]
      PROVE  RowInv'
  <2>1. CountedOnce'
    BY <1>0, <1>2, CountedKept DEF SameCount
  <2> QED BY <1>2, <2>1 DEF RowInv, LoopClosesTheRow
<1>3. ASSUME NEW k \in DOMAIN steps, NEW step, Edits(k, step), step.step_type = steps[k].step_type,
             step.step_number = steps[k].step_number, UNCHANGED <<session, overlap, pc, loaded>>
      PROVE  RowInv'
  <2>1. CountedOnce'
    BY <1>0, <1>3, CountedEdit DEF SameCount
  <2> QED BY <1>3, <2>1 DEF RowInv, LoopClosesTheRow
<1>4. ASSUME NEW c \in Conns, Connect(c) PROVE RowInv'
  BY <1>2, <1>4, ConnectEffect DEF rowVars, histVars, Moves, Reloads
<1>5. ASSUME NEW c \in Conns, Begin(c) PROVE RowInv'
  <2>1. UNCHANGED overlap
    BY <1>0, <1>5, BeginEffect DEF TypeOK
  <2> QED BY <1>2, <1>5, <2>1, BeginEffect DEF rowVars, Moves, Reloads
<1>6. ASSUME NEW c \in Conns, Disconnect(c) PROVE RowInv'
  BY <1>2, <1>6, DisconnectEffect DEF rowVars, Moves
<1>7. ASSUME NEW c \in Conns, AskToStop(c) PROVE RowInv'
  BY <1>2, <1>7, AskToStopEffect DEF rowVars, histVars
<1>8. ASSUME NEW c \in Conns, NEW k \in DOMAIN steps, Approve(c, k) PROVE RowInv'
  <2> DEFINE step == [steps[k] EXCEPT !.granted = TRUE]
  <2>1. Edits(k, step) /\ UNCHANGED <<session, overlap, pc, loaded>>
    BY <1>8, ApproveEffect, HearEffect
  <2>2. step.step_type = steps[k].step_type /\ step.step_number = steps[k].step_number
    BY <1>0 DEF Step
  <2> HIDE DEF step
  <2> QED BY <1>3, <2>1, <2>2
<1>9. ASSUME NEW c \in Conns, NEW k \in DOMAIN steps, Reject(c, k) \/ Answer(c, k) PROVE RowInv'
  BY <1>2, <1>9 DEF Reject, Answer, Hear
<1>10. ASSUME NEW c \in Conns, CleanUp(c) PROVE RowInv'
  <2>1. {c} \in SUBSET Conns /\ LoseLocals({c}) /\ Moves(c, {"off"})
        /\ UNCHANGED <<session, steps, overlap>>
    BY <1>10, CleanUpEffect
  <2>2. \A d \in Conns : d # c => pc'[d] = pc[d] /\ loaded'[d] = loaded[d]
    BY <2>1, LoseEffect DEF Moves
  <2> QED BY <1>2, <2>1, <2>2 DEF Moves
<1>11. CASE Restart
  <2>1. \A d \in Conns : pc'[d] \in {"new", "off"}
    BY <1>11, RestartEffect
  <2> QED BY <1>2, <1>11, <2>1, RestartEffect
<1>12. CASE RestReject
  <2>1. PICK k \in DOMAIN steps : Edits(k, [steps[k] EXCEPT !.status = "rejected", !.restRejected = TRUE])
    BY <1>12, RestRejectEffect
  <2> DEFINE step == [steps[k] EXCEPT !.status = "rejected", !.restRejected = TRUE]
  <2>2. Edits(k, step) /\ UNCHANGED <<session, overlap, pc, loaded>>
    BY <1>12, <2>1, RestRejectEffect DEF histVars
  <2>3. step.step_type = steps[k].step_type /\ step.step_number = steps[k].step_number
    BY <1>0 DEF Step
  <2> HIDE DEF step
  <2> QED BY <1>3, <2>2, <2>3
<1>13. CASE RestStop
  <2>1. /\ KeepsRow(session') /\ session'.status = "stopped" /\ UNCHANGED <<steps, overlap>>
        /\ \A d \in Conns : pc'[d] = IF d = agent_tasks /\ pc[d] \in Running THEN "cut" ELSE pc[d]
    BY <1>13, RestStopEffect
  <2>2. CountedOnce'
    BY <1>0, <2>1, CountedKept DEF KeepsRow, SameCount
  <2>3. \A d \in Conns : pc'[d] # "llm"
    BY <2>1 DEF AloneInv, StopFindsTheAgent, Running
  <2> QED BY <2>1, <2>2, <2>3 DEF RowInv, LoopClosesTheRow, Final
<1>14. CASE UNCHANGED vars
  BY <1>2, <1>14 DEF vars, rowVars, histVars
<1> QED
  BY <1>1, <1>4, <1>5, <1>6, <1>7, <1>8, <1>9, <1>10, <1>11, <1>12, <1>13, <1>14 DEF Next, ClientStep

LEMMA RowHolds == Spec => []RowInv
<1>1. Init => RowInv
  <2>1. Init => Counted = {}
    BY EmptySeq DEF Init, Counted
  <2> QED BY <2>1 DEF Init, RowInv, CountedOnce, LoopClosesTheRow
<1>2. TypeInv /\ AloneInv /\ RowInv /\ [Next]_vars => RowInv'
  BY RowStep
<1> QED BY <1>1, <1>2, TypeAlone, PTL DEF Spec

\* Steps are numbered in order, each is counted once, and max_steps bounds them, for the
\* whole session, whatever connections come one after the other.
THEOREM StepsAreCounted == Spec => []CountedOnce
<1>1. RowInv => CountedOnce
  BY DEF RowInv
<1> QED BY <1>1, RowHolds, PTL

\* An agent that leaves its loop by itself leaves a final status in the row.
THEOREM RowIsClosed == Spec => []LoopClosesTheRow
<1>1. RowInv => LoopClosesTheRow
  BY DEF RowInv
<1> QED BY <1>1, RowHolds, PTL

---------------------------------------------------------------------------
(* The record of a command                                                 *)

\* The places of an agent before its command is sent.
Ahead == {"shown", "asking", "waiting", "starting"}

Waits(c) ==
    pc[c] \in Ahead => steps[current[c]].ran = "no" /\ Undecided(steps[current[c]])

FateOf(k) ==
    LET step == steps[k] IN
    step.step_type = "command" =>
        /\ pc[step.by] \notin {"new", "accepted"}
        /\ step.ran = "open" =>
             /\ Undecided(step)
             /\ Ended(step.by) \/ (pc[step.by] = "running" /\ k = current[step.by])
        /\ step.status = "pending" => step.ran \in {"no", "open"}
        /\ step.status = "executed" => step.ran = "done"
        /\ step.ran = "done" => step.status = "executed" \/ (step.status = "failed" /\ Ended(step.by))
        /\ step.status = "rejected" /\ step.ran # "no" => step.restRejected

LEMMA FateOfAll ==
    /\ FateInv => (\A c \in Conns : Waits(c)) /\ (\A k \in DOMAIN steps : FateOf(k))
    /\ (\A c \in Conns : Waits(c)) /\ (\A k \in DOMAIN steps : FateOf(k)) => FateInv
BY DEF FateInv, Waits, Ahead, FateOf, RecordTellsFate, Ended, Undecided

LEMMA FateOfAllNext ==
    (\A c \in Conns : Waits(c)') /\ (\A k \in DOMAIN steps' : FateOf(k)') => FateInv'
BY DEF FateInv, Waits, Ahead, FateOf, RecordTellsFate, Ended, Undecided

\* A step that is left alone, whose agent goes on or ends.
LEMMA FateKept ==
    ASSUME NEW k \in DOMAIN steps, FateOf(k), NEW d, d = steps[k].by, steps'[k] = steps[k],
           pc[d] \notin {"new", "accepted"} => pc'[d] \notin {"new", "accepted"},
           Ended(d) => Ended(d)',
           pc[d] = "running" /\ k = current[d] =>
             Ended(d)' \/ (pc'[d] = "running" /\ current'[d] = current[d])
    PROVE  FateOf(k)'
BY DEF FateOf, Undecided

\* A step of an agent: what it does to its own steps decides.
LEMMA FateAgent ==
    ASSUME TypeInv, FateInv, NEW c \in Conns, Moves(c, Running \cup {"closing", "cut"}),
           pc[c] \in Running, \A d \in Conns \ {c} : current'[d] = current[d],
           \A k \in DOMAIN steps' : \/ FateOf(k)'
                                   \/ /\ k \in DOMAIN steps /\ steps'[k] = steps[k]
                                      /\ pc[c] = "running" => k # current[c],
           \A l \in DOMAIN steps : l \in DOMAIN steps' /\ (steps[l].by # c => steps'[l] = steps[l]),
           Waits(c)'
    PROVE  FateInv'
<1>0. /\ \A d \in Conns : d # c => pc'[d] = pc[d]
      /\ pc'[c] \notin {"new", "accepted"} /\ ~Ended(c)
      /\ \A d \in Conns : Waits(d)
      /\ \A k \in DOMAIN steps : FateOf(k) /\ steps[k].by \in Conns
  BY FateOfAll, StepsDomain DEF Moves, Running, Ended, TypeInv, Step
<1>1. ASSUME NEW k \in DOMAIN steps' PROVE FateOf(k)'
  <2> SUFFICES ASSUME k \in DOMAIN steps, steps'[k] = steps[k], pc[c] = "running" => k # current[c]
               PROVE  FateOf(k)'
    OBVIOUS
  <2> DEFINE d == steps[k].by
  <2>1. d \in Conns /\ FateOf(k)
    BY <1>0
  <2>2. CASE d = c
    <3>1. /\ pc'[d] \notin {"new", "accepted"} /\ ~Ended(d)
          /\ ~(pc[d] = "running" /\ k = current[d])
      BY <1>0, <2>2
    <3> QED BY <2>1, <3>1, FateKept
  <2>3. CASE d # c
    <3>1. pc'[d] = pc[d] /\ current'[d] = current[d]
      BY <1>0, <2>1, <2>3
    <3>2. Ended(d) => Ended(d)'
      BY <3>1 DEF Ended
    <3> QED BY <2>1, <3>1, <3>2, FateKept
  <2> QED BY <2>2, <2>3
<1>2. ASSUME NEW d \in Conns PROVE Waits(d)'
  <2> SUFFICES ASSUME d # c, pc[d] \in Ahead PROVE Waits(d)'
    BY <1>0 DEF Waits
  <2>1. current[d] \in DOMAIN steps /\ steps[current[d]].by = d
    BY DEF TypeInv, PhaseOK, Ahead, Commanding
  <2> QED BY <1>0, <2>1 DEF Waits
<1> QED BY <1>1, <1>2, FateOfAllNext

\* What the clients and the end of a handler may do to a record.
SameRecord(k) ==
    /\ steps'[k].by = steps[k].by /\ steps'[k].step_type = steps[k].step_type
    /\ steps'[k].ran = steps[k].ran
    /\ \/ steps'[k].status = steps[k].status /\ steps'[k].restRejected = steps[k].restRejected
       \/ steps[k].status = "pending" /\ steps'[k].status = "rejected" /\ steps'[k].restRejected

LEMMA FateEnv ==
    ASSUME TypeInv, FateInv, DOMAIN steps' = DOMAIN steps, \A k \in DOMAIN steps : SameRecord(k),
           \A d \in Conns :
             /\ pc[d] \notin {"new", "accepted"} => pc'[d] \notin {"new", "accepted"}
             /\ Ended(d) => Ended(d)'
             /\ pc[d] = "running" => Ended(d)' \/ (pc'[d] = "running" /\ current'[d] = current[d])
             /\ pc'[d] \in Ahead => pc[d] \in Ahead /\ current'[d] = current[d]
    PROVE  FateInv'
<1>1. ASSUME NEW k \in DOMAIN steps' PROVE FateOf(k)'
  <2>1. FateOf(k) /\ steps[k].by \in Conns /\ SameRecord(k)
    BY FateOfAll, StepsDomain DEF TypeInv, Step
  <2> QED BY <2>1 DEF FateOf, Undecided, SameRecord
<1>2. ASSUME NEW d \in Conns, pc'[d] \in Ahead PROVE Waits(d)'
  <2>1. /\ current[d] \in DOMAIN steps /\ Waits(d) /\ pc[d] \in Ahead /\ current'[d] = current[d]
    BY <1>2, FateOfAll DEF TypeInv, PhaseOK, Ahead, Commanding
  <2>2. SameRecord(current[d])
    BY <2>1
  <2> QED BY <2>1, <2>2 DEF Waits, Undecided, SameRecord
<1>3. \A d \in Conns : Waits(d)'
  BY <1>2 DEF Waits
<1> QED BY <1>1, <1>3, FateOfAllNext

\* Quiet actions do not leave "running", and come to a place before the command only
\* from one.
LEMMA QuietPlaces ==
    ASSUME TypeInv, NEW c \in Conns, Quiet(c)
    PROVE  pc[c] # "running" /\ (pc'[c] \in Ahead => pc[c] \in Ahead)
<1>0. TypeOK
  BY DEF TypeInv
<1>1. CASE CannotOpen(c) \/ Wait(c)
  BY <1>0, <1>1 DEF CannotOpen, Wait, Ahead, TypeOK
<1>2. CASE Open(c)
  BY <1>0, <1>2, SendMoves DEF Open, Running, Moves, Ahead
<1>3. CASE EnterLoop(c)
  BY <1>0, <1>3, LoopHeadEffect DEF EnterLoop, Moves, Ahead
<1>4. CASE LLMError(c)
  BY <1>0, <1>4, RowKept, LeaveEffect DEF LLMError, Moves, Ahead
<1>5. CASE NoAction(c)
  <2>1. CASE loaded[c].number < session.max_steps /\ ~stop_requested[c]
    BY <1>0, <1>5, <2>1, AskEffect DEF NoAction, Moves, Ahead
  <2>2. CASE ~(loaded[c].number < session.max_steps /\ ~stop_requested[c])
    BY <1>0, <1>5, <2>2, RowKept, LeaveEffect DEF NoAction, ExitBy, Moves, Ahead
  <2> QED BY <2>1, <2>2
<1>6. CASE AwaitApproval(c) \/ Execute(c)
  BY <1>6 DEF AwaitApproval, Execute, Ahead
<1>7. CASE StopWaiting(c)
  BY <1>0, <1>7, RowKept, LeaveEffect DEF StopWaiting, Moves, Ahead
<1>8. CASE Resume(c)
  BY <1>0, <1>8, SendMoves DEF Resume, Running, Moves, Ahead
<1> QED
  BY <1>1, <1>2, <1>3, <1>4, <1>5, <1>6, <1>7, <1>8 DEF Quiet

\* An agent edits the record of its own command.
LEMMA FateEdit ==
    ASSUME TypeInv, FateInv, NEW c \in Conns, NEW places, Moves(c, places),
           places \subseteq Running \cup {"closing", "cut"}, places \cap Ahead = {},
           pc[c] \in Commanding \cup Questioning, UNCHANGED current,
           NEW step, Edits(current[c], step), FateOf(current[c])'
    PROVE  FateInv'
<1> DEFINE k == current[c]
<1>1. k \in DOMAIN steps /\ steps[k].by = c
  BY DEF TypeInv, PhaseOK
<1>2. /\ DOMAIN steps' = DOMAIN steps
      /\ \A l \in DOMAIN steps : l # k => steps'[l] = steps[l]
      /\ FateOf(k)'
  BY DEF Edits
<1>3. pc[c] \in Running /\ Moves(c, Running \cup {"closing", "cut"}) /\ Waits(c)'
  BY DEF Moves, Commanding, Questioning, Running, Waits
<1>4. \A d \in Conns : current'[d] = current[d]
  OBVIOUS
<1>5. k = current[c]
  OBVIOUS
<1> HIDE DEF k
<1>6. \A l \in DOMAIN steps' : \/ FateOf(l)'
                             \/ /\ l \in DOMAIN steps /\ steps'[l] = steps[l]
                                /\ pc[c] = "running" => l # current[c]
  BY <1>2, <1>5
<1>7. \A l \in DOMAIN steps : l \in DOMAIN steps' /\ (steps[l].by # c => steps'[l] = steps[l])
  BY <1>1, <1>2
<1> QED BY <1>3, <1>4, <1>6, <1>7, FateAgent

\* An agent adds a step.
LEMMA FateAdd ==
    ASSUME TypeInv, FateInv, NEW c \in Conns, Moves(c, Running \cup {"closing", "cut"}), pc[c] = "llm",
           NEW step, Adds(c, step), step.by = c, step.ran = "no",
           step.step_type = "command" \/ pc'[c] \in Ahead => step.status = "pending"
    PROVE  FateInv'
<1>0. PICK new : new = Len(steps) + 1
  OBVIOUS
<1>1. /\ DOMAIN steps' = DOMAIN steps \cup {new} /\ steps'[new] = step
      /\ \A l \in DOMAIN steps : steps'[l] = steps[l]
      /\ current'[c] = new /\ \A d \in Conns \ {c} : current'[d] = current[d]
  BY <1>0 DEF Adds
<1>2. pc'[c] \notin {"new", "accepted"} /\ pc[c] \in Running
  BY DEF Moves, Running
<1>3. FateOf(new)'
  BY <1>1, <1>2 DEF FateOf, Undecided
<1>4. Waits(c)'
  BY <1>1 DEF Waits, Undecided
<1> QED BY <1>1, <1>2, <1>3, <1>4, FateAgent

LEMMA FateStep ==
    ASSUME TypeInv, FateInv, [Next]_vars
    PROVE  FateInv'
<1>0. TypeOK /\ \A l \in DOMAIN steps : steps[l] \in Step
  BY StepsDomain DEF TypeInv
<1>1. ASSUME NEW c \in Conns, Quiet(c) PROVE FateInv'
  <2>1. /\ UNCHANGED <<steps, current>> /\ pc[c] \in Running
        /\ Moves(c, Running \cup {"closing", "cut"})
        /\ pc[c] # "running" /\ (pc'[c] \in Ahead => pc[c] \in Ahead)
    BY <1>1, QuietEffect, QuietPlaces
  <2>2. Waits(c)'
    BY <2>1, FateOfAll DEF Waits, Undecided
  <2> QED BY <2>1, <2>2, FateAgent
<1>2. ASSUME NEW c \in Conns, Ask(c) PROVE FateInv'
  <2> DEFINE step == NewStep(c, session.current_step_number + 1, "question", "pending")
  <2>1. Adds(c, step) /\ pc[c] = "llm" /\ Moves(c, Running \cup {"closing", "cut"})
    BY <1>2, AskUserEffect DEF Moves, Running
  <2>2. step.by = c /\ step.ran = "no" /\ step.status = "pending"
    BY NewStepFields
  <2> HIDE DEF step
  <2> QED BY <2>1, <2>2, FateAdd
<1>3. ASSUME NEW c \in Conns, Propose(c) PROVE FateInv'
  <2> DEFINE step == NewStep(c, loaded[c].number + 1, "command", "pending")
  <2>1. Adds(c, step) /\ pc[c] = "llm" /\ Moves(c, Running \cup {"closing", "cut"})
    BY <1>3, ProposeEffect DEF Moves, Running
  <2>2. step.by = c /\ step.ran = "no" /\ step.status = "pending"
    BY NewStepFields
  <2> HIDE DEF step
  <2> QED BY <2>1, <2>2, FateAdd
<1>4. ASSUME NEW c \in Conns, NEW status \in {"completed", "failed"}, Conclude(c, status) PROVE FateInv'
  <2>1. PICK type \in {"complete", "failed"}, result \in {"executed", "failed"} :
            Adds(c, NewStep(c, session.current_step_number + 1, type, result))
    BY <1>4, ConcludeEffect
  <2> DEFINE step == NewStep(c, session.current_step_number + 1, type, result)
  <2>2. /\ Adds(c, step) /\ pc[c] = "llm" /\ Moves(c, Running \cup {"closing", "cut"})
        /\ pc'[c] \notin Ahead
    BY <1>4, <2>1, ConcludeEffect DEF Moves, Ahead
  <2>3. step.by = c /\ step.ran = "no" /\ step.step_type # "command"
    BY NewStepFields
  <2> HIDE DEF step
  <2> QED BY <2>2, <2>3, FateAdd
<1>5. ASSUME NEW c \in Conns, Answered(c) PROVE FateInv'
  <2> DEFINE step == [steps[current[c]] EXCEPT !.status = "executed", !.output = answer[c]]
             places == {"llm", "closing", "cut"}
  <2>1. /\ Edits(current[c], step) /\ Moves(c, places) /\ UNCHANGED current /\ pc[c] = "question"
        /\ current[c] \in DOMAIN steps /\ steps[current[c]].step_type = "question"
    BY <1>5, AnsweredEffect DEF Answered
  <2>2. step.step_type = "question"
    BY <1>0, <2>1 DEF Step
  <2> HIDE DEF step
  <2>3. FateOf(current[c])'
    BY <2>1, <2>2 DEF FateOf, Edits
  <2>4. /\ places \subseteq Running \cup {"closing", "cut"} /\ places \cap Ahead = {}
        /\ pc[c] \in Commanding \cup Questioning
    BY <2>1 DEF Running, Ahead, Questioning
  <2> HIDE DEF places
  <2> QED BY <2>1, <2>3, <2>4, FateEdit
<1>6. ASSUME NEW c \in Conns, Skip(c) PROVE FateInv'
  <2> DEFINE step == [steps[current[c]] EXCEPT !.status = "rejected"]
             places == {"reported", "cut"}
  <2>1. /\ Edits(current[c], step) /\ Moves(c, places) /\ UNCHANGED current /\ pc[c] = "waiting"
        /\ current[c] \in DOMAIN steps /\ steps[current[c]].by = c
    BY <1>6, SkipEffect DEF Skip, TypeInv, PhaseOK, Commanding
  <2>2. steps[current[c]].ran = "no"
    BY <2>1, FateOfAll DEF Waits, Ahead
  <2>3. step.by = c /\ step.ran = "no" /\ step.status = "rejected"
    BY <1>0, <2>1, <2>2 DEF Step
  <2> HIDE DEF step
  <2>4. FateOf(current[c])'
    BY <2>1, <2>3 DEF FateOf, Edits, Moves
  <2>5. /\ places \subseteq Running \cup {"closing", "cut"} /\ places \cap Ahead = {}
        /\ pc[c] \in Commanding \cup Questioning
    BY <2>1 DEF Running, Ahead, Commanding
  <2> HIDE DEF places
  <2> QED BY <2>1, <2>4, <2>5, FateEdit
<1>7. ASSUME NEW c \in Conns, Run(c) PROVE FateInv'
  <2> DEFINE step == [steps[current[c]] EXCEPT !.ran = "open"]
             places == {"running"}
  <2>1. /\ Edits(current[c], step) /\ Moves(c, places) /\ UNCHANGED current /\ pc[c] = "starting"
        /\ current[c] \in DOMAIN steps /\ steps[current[c]].by = c
    BY <1>7, RunEffect DEF Run, TypeInv, PhaseOK, Commanding
  <2>2. Undecided(steps[current[c]])
    BY <2>1, FateOfAll DEF Waits, Ahead
  <2>3. step.by = c /\ step.ran = "open" /\ Undecided(step)
    BY <1>0, <2>1, <2>2 DEF Step, Undecided
  <2> HIDE DEF step
  <2>4. FateOf(current[c])'
    BY <2>1, <2>3 DEF FateOf, Edits, Moves, Undecided
  <2>5. /\ places \subseteq Running \cup {"closing", "cut"} /\ places \cap Ahead = {}
        /\ pc[c] \in Commanding \cup Questioning
    BY <2>1 DEF Running, Ahead, Commanding
  <2> HIDE DEF places
  <2> QED BY <2>1, <2>4, <2>5, FateEdit
<1>8. ASSUME NEW c \in Conns, NEW fate \in {"done", "cut"}, NEW sent \in BOOLEAN, Finish(c, fate, sent)
      PROVE FateInv'
  <2> DEFINE status == IF fate = "done" /\ sent THEN "executed" ELSE "failed"
             step == [steps[current[c]] EXCEPT !.status = status, !.ran = fate]
             places == {"reported", "cut"}
  <2>1. /\ Edits(current[c], step) /\ Moves(c, places) /\ UNCHANGED current /\ pc[c] = "running"
        /\ current[c] \in DOMAIN steps /\ steps[current[c]].by = c
        /\ pc'[c] = IF sent THEN "reported" ELSE "cut"
    BY <1>8, FinishEffect DEF Finish, TypeInv, PhaseOK, Commanding
  <2>2. status \in {"executed", "failed"} /\ (status = "executed" <=> fate = "done" /\ sent)
    OBVIOUS
  <2> HIDE DEF status
  <2>3. step.by = c /\ step.ran = fate /\ step.status = status
    BY <1>0, <2>1 DEF Step
  <2> HIDE DEF step
  <2>4. FateOf(current[c])'
    BY <2>1, <2>2, <2>3 DEF FateOf, Edits, Ended
  <2>5. /\ places \subseteq Running \cup {"closing", "cut"} /\ places \cap Ahead = {}
        /\ pc[c] \in Commanding \cup Questioning
    BY <2>1 DEF Running, Ahead, Commanding
  <2> HIDE DEF places
  <2> QED BY <2>1, <2>4, <2>5, FateEdit
<1>9. ASSUME UNCHANGED steps,
             \A d \in Conns :
               /\ pc'[d] = pc[d] => current'[d] = current[d]
               /\ pc'[d] # pc[d] => /\ pc[d] \notin {"new", "accepted"} => Ended(d)'
                                    /\ Ended(d) => Ended(d)'
                                    /\ pc'[d] \notin Ahead
      PROVE  FateInv'
  <2>1. \A k \in DOMAIN steps : SameRecord(k)
    BY <1>9 DEF SameRecord
  <2> QED BY <1>9, <2>1, FateEnv DEF Ended
<1>10. ASSUME NEW c \in Conns, Connect(c) \/ Begin(c) \/ Disconnect(c) PROVE FateInv'
  <2>1. UNCHANGED <<steps, current>> /\ \A d \in Conns : d # c => pc'[d] = pc[d]
    BY <1>10, ConnectEffect, BeginEffect, DisconnectEffect DEF rowVars, Moves
  <2>2. \/ pc[c] = "new" /\ pc'[c] = "accepted"
        \/ pc[c] = "accepted" /\ pc'[c] \in {"opening", "off"}
        \/ pc[c] \in Running /\ pc'[c] = "cut"
    BY <1>10, ConnectEffect, BeginEffect, DisconnectEffect DEF Moves
  <2> QED BY <1>9, <2>1, <2>2 DEF Ended, Ahead, Running
<1>11. ASSUME NEW c \in Conns, CleanUp(c) PROVE FateInv'
  <2>1. {c} \in SUBSET Conns /\ LoseLocals({c}) /\ Moves(c, {"off"}) /\ UNCHANGED steps
        /\ pc[c] \in {"closing", "cut"}
    BY <1>11, CleanUpEffect
  <2>2. \A d \in Conns : d # c => pc'[d] = pc[d] /\ current'[d] = current[d]
    BY <2>1, LoseEffect DEF Moves
  <2> QED BY <1>9, <2>1, <2>2 DEF Moves, Ended, Ahead
<1>12. CASE Restart
  <2>1. /\ UNCHANGED steps /\ \A d \in Conns : pc'[d] \in {"new", "off"} /\ (pc[d] = "new" <=> pc'[d] = "new")
    BY <1>12, RestartEffect
  <2>2. \A k \in DOMAIN steps : SameRecord(k)
    BY <2>1 DEF SameRecord
  <2> QED BY <2>1, <2>2, FateEnv DEF Ended, Ahead
<1>13. ASSUME NEW c \in Conns, NEW k \in DOMAIN steps, Approve(c, k) PROVE FateInv'
  <2> DEFINE step == [steps[k] EXCEPT !.granted = TRUE]
  <2>1. Edits(k, step) /\ UNCHANGED <<pc, current>>
    BY <1>13, ApproveEffect, HearEffect
  <2>2. /\ step.by = steps[k].by /\ step.step_type = steps[k].step_type /\ step.ran = steps[k].ran
        /\ step.status = steps[k].status /\ step.restRejected = steps[k].restRejected
    BY <1>0 DEF Step
  <2> HIDE DEF step
  <2>3. \A l \in DOMAIN steps : SameRecord(l)
    BY <2>1, <2>2 DEF SameRecord, Edits
  <2> QED BY <2>1, <2>3, FateEnv DEF Edits, Ended
<1>14. CASE RestReject
  <2>1. PICK k \in DOMAIN steps : /\ steps[k].status = "pending"
                                 /\ Edits(k, [steps[k] EXCEPT !.status = "rejected", !.restRejected = TRUE])
    BY <1>14, RestRejectEffect
  <2> DEFINE step == [steps[k] EXCEPT !.status = "rejected", !.restRejected = TRUE]
  <2>2. Edits(k, step) /\ UNCHANGED <<pc, current>>
    BY <1>14, <2>1, RestRejectEffect
  <2>3. /\ step.by = steps[k].by /\ step.step_type = steps[k].step_type /\ step.ran = steps[k].ran
        /\ step.status = "rejected" /\ step.restRejected
    BY <1>0 DEF Step
  <2> HIDE DEF step
  <2>4. \A l \in DOMAIN steps : SameRecord(l)
    BY <2>1, <2>2, <2>3 DEF SameRecord, Edits
  <2> QED BY <2>2, <2>4, FateEnv DEF Edits, Ended
<1>15. CASE RestStop
  <2>1. /\ UNCHANGED <<steps, current>>
        /\ \A d \in Conns : pc'[d] = IF d = agent_tasks /\ pc[d] \in Running THEN "cut" ELSE pc[d]
    BY <1>15, RestStopEffect
  <2> QED BY <1>9, <2>1 DEF Ended, Ahead
<1>16. ASSUME UNCHANGED <<steps, pc, current>> PROVE FateInv'
  BY <1>9, <1>16
<1> QED
  BY <1>1, <1>2, <1>3, <1>4, <1>5, <1>6, <1>7, <1>8, <1>10, <1>11, <1>12, <1>13, <1>14, <1>15, <1>16
  DEF Next, AgentStep, Quiet, ClientStep, AskToStop, Reject, Answer, Hear, rowVars, vars

LEMMA FateHolds == Spec => [](TypeInv /\ FateInv)
<1>1. Init => FateInv
  <2>1. Init => DOMAIN steps = {}
    BY EmptySeq DEF Init
  <2> QED BY <2>1 DEF Init, FateInv, RecordTellsFate
<1>2. TypeInv /\ FateInv /\ [Next]_vars => (TypeInv /\ FateInv)'
  BY TypeStep, FateStep
<1> QED BY <1>1, <1>2, TypeInit, PTL DEF Spec

\* What the table says of a command is what the host did of it, whenever its agent ends
\* and whatever POST reject marks meanwhile.
THEOREM RecordIsTrue == Spec => []RecordTellsFate
<1>1. TypeInv /\ FateInv => RecordTellsFate
  BY DEF FateInv
<1> QED BY <1>1, FateHolds, PTL

---------------------------------------------------------------------------
(* Consent                                                                 *)

\* What a connection's flags mean where its agent is.
Means(c) ==
    /\ pc[c] = "waiting" /\ event[c] /\ ~stop_requested[c] /\ approved[c] =>
         steps[current[c]].granted
    /\ pc[c] = "question" /\ event[c] /\ ~stop_requested[c] => answer[c] = current[c]
    /\ pc[c] \in {"starting", "running"} => steps[current[c]].granted \/ session.auto_approve

ConsentOf(k) ==
    /\ steps[k].ran # "no" => steps[k].granted \/ session.auto_approve
    /\ steps[k].step_type = "question" /\ steps[k].status = "executed" => steps[k].output = k

LEMMA ConsentOfAll ==
    ASSUME ConsentInv, ~astray
    PROVE  (\A c \in Conns : Means(c)) /\ (\A k \in DOMAIN steps : ConsentOf(k))
BY DEF ConsentInv, Means, ConsentUnlessAstray, ConsentOf

LEMMA ConsentOfAllNext ==
    ASSUME \A c \in Conns : Means(c)', \A k \in DOMAIN steps' : ConsentOf(k)'
    PROVE  ConsentInv'
BY DEF ConsentInv, Means, ConsentUnlessAstray, ConsentOf

\* A step of an agent touches the flags and the steps of no other connection.
LEMMA ConsentAgent ==
    ASSUME TypeInv, ConsentInv, ~astray, NEW c \in Conns, NEW places, Moves(c, places),
           UNCHANGED <<approved, answer, stop_requested>>,
           session'.auto_approve = session.auto_approve,
           \A d \in Conns \ {c} : event'[d] = event[d] /\ current'[d] = current[d],
           \A k \in DOMAIN steps' : ConsentOf(k)' \/ (k \in DOMAIN steps /\ steps'[k] = steps[k]),
           \A l \in DOMAIN steps : steps[l].by # c => steps'[l] = steps[l],
           Means(c)'
    PROVE  ConsentInv'
<1>0. (\A d \in Conns : Means(d)) /\ (\A k \in DOMAIN steps : ConsentOf(k))
  BY ConsentOfAll
<1>1. ASSUME NEW d \in Conns, d # c PROVE Means(d)'
  <2>1. /\ pc'[d] = pc[d] /\ event'[d] = event[d] /\ current'[d] = current[d] /\ Means(d)
    BY <1>0, <1>1 DEF Moves
  <2>2. pc[d] \in {"waiting", "starting", "running"} => steps'[current[d]] = steps[current[d]]
    BY <1>1 DEF TypeInv, PhaseOK, Commanding
  <2> QED BY <2>1, <2>2 DEF Means
<1>2. \A k \in DOMAIN steps' : ConsentOf(k)'
  BY <1>0 DEF ConsentOf
<1> QED BY <1>1, <1>2, ConsentOfAllNext

\* An edit of an agent's own step.
LEMMA ConsentEdit ==
    ASSUME TypeInv, ConsentInv, ~astray, NEW c \in Conns, NEW places, Moves(c, places),
           UNCHANGED <<approved, answer, stop_requested, event, current>>,
           session'.auto_approve = session.auto_approve, pc[c] \in Commanding \cup Questioning,
           NEW step, Edits(current[c], step), ConsentOf(current[c])', Means(c)'
    PROVE  ConsentInv'
<1>1. PICK k \in DOMAIN steps : k = current[c] /\ steps[k].by = c
  BY DEF TypeInv, PhaseOK
<1>2. /\ \A l \in DOMAIN steps' : ConsentOf(l)' \/ (l \in DOMAIN steps /\ steps'[l] = steps[l])
      /\ \A l \in DOMAIN steps : steps[l].by # c => steps'[l] = steps[l]
  BY <1>1 DEF Edits
<1> QED BY <1>2, ConsentAgent

LEMMA ConsentAdd ==
    ASSUME TypeInv, ConsentInv, ~astray, NEW c \in Conns, NEW places, Moves(c, places),
           places \cap {"waiting", "question", "starting", "running"} = {},
           UNCHANGED <<approved, answer, stop_requested, event>>,
           session'.auto_approve = session.auto_approve,
           NEW step, Adds(c, step), step.ran = "no", step.step_type = "question" => step.status = "pending"
    PROVE  ConsentInv'
<1>0. PICK new : new = Len(steps) + 1
  OBVIOUS
<1>1. /\ DOMAIN steps' = DOMAIN steps \cup {new} /\ steps'[new] = step
      /\ \A l \in DOMAIN steps : steps'[l] = steps[l]
      /\ \A d \in Conns \ {c} : current'[d] = current[d]
  BY <1>0 DEF Adds
<1>2. ConsentOf(new)'
  BY <1>1 DEF ConsentOf
<1>3. Means(c)'
  BY DEF Means, Moves
<1> QED BY <1>1, <1>2, <1>3, ConsentAgent

\* What the clients and the end of a handler may do: nothing runs, nothing is answered.
SameConsent(k) ==
    /\ steps'[k].ran = steps[k].ran /\ steps'[k].step_type = steps[k].step_type
    /\ steps[k].granted => steps'[k].granted
    /\ steps'[k].status = "executed" => steps[k].status = "executed"
    /\ steps'[k].output = steps[k].output

LEMMA ConsentEnv ==
    ASSUME TypeInv, ConsentInv, ~astray, DOMAIN steps' = DOMAIN steps, \A k \in DOMAIN steps : SameConsent(k),
           session'.auto_approve = session.auto_approve,
           \A d \in Conns :
             \/ Means(d)'
             \/ pc'[d] \notin {"waiting", "question", "starting", "running"}
             \/ /\ pc'[d] = pc[d] /\ current'[d] = current[d] /\ approved'[d] = approved[d]
                /\ answer'[d] = answer[d]
                /\ event'[d] /\ ~stop_requested'[d] => event[d] /\ ~stop_requested[d]
    PROVE  ConsentInv'
<1>0. (\A d \in Conns : Means(d)) /\ (\A k \in DOMAIN steps : ConsentOf(k))
  BY ConsentOfAll
<1>1. ASSUME NEW d \in Conns PROVE Means(d)'
  <2>1. CASE pc'[d] \notin {"waiting", "question", "starting", "running"}
    BY <2>1 DEF Means
  <2>2. CASE /\ pc'[d] = pc[d] /\ current'[d] = current[d] /\ approved'[d] = approved[d]
             /\ answer'[d] = answer[d]
             /\ event'[d] /\ ~stop_requested'[d] => event[d] /\ ~stop_requested[d]
    <3>1. pc[d] \in {"waiting", "starting", "running"} =>
            (steps[current[d]].granted => steps'[current[d]].granted)
      BY DEF TypeInv, PhaseOK, Commanding, SameConsent
    <3>2. Means(d)
      BY <1>0
    <3> QED BY <2>2, <3>1, <3>2 DEF Means
  <2> QED BY <2>1, <2>2
<1>2. ASSUME NEW k \in DOMAIN steps PROVE ConsentOf(k)'
  <2>1. ConsentOf(k) /\ SameConsent(k)
    BY <1>0
  <2> QED BY <2>1 DEF ConsentOf, SameConsent
<1> QED BY <1>1, <1>2, ConsentOfAllNext

\* Where the agent goes without touching a step, its flags mean what they should.
LEMMA QuietMeans ==
    ASSUME TypeInv, ConsentInv, ~astray, NEW c \in Conns, Quiet(c)
    PROVE  Means(c)'
<1>0. TypeOK /\ Means(c)
  BY ConsentOfAll DEF TypeInv
<1>1. CASE CannotOpen(c)
  BY <1>0, <1>1 DEF CannotOpen, Means, TypeOK
<1>2. CASE Open(c)
  BY <1>0, <1>2, SendMoves DEF Open, Running, Moves, Means
<1>3. CASE EnterLoop(c)
  BY <1>0, <1>3, LoopHeadEffect DEF EnterLoop, Moves, Means
<1>4. CASE LLMError(c)
  BY <1>0, <1>4, RowKept, LeaveEffect DEF LLMError, Moves, Means
<1>5. CASE NoAction(c)
  <2>1. CASE loaded[c].number < session.max_steps /\ ~stop_requested[c]
    BY <1>0, <1>5, <2>1, AskEffect DEF NoAction, Moves, Means
  <2>2. CASE ~(loaded[c].number < session.max_steps /\ ~stop_requested[c])
    BY <1>0, <1>5, <2>2, RowKept, LeaveEffect DEF NoAction, ExitBy, Moves, Means
  <2> QED BY <2>1, <2>2
<1>6. CASE AwaitApproval(c)
  <2>1. CASE session.auto_approve
    <3>1. Moves(c, {"starting", "cut"})
      BY <1>0, <1>6, <2>1, SendMoves DEF AwaitApproval, Running
    <3>2. session'.auto_approve
      BY <1>0, <1>6, <2>1 DEF AwaitApproval, TypeOK
    <3> QED BY <3>1, <3>2 DEF Moves, Means
  <2>2. CASE ~session.auto_approve
    BY <1>0, <1>6, <2>2, SendMoves DEF AwaitApproval, Running, Moves, Means
  <2> QED BY <2>1, <2>2
<1>7. CASE Wait(c)
  <2>1. ~event'[c] /\ pc'[c] \in {"waiting", "question"}
    BY <1>0, <1>7 DEF Wait, TypeOK
  <2> QED BY <2>1 DEF Means
<1>8. CASE StopWaiting(c)
  BY <1>0, <1>8, RowKept, LeaveEffect DEF StopWaiting, Moves, Means
<1>9. CASE Execute(c)
  <2>1. Moves(c, {"starting", "cut"}) /\ UNCHANGED <<steps, current>>
    BY <1>0, <1>9, SendMoves DEF Execute, Running
  <2>2. steps[current[c]].granted
    BY <1>0, <1>9 DEF Execute, Means
  <2> QED BY <2>1, <2>2 DEF Moves, Means
<1>10. CASE Resume(c)
  BY <1>0, <1>10, SendMoves DEF Resume, Running, Moves, Means
<1> QED
  BY <1>1, <1>2, <1>3, <1>4, <1>5, <1>6, <1>7, <1>8, <1>9, <1>10 DEF Quiet

\* A message that ends no wait that it was not meant for.
LEMMA ConsentMessage ==
    ASSUME TypeInv, ConsentInv, ~astray', NEW c \in Conns, NEW k \in DOMAIN steps,
           Approve(c, k) \/ Reject(c, k) \/ Answer(c, k)
    PROVE  ConsentInv'
<1>0. /\ UNCHANGED <<session, pc, stop_requested, current>>
      /\ \A d \in Conns \ {c} : event'[d] = event[d]
  BY HearEffect DEF Approve, Reject, Answer
<1>1. ~astray /\ Means(c)
  BY HearEffect, ConsentOfAll DEF Approve, Reject, Answer
<1>2. pc[c] \in {"waiting", "starting", "running"} => current[c] \in DOMAIN steps
  BY DEF TypeInv, PhaseOK, Commanding
<1>3. CASE Approve(c, k)
  <2> DEFINE step == [steps[k] EXCEPT !.granted = TRUE]
  <2>1. /\ Edits(k, step) /\ ~Misses(c, k, "waiting") /\ UNCHANGED answer
        /\ \A d \in Conns \ {c} : approved'[d] = approved[d]
    BY <1>3, ApproveEffect, HearEffect
  <2>2. /\ step.ran = steps[k].ran /\ step.step_type = steps[k].step_type /\ step.granted
        /\ step.status = steps[k].status /\ step.output = steps[k].output
    BY StepsDomain DEF Step, TypeInv
  <2> HIDE DEF step
  <2>3. DOMAIN steps' = DOMAIN steps /\ \A l \in DOMAIN steps : SameConsent(l)
    BY <2>1, <2>2 DEF SameConsent, Edits
  <2>4. Means(c)'
    <3>1. pc[c] # "question" /\ (pc[c] = "waiting" => k = current[c])
      BY <2>1 DEF Misses
    <3>2. pc[c] = "waiting" => steps'[current[c]].granted
      BY <2>1, <2>2, <3>1 DEF Edits
    <3>3. pc[c] \in {"starting", "running"} => steps'[current[c]].granted \/ session.auto_approve
      BY <1>1, <1>2, <2>3 DEF SameConsent, Means
    <3> QED BY <1>0, <3>1, <3>2, <3>3 DEF Means
  <2> QED BY <1>0, <1>1, <2>1, <2>3, <2>4, ConsentEnv
<1>4. CASE Reject(c, k)
  <2>1. /\ UNCHANGED <<steps, answer>> /\ ~Misses(c, k, "waiting") /\ ~approved'[c]
        /\ \A d \in Conns \ {c} : approved'[d] = approved[d]
    BY <1>4, HearEffect DEF Reject, TypeInv, TypeOK
  <2>2. Means(c)'
    BY <1>0, <1>1, <2>1 DEF Means, Misses
  <2>3. \A l \in DOMAIN steps : SameConsent(l)
    BY <2>1 DEF SameConsent
  <2> QED BY <1>0, <1>1, <2>1, <2>2, <2>3, ConsentEnv
<1>5. CASE Answer(c, k)
  <2>1. /\ UNCHANGED <<steps, approved>> /\ ~Misses(c, k, "question") /\ answer'[c] = k
        /\ \A d \in Conns \ {c} : answer'[d] = answer[d]
    BY <1>5, HearEffect DEF Answer, TypeInv, TypeOK
  <2>2. Means(c)'
    BY <1>0, <1>1, <2>1 DEF Means, Misses
  <2>3. \A l \in DOMAIN steps : SameConsent(l)
    BY <2>1 DEF SameConsent
  <2> QED BY <1>0, <1>1, <2>1, <2>2, <2>3, ConsentEnv
<1> QED BY <1>3, <1>4, <1>5

LEMMA ConsentStep ==
    ASSUME TypeInv, ConsentInv, [Next]_vars
    PROVE  ConsentInv'
<1> SUFFICES ASSUME ~astray'
             PROVE  ConsentInv'
  BY DEF ConsentInv, ConsentUnlessAstray
<1>0. TypeOK /\ \A l \in DOMAIN steps : steps[l] \in Step
  BY StepsDomain DEF TypeInv
<1>1. ASSUME NEW c \in Conns, AgentStep(c) PROVE ConsentInv'
  <2>1. ~astray /\ UNCHANGED <<approved, answer, stop_requested>>
    BY <1>1, AgentFrame DEF histVars
  <2>2. (\A d \in Conns : Means(d)) /\ (\A k \in DOMAIN steps : ConsentOf(k))
    BY <2>1, ConsentOfAll
  <2>3. CASE Quiet(c)
    <3>1. /\ Moves(c, Running \cup {"closing", "cut"}) /\ UNCHANGED <<steps, current>>
          /\ session'.auto_approve = session.auto_approve /\ \A d \in Conns \ {c} : event'[d] = event[d]
      BY <2>3, QuietEffect DEF KeepsRow
    <3>2. Means(c)'
      BY <2>1, <2>3, QuietMeans
    <3> QED BY <2>1, <3>1, <3>2, ConsentAgent
  <2>4. CASE Ask(c)
    <3> DEFINE step == NewStep(c, session.current_step_number + 1, "question", "pending")
               places == {"asked", "cut"}
    <3>1. Adds(c, step) /\ Moves(c, places) /\ UNCHANGED event /\ session'.auto_approve = session.auto_approve
      BY <2>4, AskUserEffect DEF CountsFrom
    <3>2. step.ran = "no" /\ step.status = "pending"
      BY NewStepFields
    <3>3. places \cap {"waiting", "question", "starting", "running"} = {}
      OBVIOUS
    <3> HIDE DEF step, places
    <3> QED BY <2>1, <3>1, <3>2, <3>3, ConsentAdd
  <2>5. CASE Propose(c)
    <3> DEFINE step == NewStep(c, loaded[c].number + 1, "command", "pending")
               places == {"shown", "cut"}
    <3>1. Adds(c, step) /\ Moves(c, places) /\ UNCHANGED event /\ session'.auto_approve = session.auto_approve
      BY <2>5, ProposeEffect DEF CountsFrom
    <3>2. step.ran = "no" /\ step.status = "pending"
      BY NewStepFields
    <3>3. places \cap {"waiting", "question", "starting", "running"} = {}
      OBVIOUS
    <3> HIDE DEF step, places
    <3> QED BY <2>1, <3>1, <3>2, <3>3, ConsentAdd
  <2>6. ASSUME NEW status \in {"completed", "failed"}, Conclude(c, status) PROVE ConsentInv'
    <3>1. PICK type \in {"complete", "failed"}, result \in {"executed", "failed"} :
              Adds(c, NewStep(c, session.current_step_number + 1, type, result))
      BY <2>6, ConcludeEffect
    <3> DEFINE step == NewStep(c, session.current_step_number + 1, type, result)
               places == {"closing"}
    <3>2. Adds(c, step) /\ Moves(c, places) /\ UNCHANGED event /\ session'.auto_approve = session.auto_approve
      BY <2>6, <3>1, ConcludeEffect DEF KeepsRow
    <3>3. step.ran = "no" /\ step.step_type # "question"
      BY NewStepFields
    <3>4. places \cap {"waiting", "question", "starting", "running"} = {}
      OBVIOUS
    <3> HIDE DEF step, places
    <3> QED BY <2>1, <3>2, <3>3, <3>4, ConsentAdd
  <2>7. CASE Answered(c)
    <3> DEFINE step == [steps[current[c]] EXCEPT !.status = "executed", !.output = answer[c]]
    <3>1. /\ Edits(current[c], step) /\ Moves(c, {"llm", "closing", "cut"}) /\ UNCHANGED <<current, event>>
          /\ current[c] \in DOMAIN steps /\ session'.auto_approve = session.auto_approve
          /\ pc[c] = "question" /\ event[c] /\ ~stop_requested[c]
      BY <2>7, AnsweredEffect DEF Answered, KeepsRow
    <3>2. answer[c] = current[c]
      BY <2>2, <3>1 DEF Means
    <3>3. /\ step.ran = steps[current[c]].ran /\ step.granted = steps[current[c]].granted
          /\ step.output = current[c]
      BY <1>0, <3>1, <3>2 DEF Step
    <3> HIDE DEF step
    <3>4. ConsentOf(current[c])'
      BY <2>2, <3>1, <3>3 DEF ConsentOf, Edits
    <3>5. Means(c)' /\ pc[c] \in Questioning
      BY <3>1 DEF Means, Moves, Questioning
    <3> QED BY <2>1, <3>1, <3>4, <3>5, ConsentEdit
  <2>8. CASE Skip(c)
    <3> DEFINE step == [steps[current[c]] EXCEPT !.status = "rejected"]
    <3>1. /\ Edits(current[c], step) /\ Moves(c, {"reported", "cut"}) /\ UNCHANGED <<session, current, event>>
          /\ current[c] \in DOMAIN steps /\ pc[c] = "waiting"
      BY <2>8, SkipEffect DEF Skip
    <3>2. /\ step.ran = steps[current[c]].ran /\ step.granted = steps[current[c]].granted
          /\ step.status = "rejected"
      BY <1>0, <3>1 DEF Step
    <3> HIDE DEF step
    <3>3. ConsentOf(current[c])'
      BY <2>2, <3>1, <3>2 DEF ConsentOf, Edits
    <3>4. Means(c)' /\ pc[c] \in Commanding
      BY <3>1 DEF Means, Moves, Commanding
    <3> QED BY <2>1, <3>1, <3>3, <3>4, ConsentEdit
  <2>9. CASE Run(c)
    <3> DEFINE step == [steps[current[c]] EXCEPT !.ran = "open"]
    <3>1. /\ Edits(current[c], step) /\ Moves(c, {"running"}) /\ UNCHANGED <<session, current, event>>
          /\ current[c] \in DOMAIN steps /\ steps[current[c]].step_type = "command" /\ pc[c] = "starting"
      BY <2>9, RunEffect DEF Run
    <3>2. step.granted = steps[current[c]].granted /\ step.step_type = "command"
      BY <1>0, <3>1 DEF Step
    <3> HIDE DEF step
    <3>3. steps'[current[c]].granted \/ session.auto_approve
      BY <2>2, <3>1, <3>2 DEF Means, Edits
    <3>4. ConsentOf(current[c])'
      BY <3>1, <3>2, <3>3 DEF ConsentOf, Edits
    <3>5. Means(c)' /\ pc[c] \in Commanding
      BY <3>1, <3>3 DEF Means, Moves, Commanding
    <3> QED BY <2>1, <3>1, <3>4, <3>5, ConsentEdit
  <2>10. ASSUME NEW fate \in {"done", "cut"}, NEW sent \in BOOLEAN, Finish(c, fate, sent) PROVE ConsentInv'
    <3> DEFINE status == IF fate = "done" /\ sent THEN "executed" ELSE "failed"
               step == [steps[current[c]] EXCEPT !.status = status, !.ran = fate]
    <3>1. /\ Edits(current[c], step) /\ Moves(c, {"reported", "cut"}) /\ UNCHANGED <<session, current, event>>
          /\ current[c] \in DOMAIN steps /\ steps[current[c]].step_type = "command" /\ pc[c] = "running"
      BY <2>10, FinishEffect DEF Finish
    <3> HIDE DEF status
    <3>2. step.granted = steps[current[c]].granted /\ step.step_type = "command"
      BY <1>0, <3>1 DEF Step
    <3> HIDE DEF step
    <3>3. steps'[current[c]].granted \/ session.auto_approve
      BY <2>2, <3>1, <3>2 DEF Means, Edits
    <3>4. ConsentOf(current[c])'
      BY <3>1, <3>2, <3>3 DEF ConsentOf, Edits
    <3>5. Means(c)' /\ pc[c] \in Commanding
      BY <3>1 DEF Means, Moves, Commanding
    <3> QED BY <2>1, <3>1, <3>4, <3>5, ConsentEdit
  <2> QED BY <1>1, <2>3, <2>4, <2>5, <2>6, <2>7, <2>8, <2>9, <2>10 DEF AgentStep, Quiet
<1>2. ASSUME ~astray, UNCHANGED steps, session'.auto_approve = session.auto_approve,
             \A d \in Conns :
               \/ pc'[d] \notin {"waiting", "question", "starting", "running"}
               \/ /\ pc'[d] = pc[d] /\ current'[d] = current[d] /\ approved'[d] = approved[d]
                  /\ answer'[d] = answer[d]
                  /\ event'[d] /\ ~stop_requested'[d] => event[d] /\ ~stop_requested[d]
      PROVE  ConsentInv'
  <2>1. \A k \in DOMAIN steps : SameConsent(k)
    BY <1>2 DEF SameConsent
  <2> QED BY <1>2, <2>1, ConsentEnv
<1>3. ASSUME NEW c \in Conns, Connect(c) PROVE ConsentInv'
  BY <1>2, <1>3, ConnectEffect DEF rowVars, flagVars, histVars, Moves
<1>4. ASSUME NEW c \in Conns, Begin(c) PROVE ConsentInv'
  BY <1>2, <1>4, BeginEffect DEF rowVars, flagVars, Moves
<1>5. ASSUME NEW c \in Conns, Disconnect(c) PROVE ConsentInv'
  BY <1>2, <1>5, DisconnectEffect DEF rowVars, flagVars, Moves
<1>6. ASSUME NEW c \in Conns, AskToStop(c) PROVE ConsentInv'
  BY <1>2, <1>6, AskToStopEffect DEF rowVars, histVars
<1>7. ASSUME NEW c \in Conns, CleanUp(c) PROVE ConsentInv'
  <2>1. {c} \in SUBSET Conns /\ LoseLocals({c}) /\ Moves(c, {"off"})
        /\ UNCHANGED <<session, steps, astray>>
    BY <1>7, CleanUpEffect
  <2>2. \A d \in Conns : d # c =>
          /\ pc'[d] = pc[d] /\ current'[d] = current[d] /\ approved'[d] = approved[d]
          /\ answer'[d] = answer[d] /\ event'[d] = event[d] /\ stop_requested'[d] = stop_requested[d]
    BY <2>1, LoseEffect DEF Moves
  <2> QED BY <1>2, <2>1, <2>2 DEF Moves
<1>8. CASE Restart
  <2>1. \A d \in Conns : pc'[d] \in {"new", "off"}
    BY <1>8, RestartEffect
  <2> QED BY <1>2, <1>8, <2>1, RestartEffect
<1>9. CASE RestReject
  <2>1. PICK k \in DOMAIN steps : Edits(k, [steps[k] EXCEPT !.status = "rejected", !.restRejected = TRUE])
    BY <1>9, RestRejectEffect
  <2> DEFINE step == [steps[k] EXCEPT !.status = "rejected", !.restRejected = TRUE]
  <2>2. Edits(k, step)
    BY <2>1
  <2>3. /\ step.ran = steps[k].ran /\ step.step_type = steps[k].step_type
        /\ step.granted = steps[k].granted /\ step.status = "rejected" /\ step.output = steps[k].output
    BY <1>0 DEF Step
  <2> HIDE DEF step
  <2>4. DOMAIN steps' = DOMAIN steps /\ \A l \in DOMAIN steps : SameConsent(l)
    BY <2>2, <2>3 DEF SameConsent, Edits
  <2>5. ~astray /\ UNCHANGED <<session, pc, current, event, approved, answer, stop_requested>>
    <3>1. UNCHANGED <<session, pc, current, flagVars, histVars>>
      BY <1>9, RestRejectEffect
    <3> QED BY <3>1 DEF flagVars, histVars
  <2> QED BY <2>4, <2>5, ConsentEnv
<1>10. CASE RestStop
  <2>1. /\ session'.auto_approve = session.auto_approve /\ ~astray
        /\ UNCHANGED <<steps, current, event, approved, answer, stop_requested>>
        /\ \A d \in Conns : pc'[d] = IF d = agent_tasks /\ pc[d] \in Running THEN "cut" ELSE pc[d]
    BY <1>10, RestStopEffect DEF flagVars, KeepsRow
  <2>2. \A d \in Conns : pc'[d] = "cut" \/ pc'[d] = pc[d]
    BY <2>1
  <2> QED BY <1>2, <2>1, <2>2
<1>11. CASE UNCHANGED vars
  BY <1>2, <1>11 DEF vars, rowVars, flagVars, histVars
<1> QED
  BY <1>1, <1>3, <1>4, <1>5, <1>6, <1>7, <1>8, <1>9, <1>10, <1>11, ConsentMessage DEF Next, ClientStep

LEMMA ConsentHolds == Spec => [](TypeInv /\ ConsentInv)
<1>1. Init => ConsentInv
  <2>1. Init => DOMAIN steps = {}
    BY EmptySeq DEF Init
  <2> QED BY <2>1 DEF Init, ConsentInv, ConsentUnlessAstray
<1>2. TypeInv /\ ConsentInv /\ [Next]_vars => (TypeInv /\ ConsentInv)'
  BY TypeStep, ConsentStep
<1> QED BY <1>1, <1>2, TypeInit, PTL DEF Spec

\* No command runs without an approval over the socket for that step or auto_approve,
\* and no question is closed with the answer to another, unless a wait was ended by a
\* message that was not meant for it.
THEOREM NothingRunsUnasked == Spec => []ConsentUnlessAstray
<1>1. TypeInv /\ ConsentInv => ConsentUnlessAstray
  BY DEF ConsentInv
<1> QED BY <1>1, ConsentHolds, PTL

=============================================================================
