---------------------------- MODULE AgentSession ----------------------------
(***************************************************************************)
(* One agent session of routers/agent_api.py: the row and its steps, the   *)
(* WebSocket connections that run an agent on it, and the REST endpoints   *)
(* that reject its pending step or stop it.                                *)
(*                                                                         *)
(* A connection runs two tasks.  handle_messages turns each message into   *)
(* flags of the connection (Approve, Reject, Answer, AskToStop) and sets   *)
(* its event; run_agent is the loop, modelled from one await to the next.  *)
(* Nothing limits a session to one connection, and agent_tasks remembers   *)
(* one task per session.  A send to a client that is gone raises.          *)
(*                                                                         *)
(* POST approve and POST answer only broadcast a message to the clients:   *)
(* they change none of this state, and no agent hears of them.             *)
(***************************************************************************)
EXTENDS Integers, Sequences, FiniteSets

CONSTANTS
    ConnBound,      \* bound: WebSocket connections, those of one client that comes back included
    MaxSteps,       \* bound: the largest max_steps of a session
    StepBound,      \* bound: command and question steps of the whole session
    RequestBound    \* bound: messages and REST requests of the clients

ASSUME ConnBoundAssumption == ConnBound \in Nat
ASSUME MaxStepsAssumption == MaxSteps \in Nat \ {0}
ASSUME BoundsAssumption == StepBound \in Nat /\ RequestBound \in Nat

\* Connections are numbered as they arrive; 0 is none.
Conns == 1 .. ConnBound
None == 0

Final == {"completed", "failed", "stopped"}

Status == Final \cup {"idle", "thinking", "awaiting_approval", "awaiting_input", "executing"}

\* AgentStep, with `by`, the connection whose agent made it.  History: `ran`, what the
\* host did of the command ("cut": timed out, or lost with the SSH connection); `granted`,
\* a client approved this step over the socket; `restRejected`, it was rejected by POST.
\* `output` names the answer recorded.
Step == [by : Conns, step_number : Nat \ {0},
         step_type : {"command", "question", "complete", "failed"},
         status : {"pending", "executed", "rejected", "failed"},
         output : Nat,
         ran : {"no", "open", "done", "cut"},
         granted : BOOLEAN, restRejected : BOOLEAN]

VARIABLES
    session,        \* the row: [status, current_step_number, max_steps, auto_approve]
    steps,          \* its steps, in the order they were inserted
    agent_tasks,    \* the connection whose task is registered for the session
    pc,             \* where each connection is
    loaded,         \* status and number its ORM object holds, "expired" after a commit
    event, approved, answer, stop_requested,    \* what handle_messages shares with run_agent
    current,        \* index of the step its agent made last, 0 before the first
    requests,       \* messages and REST requests so far
    overlap,        \* history: a task was registered while another one had not been cleaned up
    stopSaw,        \* history: agents, not ended yet, that ran when stop was last requested
    astray          \* history: a wait was ended by a message that was not meant for it

rowVars == <<session, steps>>
flagVars == <<event, approved, answer, stop_requested>>
histVars == <<overlap, stopSaw, astray>>
vars == <<rowVars, agent_tasks, pc, loaded, flagVars, current, requests, histVars>>

\* Where an agent is: in which await.  "accepted" has no task yet, "closing" has left
\* the loop, "cut" was cancelled or has raised or given up, "off" has been cleaned up.
Running == {"opening", "llm", "shown", "asking", "waiting", "asked", "question",
            "starting", "running", "reported", "resumed"}

TypeOK ==
    /\ session \in [status : Status, current_step_number : Nat, max_steps : 1 .. MaxSteps,
                    auto_approve : BOOLEAN]
    /\ steps \in Seq(Step)
    /\ agent_tasks \in Conns \cup {None}
    /\ pc \in [Conns -> Running \cup {"new", "accepted", "closing", "cut", "off"}]
    /\ loaded \in [Conns -> [status : Status \cup {"expired"}, number : Nat]]
    /\ event \in [Conns -> BOOLEAN]
    /\ approved \in [Conns -> BOOLEAN]
    /\ answer \in [Conns -> Nat]
    /\ stop_requested \in [Conns -> BOOLEAN]
    /\ current \in [Conns -> 0 .. Len(steps)]
    /\ requests \in 0 .. RequestBound
    /\ overlap \in BOOLEAN
    /\ stopSaw \subseteq Conns
    /\ astray \in BOOLEAN

Expired == [status |-> "expired", number |-> 0]

\* POST /start
Init ==
    /\ session \in [status : {"idle"}, current_step_number : {0}, max_steps : 1 .. MaxSteps,
                    auto_approve : BOOLEAN]
    /\ steps = <<>>
    /\ agent_tasks = None
    /\ pc = [c \in Conns |-> "new"]
    /\ loaded = [c \in Conns |-> Expired]
    /\ event = [c \in Conns |-> FALSE]
    /\ approved = [c \in Conns |-> FALSE]
    /\ answer = [c \in Conns |-> 0]
    /\ stop_requested = [c \in Conns |-> FALSE]
    /\ current = [c \in Conns |-> 0]
    /\ requests = 0
    /\ overlap = FALSE /\ stopSaw = {} /\ astray = FALSE

---------------------------------------------------------------------------
(* Helpers                                                                 *)

\* session.status = s; db.commit(): no UPDATE when the object already held s.
SetStatus(c, s) ==
    IF loaded[c].status = s THEN session ELSE [session EXCEPT !.status = s]

Expire(c) == loaded' = [loaded EXCEPT ![c] = Expired]

Refreshed(row) == [status |-> row.status, number |-> row.current_step_number]

\* A send ends the step: the agent goes on to its next await, or, when the client is
\* gone and the server knows, the send raises.
GoTo(c, next, sent) ==
    pc' = [pc EXCEPT ![c] = IF sent THEN next ELSE "cut"]

SendAndGoTo(c, next) == \E sent \in BOOLEAN : GoTo(c, next, sent)

\* Mutant: compares with >.
LeaveAboveMax(c, seen, row, where) ==
    /\ session' = IF seen.number > row.max_steps /\ seen.status \notin Final
                  THEN [row EXCEPT !.status = "failed"] ELSE row
    /\ pc' = [pc EXCEPT ![c] = where]
    /\ Expire(c)

\* Out of the loop, before the check for the maximum, with the row as the agent sees it.
Leave(c, seen, row, where) ==
    /\ session' = IF seen.number >= row.max_steps /\ seen.status \notin Final
                  THEN [row EXCEPT !.status = "failed"] ELSE row
    /\ pc' = [pc EXCEPT ![c] = where]
    /\ Expire(c)

ExitBy(c) == IF stop_requested[c] THEN "cut" ELSE "closing"

\* The rest of the loop's head, once its condition holds.
RefreshAndAsk(c) ==
    IF session.status = "stopped"
    THEN Leave(c, Refreshed(session), session, "closing")
    ELSE /\ pc' = [pc EXCEPT ![c] = "llm"]
         /\ loaded' = [loaded EXCEPT ![c] = Refreshed(session)]
         /\ UNCHANGED session

\* The head of the loop after a commit: the condition reads the row again.
LoopHead(c) ==
    IF session.current_step_number < session.max_steps /\ ~stop_requested[c]
    THEN RefreshAndAsk(c)
    ELSE Leave(c, Refreshed(session), session, ExitBy(c))

NewStep(c, n, type, status) ==
    [by |-> c, step_number |-> n, step_type |-> type, status |-> status, output |-> 0,
     ran |-> "no", granted |-> FALSE, restRejected |-> FALSE]

\* The steps that count towards max_steps.
Counted == {k \in DOMAIN steps : steps[k].step_type \in {"command", "question"}}

SetStep(c, status) == [steps EXCEPT ![current[c]].status = status]

---------------------------------------------------------------------------
(* A connection: agent_websocket                                           *)

\* The handler has read the row, whatever its status, and accepts.
Connect(c) ==
    /\ pc[c] = "new"
    /\ \A d \in Conns : d < c => pc[d] # "new"
    /\ pc' = [pc EXCEPT ![c] = "accepted"]
    /\ loaded' = [loaded EXCEPT ![c] = Refreshed(session)]
    /\ UNCHANGED <<rowVars, agent_tasks, flagVars, current, requests, histVars>>

Busy(c) == pc[c] \notin {"new", "accepted", "off"}

\* The two tasks start, and this one takes the session's entry; or the first send found
\* the client gone.
Begin(c) ==
    /\ pc[c] = "accepted"
    /\ \/ /\ pc' = [pc EXCEPT ![c] = "opening"]
          /\ agent_tasks' = c
          /\ overlap' = (overlap \/ \E d \in Conns \ {c} : Busy(d))
          /\ UNCHANGED loaded
       \/ /\ pc' = [pc EXCEPT ![c] = "off"]
          /\ Expire(c)
          /\ UNCHANGED <<agent_tasks, overlap>>
    /\ UNCHANGED <<rowVars, flagVars, current, requests, stopSaw, astray>>

\* The client is gone: handle_messages returns and the handler cancels the agent.
Disconnect(c) ==
    /\ pc[c] \in Running
    /\ pc' = [pc EXCEPT ![c] = "cut"]
    /\ UNCHANGED <<rowVars, agent_tasks, loaded, flagVars, current, requests,
                   overlap, stopSaw, astray>>

\* A handler that ends takes its socket, its ORM object and its local variables along.
LoseLocals(ended) ==
    /\ loaded' = [c \in Conns |-> IF c \in ended THEN Expired ELSE loaded[c]]
    /\ event' = [c \in Conns |-> event[c] /\ c \notin ended]
    /\ approved' = [c \in Conns |-> approved[c] /\ c \notin ended]
    /\ stop_requested' = [c \in Conns |-> stop_requested[c] /\ c \notin ended]
    /\ answer' = [c \in Conns |-> IF c \in ended THEN 0 ELSE answer[c]]
    /\ current' = [c \in Conns |-> IF c \in ended THEN 0 ELSE current[c]]
    /\ stopSaw' = stopSaw \ ended

\* The end of the handler removes the session's entry, whosever it is.
CleanUp(c) ==
    /\ pc[c] \in {"closing", "cut"}
    /\ pc' = [pc EXCEPT ![c] = "off"]
    /\ agent_tasks' = None
    /\ LoseLocals({c})
    /\ UNCHANGED <<rowVars, requests, overlap, astray>>

\* The server process ends and starts again.
Restart ==
    /\ \E c \in Conns : pc[c] \notin {"new", "off"}
    /\ pc' = [c \in Conns |-> IF pc[c] = "new" THEN "new" ELSE "off"]
    /\ agent_tasks' = None
    /\ LoseLocals(Conns)
    /\ UNCHANGED <<rowVars, requests, overlap, astray>>

---------------------------------------------------------------------------
(* handle_messages, one action per message.  The client means one of the   *)
(* steps it was shown by this connection, perhaps not the present one.     *)

Hears(c) == pc[c] \in Running

Request == requests < RequestBound /\ requests' = requests + 1

Shown(c) == {k \in Counted : steps[k].by = c}

\* The wait that a message for step k ends is not the wait for that message.
Misses(c, k, wait) ==
    \/ pc[c] \in {"waiting", "question"} \ {wait}
    \/ pc[c] = wait /\ k # current[c]

Hear(c, k, wait) ==
    /\ Hears(c)
    /\ Request
    /\ k \in Shown(c)
    /\ event' = [event EXCEPT ![c] = TRUE]
    /\ astray' = (astray \/ Misses(c, k, wait))
    /\ UNCHANGED <<session, agent_tasks, pc, loaded, stop_requested, current,
                   overlap, stopSaw>>

Approve(c, k) ==
    /\ Hear(c, k, "waiting")
    /\ approved' = [approved EXCEPT ![c] = TRUE]
    /\ steps' = [steps EXCEPT ![k].granted = TRUE]
    /\ UNCHANGED answer

Reject(c, k) ==
    /\ Hear(c, k, "waiting")
    /\ approved' = [approved EXCEPT ![c] = FALSE]
    /\ UNCHANGED <<steps, answer>>

Answer(c, k) ==
    /\ Hear(c, k, "question")
    /\ answer' = [answer EXCEPT ![c] = k]
    /\ UNCHANGED <<steps, approved>>

AskToStop(c) ==
    /\ Hears(c)
    /\ Request
    /\ stop_requested' = [stop_requested EXCEPT ![c] = TRUE]
    /\ event' = [event EXCEPT ![c] = TRUE]
    /\ UNCHANGED <<rowVars, agent_tasks, pc, loaded, approved, answer, current, histVars>>

---------------------------------------------------------------------------
(* run_agent                                                               *)

agentFrame(c) == UNCHANGED <<agent_tasks, flagVars, requests, overlap, stopSaw, astray>>

\* No provider, or no SSH connection.
CannotOpen(c) ==
    /\ pc[c] = "opening"
    /\ pc' = [pc EXCEPT ![c] = "cut"]
    /\ UNCHANGED <<rowVars, loaded, current>>
    /\ agentFrame(c)

Open(c) ==
    /\ pc[c] = "opening"
    /\ session' = SetStatus(c, "thinking")
    /\ Expire(c)
    /\ SendAndGoTo(c, "resumed")
    /\ UNCHANGED <<steps, current>>
    /\ agentFrame(c)

EnterLoop(c) ==
    /\ pc[c] = "resumed"
    /\ LoopHead(c)
    /\ UNCHANGED <<steps, current>>
    /\ agentFrame(c)

\* The model's call raised.
LLMError(c) ==
    /\ pc[c] = "llm"
    /\ Leave(c, loaded[c], session, "cut")
    /\ UNCHANGED <<steps, current>>
    /\ agentFrame(c)

\* A reply that is not JSON, or a command without text: it is not counted, and the
\* condition of the loop sees the number as it was read before the call.
NoAction(c) ==
    /\ pc[c] = "llm"
    /\ IF loaded[c].number < session.max_steps /\ ~stop_requested[c]
       THEN RefreshAndAsk(c)
       ELSE Leave(c, loaded[c], session, ExitBy(c))
    /\ UNCHANGED <<steps, current>>
    /\ agentFrame(c)

\* "complete" or "failed": the row, then the step, which is not counted.
Conclude(c, status) ==
    LET row == SetStatus(c, status) IN
    /\ pc[c] = "llm"
    /\ steps' = Append(steps, NewStep(c, row.current_step_number + 1,
                                      IF status = "completed" THEN "complete" ELSE "failed",
                                      IF status = "completed" THEN "executed" ELSE "failed"))
    /\ current' = [current EXCEPT ![c] = Len(steps) + 1]
    /\ Leave(c, Refreshed(row), row, "closing")
    /\ agentFrame(c)

\* Mutant: the number is not advanced.
AddStepUncounted(c, type, n, row) ==
    /\ Cardinality(Counted) < StepBound
    /\ steps' = Append(steps, NewStep(c, n + 1, type, "pending"))
    /\ current' = [current EXCEPT ![c] = Len(steps) + 1]
    /\ session' = row
    /\ Expire(c)

\* session.current_step_number += 1 on the value n the object holds.
AddStep(c, type, n, row) ==
    /\ Cardinality(Counted) < StepBound
    /\ steps' = Append(steps, NewStep(c, n + 1, type, "pending"))
    /\ current' = [current EXCEPT ![c] = Len(steps) + 1]
    /\ session' = [row EXCEPT !.current_step_number = n + 1]
    /\ Expire(c)

\* The commit of the status makes the number be read again.
Ask(c) ==
    /\ pc[c] = "llm"
    /\ AddStep(c, "question", session.current_step_number, SetStatus(c, "awaiting_input"))
    /\ SendAndGoTo(c, "asked")
    /\ agentFrame(c)

\* The number is the one that was read before the call.
Propose(c) ==
    /\ pc[c] = "llm"
    /\ AddStep(c, "command", loaded[c].number, session)
    /\ SendAndGoTo(c, "shown")
    /\ agentFrame(c)

\* The step has been shown: with auto_approve it runs, otherwise the client is asked.
AwaitApproval(c) ==
    /\ pc[c] = "shown"
    /\ IF session.auto_approve
       THEN /\ session' = [session EXCEPT !.status = "executing"]
            /\ SendAndGoTo(c, "starting")
       ELSE /\ session' = [session EXCEPT !.status = "awaiting_approval"]
            /\ SendAndGoTo(c, "asking")
    /\ Expire(c)
    /\ UNCHANGED <<steps, current>>
    /\ agentFrame(c)

\* Mutant: the event is not cleared.
WaitWithoutClear(c) ==
    /\ pc[c] \in {"asking", "asked"}
    /\ UNCHANGED event
    /\ pc' = [pc EXCEPT ![c] = IF pc[c] = "asking" THEN "waiting" ELSE "question"]
    /\ UNCHANGED <<rowVars, agent_tasks, loaded, approved, answer, stop_requested,
                   current, requests, histVars>>

\* approval_event.clear(); await approval_event.wait()
Wait(c) ==
    /\ pc[c] \in {"asking", "asked"}
    /\ event' = [event EXCEPT ![c] = FALSE]
    /\ pc' = [pc EXCEPT ![c] = IF pc[c] = "asking" THEN "waiting" ELSE "question"]
    /\ UNCHANGED <<rowVars, agent_tasks, loaded, approved, answer, stop_requested,
                   current, requests, histVars>>

\* Woken with stop_requested set: break.
StopWaiting(c) ==
    /\ pc[c] \in {"waiting", "question"} /\ event[c]
    /\ stop_requested[c]
    /\ Leave(c, Refreshed(session), session, "cut")
    /\ UNCHANGED <<steps, current>>
    /\ agentFrame(c)

Answered(c) ==
    /\ pc[c] = "question" /\ event[c] /\ ~stop_requested[c]
    /\ steps' = [steps EXCEPT ![current[c]].status = "executed", ![current[c]].output = answer[c]]
    /\ LoopHead(c)
    /\ UNCHANGED current
    /\ agentFrame(c)

\* Mutant: a status the table does not know.
SkipMisspelt(c) ==
    /\ pc[c] = "waiting" /\ event[c] /\ ~stop_requested[c]
    /\ ~approved[c]
    /\ steps' = SetStep(c, "skipped")
    /\ SendAndGoTo(c, "reported")
    /\ UNCHANGED <<session, loaded, current>>
    /\ agentFrame(c)

Skip(c) ==
    /\ pc[c] = "waiting" /\ event[c] /\ ~stop_requested[c]
    /\ ~approved[c]
    /\ steps' = SetStep(c, "rejected")
    /\ SendAndGoTo(c, "reported")
    /\ UNCHANGED <<session, loaded, current>>
    /\ agentFrame(c)

Execute(c) ==
    /\ pc[c] = "waiting" /\ event[c] /\ ~stop_requested[c]
    /\ approved[c]
    /\ session' = [session EXCEPT !.status = "executing"]
    /\ Expire(c)
    /\ SendAndGoTo(c, "starting")
    /\ UNCHANGED <<steps, current>>
    /\ agentFrame(c)

\* ssh_client.conn.run: the command is sent.
Run(c) ==
    /\ pc[c] = "starting"
    /\ pc' = [pc EXCEPT ![c] = "running"]
    /\ steps' = [steps EXCEPT ![current[c]].ran = "open"]
    /\ UNCHANGED <<session, loaded, current>>
    /\ agentFrame(c)

\* The result is committed and sent.  The send is inside the try: when it raises, the
\* handler of errors records the step as failed, and its own send raises again.
Finish(c, fate, sent) ==
    LET status == IF fate = "done" /\ sent THEN "executed" ELSE "failed" IN
    /\ pc[c] = "running"
    /\ steps' = [steps EXCEPT ![current[c]].status = status, ![current[c]].ran = fate]
    /\ GoTo(c, "reported", sent)
    /\ UNCHANGED <<session, loaded, current>>
    /\ agentFrame(c)

Resume(c) ==
    /\ pc[c] = "reported"
    /\ session' = [session EXCEPT !.status = "thinking"]
    /\ Expire(c)
    /\ SendAndGoTo(c, "resumed")
    /\ UNCHANGED <<steps, current>>
    /\ agentFrame(c)

---------------------------------------------------------------------------
(* REST                                                                    *)

\* Mutant: without the filter on pending.
RestRejectAnyStatus ==
    /\ Request
    /\ \E k \in DOMAIN steps :
        /\ \A l \in DOMAIN steps : steps[l].step_number <= steps[k].step_number
        /\ steps' = [steps EXCEPT ![k].status = "rejected", ![k].restRejected = TRUE]
        /\ UNCHANGED <<session, agent_tasks, pc, loaded, flagVars, current, histVars>>

\* POST reject: the pending step with the largest number, whatever its agent is doing.
RestReject ==
    /\ Request
    /\ \E k \in DOMAIN steps :
        /\ steps[k].status = "pending"
        /\ \A l \in DOMAIN steps : steps[l].status = "pending" =>
                steps[l].step_number <= steps[k].step_number
        /\ steps' = [steps EXCEPT ![k].status = "rejected", ![k].restRejected = TRUE]
        /\ UNCHANGED <<session, agent_tasks, pc, loaded, flagVars, current, histVars>>

\* Mutant: the task is not cancelled.
RestStopWithoutCancel ==
    /\ Request
    /\ pc' = [c \in Conns |-> pc[c]]
    /\ agent_tasks' = None
    /\ session' = [session EXCEPT !.status = "stopped"]
    /\ stopSaw' = {c \in Conns : pc[c] \in Running}
    /\ UNCHANGED <<steps, loaded, flagVars, current, overlap, astray>>

\* POST stop: the registered task is cancelled at its await, then the row is written.
RestStop ==
    /\ Request
    /\ pc' = [c \in Conns |-> IF c = agent_tasks /\ pc[c] \in Running THEN "cut" ELSE pc[c]]
    /\ agent_tasks' = None
    /\ session' = [session EXCEPT !.status = "stopped"]
    /\ stopSaw' = {c \in Conns : pc[c] \in Running}
    /\ UNCHANGED <<steps, loaded, flagVars, current, overlap, astray>>

---------------------------------------------------------------------------
AgentStep(c) ==
    \/ CannotOpen(c) \/ Open(c) \/ EnterLoop(c)
    \/ LLMError(c) \/ NoAction(c) \/ Ask(c) \/ Propose(c)
    \/ \E status \in {"completed", "failed"} : Conclude(c, status)
    \/ AwaitApproval(c) \/ Wait(c)
    \/ StopWaiting(c) \/ Answered(c) \/ Skip(c) \/ Execute(c)
    \/ Run(c) \/ Resume(c)
    \/ \E fate \in {"done", "cut"}, sent \in BOOLEAN : Finish(c, fate, sent)

ClientStep(c) ==
    \/ Connect(c) \/ Disconnect(c) \/ AskToStop(c)
    \/ \E k \in DOMAIN steps : Approve(c, k) \/ Reject(c, k) \/ Answer(c, k)

Next ==
    \/ \E c \in Conns : AgentStep(c) \/ ClientStep(c) \/ Begin(c) \/ CleanUp(c)
    \/ RestReject \/ RestStop
    \/ Restart

Spec == Init /\ [][Next]_vars

---------------------------------------------------------------------------
(* Properties                                                              *)

\* Whatever the agent waits for (the pair of waits in run_agent), a client's word for
\* that very step ends the wait: a command of a session without auto_approve runs only
\* when the socket brought an approval for it, and a question is closed with its own
\* answer, unless a wait was ended by a message for something else (approved and answer
\* keep their values from step to step).  POST approve never does.
ConsentUnlessAstray ==
    ~astray => \A k \in DOMAIN steps :
        LET step == steps[k] IN
        /\ step.ran # "no" => step.granted \/ session.auto_approve
        /\ step.step_type = "question" /\ step.status = "executed" => step.output = k

\* The record of a command tells what the host did of it: executed means that it ended,
\* one that ended is recorded so unless the client was gone when the result was to be
\* sent, one that was skipped never ran unless POST reject marked it, and one cut off
\* by the end of its agent stays pending.
RecordTellsFate ==
    \A k \in DOMAIN steps :
        LET step == steps[k]
            ended == pc[step.by] \in {"closing", "cut", "off"}
        IN  step.step_type = "command" =>
                /\ step.status = "executed" => step.ran = "done"
                /\ step.ran = "done" => step.status = "executed" \/ (step.status = "failed" /\ ended)
                /\ step.status = "rejected" /\ step.ran # "no" => step.restRejected
                /\ step.ran = "open" /\ ended => step.status = "pending" \/ step.restRejected

\* Steps are numbered in order and each is counted in current_step_number, which is the
\* last number, so that max_steps bounds them, whatever connections come one after the
\* other: only two agents at once repeat a number, lose a count and pass the maximum.
CountedOnce ==
    ~overlap =>
        /\ \A k \in Counted : steps[k].step_number \in 1 .. session.current_step_number
        /\ \A k, l \in Counted : k < l => steps[k].step_number < steps[l].step_number
        /\ \A n \in 1 .. session.current_step_number : \E k \in Counted : steps[k].step_number = n
        /\ session.current_step_number <= session.max_steps

\* POST stop finds the task of every agent that runs, as long as no connection took over
\* or removed the entry of another one.
StopFindsTheAgent ==
    ~overlap => \A c \in Conns : pc[c] \in Running => agent_tasks = c

\* The exits of the loop close the row: an agent that has left it leaves a final status,
\* unless it was told to stop over the socket or the model failed (pc "cut" below), and
\* unless another agent writes the row too.
LoopClosesTheRow ==
    ~overlap => \A c \in Conns : pc[c] = "closing" => session.status \in Final

\* After POST stop the row stays stopped and no command is sent by the agents that ran
\* then, whatever they were waiting for: only an agent that began later, or one whose
\* entry another connection had taken, goes on.
StopHolds ==
    [][/\ session.status = "stopped" /\ session'.status # "stopped" =>
            overlap \/ \E c \in Conns \ stopSaw : pc[c] \in Running /\ pc'[c] # pc[c]
       /\ \A k \in DOMAIN steps : steps[k].ran = "no" /\ steps'[k].ran = "open" =>
            overlap \/ steps[k].by \notin stopSaw]_vars

=============================================================================
