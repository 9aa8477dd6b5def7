--------------------------- MODULE SchedulerProofs ---------------------------
(***************************************************************************)
(* Theorems about Scheduler, for any number of clients and callbacks:      *)
(* types, the statistics of a schedule, one-shot schedules, and that the   *)
(* row and the job of APScheduler agree when nothing is in flight.         *)
(***************************************************************************)
EXTENDS Scheduler, FiniteSetTheorems, TLAPS

At(place) == {s \in Slots : callback[s].at = place}

Live == {s \in Slots : callback[s].at # "idle"}

\* Every count is fed by the callbacks: started, then inserted, then recorded or failed.
CountInv ==
    /\ IsFiniteSet(Live)
    /\ fired <= started
    /\ executions + Cardinality(At("started")) <= started
    /\ run_count + Cardinality(At("inserted")) <= executions
    /\ run_count + failure_count + Cardinality(Live) <= started
    /\ row.state # "gone" /\ ~lost /\ restarts = 0 =>
         run_count + Cardinality(At("inserted")) = executions

\* Which request can be where.
Shape ==
    \A c \in Clients :
        /\ req[c].op = "none" => req[c].at = "idle"
        /\ req[c].op = "create" => req[c].at \in {"committed", "refreshed", "undo"}
        /\ req[c].op = "update" => req[c].at \in {"read", "committed", "refreshed"}
        /\ req[c].op \in {"pause", "resume"} => req[c].at \in {"read", "committed"}
        /\ req[c].op = "delete" => req[c].at \in {"read", "removed"}
        /\ req[c].at = "idle" => req[c] = Idle

\* Before the schedule is created there is nothing of it.
Fresh ==
    /\ row.state = "none" =>
         job = NoJob /\ (\A c \in Clients : req[c].at = "idle") /\ (\A s \in Slots : callback[s].at = "idle")
    /\ up = "loading" => \A c \in Clients : req[c].at = "idle"

TypeInv == TypeOK /\ Shape /\ Fresh /\ CountInv

\* The request that will register the schedule for the first time.
Creating(c) == req[c].op = "create" /\ req[c].at \in {"committed", "refreshed"}

\* A date schedule was handed over at most once for each registration, the present one aside.
OneShotInv ==
    /\ row.state = "none" => fired = 0
    /\ \A c, d \in Clients : Creating(c) /\ Creating(d) => c = d
    /\ \A c \in Clients : Creating(c) => job = NoJob /\ fired = 0
    /\ kind = "date" => fired <= 1 + readds /\ (Known => fired <= readds)

Off ==
    /\ Present /\ ~row.enabled => job.state # "active"
    /\ row.state = "gone" => ~Known \/ orphaned

On ==
    kind = "recurring" /\ Present /\ row.enabled /\ ~refused /\ row.definition.version \notin over =>
        job = [state |-> "active", version |-> row.definition.version]

\* What a request in flight may count on, when it is the only one.
Holds(c) ==
    /\ req[c].at = "read" /\ req[c].op # "delete" /\ Present => req[c].enabled = row.enabled
    /\ req[c].op = "create" => (Creating(c) => row.enabled) /\ (row.state = "gone" => orphaned)
    /\ req[c].at = "refreshed" /\ Present =>
         req[c].enabled = row.enabled /\ req[c].definition = row.definition
    /\ req[c].op = "pause" /\ req[c].at = "committed" /\ Present => ~row.enabled
    /\ req[c].op = "resume" /\ req[c].at = "committed" /\ Present => row.enabled
    /\ req[c].at = "removed" => job = NoJob

\* Row and job agree as long as no request has changed either.
PairInv ==
    ~disturbed =>
        /\ \A c, d \in Clients : Busy(c) /\ Busy(d) => c = d
        /\ row.state = "gone" => ~Known \/ orphaned
        /\ (\A c \in Clients : req[c].at \in {"idle", "read"}) => Off /\ On
        /\ Present /\ Known /\ (\A c \in Clients : req[c].op = "update" => req[c].at = "read") =>
             job.version = row.definition.version
        /\ \A c \in Clients : Holds(c)

---------------------------------------------------------------------------
(* What the handlers do, variable by variable                              *)

Row == [state : {"none", "present", "gone"}, enabled : BOOLEAN, definition : Definition]

Job == [state : {"absent", "active", "paused"}, version : 0 .. EditBound]

Calls == [Slots -> [at : {"idle", "started", "inserted", "failing"}, manual : BOOLEAN]]

LEMMA TypesNow ==
    ASSUME TypeOK
    PROVE  /\ kind \in {"recurring", "date"} /\ runbook \in BOOLEAN /\ row \in Row /\ job \in Job
           /\ up \in {"loading", "up"} /\ req \in [Clients -> Request] /\ callback \in Calls
           /\ executions \in 0 .. StartBound /\ run_count \in 0 .. StartBound
           /\ failure_count \in 0 .. StartBound /\ fired \in 0 .. StartBound
           /\ started \in 0 .. StartBound /\ restarts \in 0 .. RestartBound
           /\ readds \in 0 .. StartBound /\ over \subseteq 0 .. EditBound
           /\ disturbed \in BOOLEAN /\ orphaned \in BOOLEAN /\ refused \in BOOLEAN /\ lost \in BOOLEAN
BY DEF TypeOK, Row, Job, Calls

LEMMA TypesNext ==
    ASSUME kind' \in {"recurring", "date"}, runbook' \in BOOLEAN, row' \in Row, job' \in Job,
           up' \in {"loading", "up"}, req' \in [Clients -> Request], callback' \in Calls,
           executions' \in 0 .. StartBound, run_count' \in 0 .. StartBound,
           failure_count' \in 0 .. StartBound, fired' \in 0 .. StartBound,
           started' \in 0 .. StartBound, restarts' \in 0 .. RestartBound,
           readds' \in 0 .. StartBound, over' \subseteq 0 .. EditBound,
           disturbed' \in BOOLEAN, orphaned' \in BOOLEAN, refused' \in BOOLEAN, lost' \in BOOLEAN
    PROVE  TypeOK'
BY DEF TypeOK, Row, Job, Calls

LEMMA IdleTypes ==
    Idle \in Request /\ Idle.at = "idle" /\ Idle.op = "none" /\ Idle.definition \in Definition
    /\ NoJob \in Job /\ NoJob.state = "absent" /\ StartBound \in Nat /\ EditBound \in Nat /\ RestartBound \in Nat
BY BoundsAssumption DEF Idle, Request, Definition, NoJob, Job

\* Only the request of one client changes.
Sets(c) ==
    /\ req' \in [Clients -> Request]
    /\ \A d \in Clients \ {c} : req'[d] = req[d]

LEMMA EndsEffect ==
    ASSUME TypeOK, NEW c \in Clients, NEW error, Ends(c, error)
    PROVE  Sets(c) /\ req'[c] = Idle /\ refused' = error
BY IdleTypes DEF Ends, Sets, TypeOK

LEMMA GoesEffect ==
    ASSUME TypeOK, NEW c \in Clients, NEW at \in {"committed", "removed", "undo"}, GoesTo(c, at)
    PROVE  Sets(c) /\ req'[c].op = req[c].op /\ req'[c].at = at /\ UNCHANGED refused
<1>1. [Idle EXCEPT !.op = req[c].op, !.at = at] \in Request
  BY IdleTypes DEF Request, TypeOK
<1>2. [Idle EXCEPT !.op = req[c].op, !.at = at].op = req[c].op
      /\ [Idle EXCEPT !.op = req[c].op, !.at = at].at = at
  BY DEF Idle
<1> DEFINE r == [Idle EXCEPT !.op = req[c].op, !.at = at]
<1>3. req' = [req EXCEPT ![c] = r] /\ UNCHANGED refused
  BY DEF GoesTo
<1>4. r \in Request /\ r.op = req[c].op /\ r.at = at
  BY <1>1, <1>2
<1> HIDE DEF r
<1> QED BY <1>3, <1>4 DEF Sets, TypeOK

LEMMA BeginsEffect ==
    ASSUME TypeInv, NEW c \in Clients, Begins(c)
    PROVE  /\ up = "up" /\ req[c] = Idle /\ disturbed' \in BOOLEAN
           /\ disturbed => disturbed'
           /\ ~disturbed' => \A d \in Clients : d # c => req[d] = Idle
<1>1. disturbed' \in BOOLEAN /\ (disturbed => disturbed')
  BY Zenon DEF Begins
<1> QED BY <1>1 DEF Begins, Busy

LEMMA CreateEffect ==
    ASSUME TypeInv, NEW c \in Clients, NEW enabled \in BOOLEAN, NEW valid \in BOOLEAN,
           Create(c, enabled, valid)
    PROVE  /\ Begins(c) /\ row.state = "none"
           /\ row' \in Row /\ row'.state = "present" /\ row'.enabled = enabled
           /\ Sets(c)
           /\ enabled => req'[c].op = "create" /\ req'[c].at = "committed" /\ UNCHANGED refused
           /\ ~enabled => req'[c] = Idle /\ refused' = FALSE
           /\ UNCHANGED <<job, readds, orphaned>>
<1>0. TypeOK
  BY DEF TypeInv
<1>1. row' \in Row /\ row'.state = "present" /\ row'.enabled = enabled
  BY BoundsAssumption DEF Create, Row, Definition
<1>2. CASE enabled
  <2> DEFINE r == [Idle EXCEPT !.op = "create", !.at = "committed"]
  <2>1. r \in Request /\ r.op = "create" /\ r.at = "committed"
    BY IdleTypes DEF Request, Ops
  <2>2. req' = [req EXCEPT ![c] = r] /\ UNCHANGED refused
    BY <1>2 DEF Create
  <2> HIDE DEF r
  <2> QED BY <1>0, <1>1, <1>2, <2>1, <2>2 DEF Create, Sets, TypeOK
<1>3. CASE ~enabled
  BY <1>0, <1>1, <1>3, EndsEffect DEF Create
<1> QED BY <1>2, <1>3

LEMMA ReadEffect ==
    ASSUME TypeInv, NEW c \in Clients, NEW op \in Ops, Read(c, op)
    PROVE  /\ Begins(c) /\ row.state = "present" /\ op # "create"
           /\ Sets(c) /\ req'[c].op = op /\ req'[c].at = "read"
           /\ op # "delete" => req'[c].enabled = row.enabled
           /\ UNCHANGED <<storeVars, readds, orphaned, refused>>
<1>0. TypeOK /\ row.enabled \in BOOLEAN /\ row.definition \in Definition
  BY DEF TypeInv, TypeOK
<1> DEFINE r == [op |-> op, at |-> "read",
                 enabled |-> op # "delete" /\ row.enabled,
                 definition |-> IF op = "update" THEN row.definition ELSE Idle.definition]
<1>1. /\ r \in Request /\ r.op = op /\ r.at = "read"
      /\ op # "delete" => r.enabled = row.enabled
  BY <1>0, IdleTypes DEF Request, Ops
<1>2. req' = [req EXCEPT ![c] = r]
  BY DEF Read
<1> HIDE DEF r
<1>3. Sets(c) /\ req'[c] = r
  BY <1>0, <1>1, <1>2 DEF Sets, TypeOK
<1> QED BY <1>1, <1>3 DEF Read, Present

\* A commit of the row, when it is there, or the error of one that is not.
LEMMA CommittedEffect ==
    ASSUME TypeInv, NEW c \in Clients, NEW e \in BOOLEAN, Committed(c, e)
    PROVE  /\ Sets(c) /\ row' \in Row /\ row'.state = row.state /\ row'.definition = row.definition
           /\ \/ /\ Present /\ row' = IF e = req[c].enabled THEN row ELSE [row EXCEPT !.enabled = e]
                 /\ req'[c].op = req[c].op /\ req'[c].at = "committed" /\ UNCHANGED refused
              \/ ~Present /\ req'[c] = Idle /\ refused' = TRUE /\ UNCHANGED row
<1>0. TypeOK /\ row \in Row
  BY TypesNow DEF TypeInv
<1>1. CASE Present
  BY <1>0, <1>1, GoesEffect DEF Committed, Row
<1>2. CASE ~Present
  BY <1>0, <1>2, EndsEffect DEF Committed
<1> QED BY <1>1, <1>2

LEMMA DefinitionEffect ==
    ASSUME TypeInv, NEW c \in Clients, NEW valid \in BOOLEAN, CommitDefinition(c, valid)
    PROVE  /\ Sets(c) /\ row' \in Row /\ row'.state = row.state /\ row'.enabled = row.enabled
           /\ \/ /\ Present
                 /\ req'[c].op = req[c].op /\ req'[c].at = "committed" /\ UNCHANGED refused
              \/ ~Present /\ req'[c] = Idle /\ refused' = TRUE /\ UNCHANGED row
<1>0. TypeOK /\ row \in Row
  BY TypesNow DEF TypeInv
<1>1. CASE Present
  <2> DEFINE definition == [version |-> req[c].definition.version + 1, valid |-> valid]
  <2>1. definition \in Definition
    BY <1>0, IdleTypes DEF CommitDefinition, Definition, Request, TypeOK
  <2>2. row' = [row EXCEPT !.definition = definition] /\ GoesTo(c, "committed")
    BY <1>1 DEF CommitDefinition
  <2> HIDE DEF definition
  <2> QED BY <1>0, <1>1, <2>1, <2>2, GoesEffect DEF Row
<1>2. CASE ~Present
  BY <1>0, <1>2, EndsEffect DEF CommitDefinition
<1> QED BY <1>1, <1>2

LEMMA RefreshEffect ==
    ASSUME TypeInv, NEW c \in Clients, Refresh(c)
    PROVE  /\ Sets(c) /\ UNCHANGED <<storeVars, readds, disturbed, orphaned>>
           /\ \/ /\ Present /\ UNCHANGED refused
                 /\ req'[c].op = req[c].op /\ req'[c].at = "refreshed"
                 /\ req'[c].enabled = row.enabled /\ req'[c].definition = row.definition
              \/ ~Present /\ req'[c] = Idle /\ refused' = TRUE
<1>0. TypeOK /\ row \in Row /\ req[c] \in Request
  BY TypesNow DEF TypeInv
<1>1. CASE Present
  <2> DEFINE r == [req[c] EXCEPT !.at = "refreshed", !.enabled = row.enabled,
                                 !.definition = row.definition]
  <2>1. /\ r \in Request /\ r.op = req[c].op /\ r.at = "refreshed"
        /\ r.enabled = row.enabled /\ r.definition = row.definition
    BY <1>0 DEF Request, Row
  <2>2. req' = [req EXCEPT ![c] = r] /\ UNCHANGED refused
    BY <1>0, <1>1 DEF Refresh, Request
  <2> HIDE DEF r
  <2>3. Sets(c) /\ req'[c] = r
    BY <1>0, <2>1, <2>2 DEF Sets, TypeOK
  <2> QED BY <1>1, <2>1, <2>2, <2>3 DEF Refresh
<1>2. CASE ~Present
  BY <1>0, <1>2, EndsEffect DEF Refresh
<1> QED BY <1>1, <1>2

\* What is registered is active as long as its trigger has a run time.
LEMMA RegisteredIs ==
    ASSUME NEW definition \in Definition
    PROVE  /\ Registered(definition) \in Job
           /\ Registered(definition).version = definition.version
           /\ definition.version \notin over =>
                Registered(definition) = [state |-> "active", version |-> definition.version]
BY DEF Registered, Job, Definition

LEMMA AddEffect ==
    ASSUME TypeInv, NEW definition \in Definition, Add(definition)
    PROVE  /\ job' \in Job /\ readds' \in 0 .. StartBound /\ readds <= readds'
           /\ definition.valid => /\ job' = Registered(definition)
                                  /\ kind = "date" /\ readds < StartBound => readds' = readds + 1
           /\ ~definition.valid => UNCHANGED <<job, readds>>
<1>0. job \in Job /\ readds \in 0 .. StartBound
  BY TypesNow DEF TypeInv
<1>1. job' \in Job
  BY <1>0, RegisteredIs DEF Add
<1> QED BY <1>0, <1>1, IdleTypes DEF Add

LEMMA AddCreatedEffect ==
    ASSUME TypeInv, NEW c \in Clients, NEW written \in BOOLEAN, AddCreated(c, written)
    PROVE  /\ Sets(c) /\ UNCHANGED <<row, readds, disturbed, orphaned>> /\ job' \in Job
           /\ req[c].definition \in Definition
           /\ req[c].definition.valid => job' = Registered(req[c].definition)
           /\ ~req[c].definition.valid => UNCHANGED job
           /\ \/ req[c].definition.valid /\ req'[c] = Idle /\ refused' = FALSE
              \/ req'[c].op = "create" /\ req'[c].at = "undo" /\ UNCHANGED refused
<1>0. TypeOK /\ job \in Job /\ req[c].definition \in Definition
  BY TypesNow DEF TypeInv, Request
<1>1. job' \in Job
  BY <1>0, RegisteredIs DEF AddCreated
<1>2. CASE req[c].definition.valid /\ written
  BY <1>0, <1>1, <1>2, EndsEffect DEF AddCreated
<1>3. CASE ~(req[c].definition.valid /\ written)
  BY <1>0, <1>1, <1>3, GoesEffect DEF AddCreated
<1> QED BY <1>2, <1>3

LEMMA UndoEffect ==
    ASSUME TypeInv, NEW c \in Clients, UndoCreate(c)
    PROVE  /\ Sets(c) /\ req'[c] = Idle /\ refused' = TRUE
           /\ row' \in Row /\ row'.state = "gone" /\ UNCHANGED <<job, readds, disturbed>>
           /\ orphaned' \in BOOLEAN /\ (orphaned \/ Known => orphaned')
<1>0. TypeOK /\ row \in Row
  BY TypesNow DEF TypeInv
<1>1. orphaned' \in BOOLEAN /\ (orphaned \/ Known => orphaned')
  BY Zenon DEF UndoCreate, Known
<1> QED BY <1>0, <1>1, EndsEffect DEF UndoCreate, Row

LEMMA ApplyUpdateEffect ==
    ASSUME TypeInv, NEW c \in Clients, ApplyUpdate(c)
    PROVE  /\ Sets(c) /\ req'[c] = Idle /\ refused' \in BOOLEAN
           /\ UNCHANGED <<row, disturbed, orphaned>>
           /\ req[c].definition \in Definition
           /\ job' \in Job /\ readds' \in 0 .. StartBound /\ readds <= readds'
           /\ \/ /\ ~Known \/ ~req[c].enabled \/ ~req[c].definition.valid
                 /\ job' = NoJob /\ (req[c].enabled => refused')
              \/ /\ Known /\ req[c].enabled /\ job' = Registered(req[c].definition)
                 /\ kind = "date" /\ readds < StartBound => readds' = readds + 1
<1>0. TypeOK /\ job \in Job /\ req[c].definition \in Definition /\ readds \in 0 .. StartBound
  BY TypesNow DEF TypeInv, Request
<1>1. Sets(c) /\ req'[c] = Idle /\ refused' = ReplaceFails(req[c].enabled, req[c].definition)
  BY <1>0, EndsEffect DEF ApplyUpdate
<1>2. ReplaceFails(req[c].enabled, req[c].definition) \in BOOLEAN
  BY Zenon DEF ReplaceFails
<1>3. CASE ~Known \/ ~req[c].enabled \/ ~req[c].definition.valid
  <2>1. job' = NoJob /\ UNCHANGED readds
    BY <1>3 DEF ApplyUpdate, Replace
  <2>2. req[c].enabled => refused'
    BY <1>1, <1>3 DEF ReplaceFails
  <2> QED BY <1>0, <1>1, <1>2, <1>3, <2>1, <2>2, IdleTypes DEF ApplyUpdate
<1>4. CASE ~(~Known \/ ~req[c].enabled \/ ~req[c].definition.valid)
  <2>1. Add(req[c].definition)
    BY <1>4 DEF ApplyUpdate, Replace
  <2> QED BY <1>0, <1>1, <1>2, <1>4, <2>1, AddEffect DEF ApplyUpdate
<1> QED BY <1>3, <1>4

LEMMA ApplyPauseEffect ==
    ASSUME TypeInv, NEW c \in Clients, ApplyPause(c)
    PROVE  /\ Sets(c) /\ req'[c] = Idle /\ refused' \in BOOLEAN
           /\ UNCHANGED <<row, readds, disturbed, orphaned>>
           /\ job' \in Job /\ job'.version = job.version
           /\ Known => job'.state = "paused"
           /\ ~Known => UNCHANGED job
<1>0. TypeOK /\ job \in Job
  BY TypesNow DEF TypeInv
<1>1. Sets(c) /\ req'[c] = Idle /\ refused' = ~Known
  BY <1>0, EndsEffect DEF ApplyPause
<1> QED BY <1>0, <1>1 DEF ApplyPause, Job

LEMMA ApplyResumeEffect ==
    ASSUME TypeInv, NEW c \in Clients, ApplyResume(c)
    PROVE  /\ Sets(c) /\ req'[c] = Idle /\ refused' = ~Known
           /\ UNCHANGED <<row, readds, disturbed, orphaned>>
           /\ job' \in Job
           /\ Known => job' = IF job.version \in over THEN NoJob
                             ELSE [state |-> "active", version |-> job.version]
           /\ ~Known => UNCHANGED job
<1>0. TypeOK /\ job \in Job
  BY TypesNow DEF TypeInv
<1>1. Sets(c) /\ req'[c] = Idle /\ refused' = ~Known
  BY <1>0, EndsEffect DEF ApplyResume
<1>2. UNCHANGED <<row, readds, disturbed, orphaned>>
  BY DEF ApplyResume
<1>3. CASE Known
  <2>1. job' = IF job.version \in over THEN NoJob ELSE [job EXCEPT !.state = "active"]
    BY <1>3 DEF ApplyResume
  <2>2. [job EXCEPT !.state = "active"] = [state |-> "active", version |-> job.version]
    BY <1>0 DEF Job
  <2>3. job' \in Job
    BY <1>0, <2>1, <2>2, IdleTypes DEF Job
  <2> QED BY <1>1, <1>2, <1>3, <2>1, <2>2, <2>3
<1>4. CASE ~Known
  BY <1>0, <1>1, <1>2, <1>4 DEF ApplyResume
<1> QED BY <1>3, <1>4

LEMMA RemoveJobEffect ==
    ASSUME TypeInv, NEW c \in Clients, RemoveJob(c)
    PROVE  /\ Sets(c) /\ req'[c].op = "delete" /\ req'[c].at = "removed"
           /\ UNCHANGED <<row, readds, disturbed, orphaned, refused>> /\ job' = NoJob /\ job' \in Job
BY GoesEffect, IdleTypes DEF RemoveJob, TypeInv

LEMMA DeleteRowEffect ==
    ASSUME TypeInv, NEW c \in Clients, DeleteRow(c)
    PROVE  /\ Sets(c) /\ req'[c] = Idle /\ refused' = FALSE
           /\ UNCHANGED <<job, readds, disturbed, orphaned>> /\ row' \in Row /\ row'.state = "gone"
<1>0. TypeOK /\ row \in Row
  BY TypesNow DEF TypeInv
<1> QED BY <1>0, EndsEffect DEF DeleteRow, Row

---------------------------------------------------------------------------
(* Types and counts                                                        *)

LEMMA RequestFrame ==
    ASSUME NEW c \in Clients, ClientStep(c)
    PROVE  UNCHANGED <<kind, runbook, over, up, callback, fired, started, executions, run_count,
                       failure_count, restarts, lost>>
BY DEF ClientStep, Create, Read, CommitPause, CommitResume, CommitEnabled, CommitDefinition, Refresh,
       AddCreated, UndoCreate, ApplyUpdate, ApplyPause, ApplyResume, RemoveJob, DeleteRow,
       requestFrame, callVars, statVars

ShapeOf(c) ==
    /\ req[c].op = "none" => req[c].at = "idle"
    /\ req[c].op = "create" => req[c].at \in {"committed", "refreshed", "undo"}
    /\ req[c].op = "update" => req[c].at \in {"read", "committed", "refreshed"}
    /\ req[c].op \in {"pause", "resume"} => req[c].at \in {"read", "committed"}
    /\ req[c].op = "delete" => req[c].at \in {"read", "removed"}
    /\ req[c].at = "idle" => req[c] = Idle

\* What every request keeps to.
TypesKept(c) ==
    /\ row' \in Row /\ job' \in Job /\ Sets(c) /\ readds' \in 0 .. StartBound
    /\ disturbed' \in BOOLEAN /\ orphaned' \in BOOLEAN /\ refused' \in BOOLEAN
    /\ ShapeOf(c)' /\ up = "up" /\ row'.state # "none"
    /\ row'.state # "gone" => row.state # "gone"

LEMMA RequestTypes ==
    ASSUME TypeInv, NEW c \in Clients, ClientStep(c)
    PROVE  TypesKept(c)
<1>0. /\ row \in Row /\ job \in Job /\ readds \in 0 .. StartBound /\ Shape /\ Fresh
      /\ disturbed \in BOOLEAN /\ orphaned \in BOOLEAN /\ refused \in BOOLEAN /\ up \in {"loading", "up"}
      /\ req[c] \in Request
  BY TypesNow DEF TypeInv
<1>1. /\ req'[c] = Idle => ShapeOf(c)'
      /\ req[c].at # "idle" => up = "up" /\ row.state # "none"
  BY <1>0, IdleTypes DEF ShapeOf, Fresh
<1>2. ASSUME NEW enabled \in BOOLEAN, NEW valid \in BOOLEAN, Create(c, enabled, valid) PROVE TypesKept(c)
  BY <1>0, <1>1, <1>2, CreateEffect, BeginsEffect DEF TypesKept, ShapeOf
<1>3. ASSUME NEW op \in Ops, Read(c, op) PROVE TypesKept(c)
  BY <1>0, <1>3, ReadEffect, BeginsEffect DEF TypesKept, ShapeOf, storeVars, Ops
<1>4. ASSUME NEW e \in BOOLEAN, Committed(c, e), req[c].op \in {"update", "pause", "resume"},
             req[c].at = "read", UNCHANGED <<job, readds, disturbed, orphaned>>
      PROVE  TypesKept(c)
  <2>1. CASE req'[c] = Idle
    BY <1>0, <1>1, <1>4, <2>1, CommittedEffect DEF TypesKept
  <2>2. CASE req'[c] # Idle
    <3>1. ShapeOf(c)'
      BY <1>4, <2>2, CommittedEffect DEF ShapeOf
    <3> QED BY <1>0, <1>1, <1>4, <2>2, <3>1, CommittedEffect DEF TypesKept
  <2> QED BY <2>1, <2>2
<1>5. ASSUME NEW valid \in BOOLEAN, CommitDefinition(c, valid) PROVE TypesKept(c)
  <2>1. req[c].op = "update" /\ req[c].at = "read" /\ UNCHANGED <<job, readds, disturbed, orphaned>>
    BY <1>5 DEF CommitDefinition
  <2>2. CASE req'[c] = Idle
    BY <1>0, <1>1, <1>5, <2>1, <2>2, DefinitionEffect DEF TypesKept
  <2>3. CASE req'[c] # Idle
    <3>1. ShapeOf(c)'
      BY <1>5, <2>1, <2>3, DefinitionEffect DEF ShapeOf
    <3> QED BY <1>0, <1>1, <1>5, <2>1, <2>3, <3>1, DefinitionEffect DEF TypesKept
  <2> QED BY <2>2, <2>3
<1>6. CASE Refresh(c)
  <2>1. req[c].op \in {"create", "update"} /\ req[c].at = "committed"
    BY <1>6 DEF Refresh
  <2>2. CASE req'[c] = Idle
    BY <1>0, <1>1, <1>6, <2>1, <2>2, RefreshEffect DEF TypesKept, storeVars
  <2>3. CASE req'[c] # Idle
    <3>1. ShapeOf(c)'
      BY <1>6, <2>1, <2>3, RefreshEffect DEF ShapeOf
    <3> QED BY <1>0, <1>1, <1>6, <2>1, <2>3, <3>1, RefreshEffect DEF TypesKept, storeVars
  <2> QED BY <2>2, <2>3
<1>7. ASSUME NEW written \in BOOLEAN, AddCreated(c, written) PROVE TypesKept(c)
  <2>1. req[c].op = "create" /\ req[c].at = "refreshed"
    BY <1>7 DEF AddCreated
  <2>2. ShapeOf(c)'
    BY <1>1, <1>7, AddCreatedEffect DEF ShapeOf
  <2> QED BY <1>0, <1>1, <1>7, <2>1, <2>2, AddCreatedEffect DEF TypesKept
<1>8. CASE UndoCreate(c)
  BY <1>0, <1>1, <1>8, UndoEffect DEF TypesKept, UndoCreate
<1>9. CASE ApplyUpdate(c)
  BY <1>0, <1>1, <1>9, ApplyUpdateEffect DEF TypesKept, ApplyUpdate
<1>10. CASE ApplyPause(c)
  BY <1>0, <1>1, <1>10, ApplyPauseEffect DEF TypesKept, ApplyPause
<1>11. CASE ApplyResume(c)
  <2>1. req[c].at = "committed" /\ refused' \in BOOLEAN
    BY <1>11, ApplyResumeEffect DEF ApplyResume
  <2> QED BY <1>0, <1>1, <1>11, <2>1, ApplyResumeEffect DEF TypesKept
<1>12. CASE RemoveJob(c)
  <2>1. req[c].at = "read"
    BY <1>12 DEF RemoveJob
  <2>2. ShapeOf(c)'
    BY <1>12, RemoveJobEffect DEF ShapeOf
  <2> QED BY <1>0, <1>1, <1>12, <2>1, <2>2, RemoveJobEffect DEF TypesKept
<1>13. CASE DeleteRow(c)
  BY <1>0, <1>1, <1>13, DeleteRowEffect DEF TypesKept, DeleteRow
<1> QED
  BY <1>2, <1>3, <1>4, <1>5, <1>6, <1>7, <1>8, <1>9, <1>10, <1>11, <1>12, <1>13
  DEF ClientStep, CommitPause, CommitResume, CommitEnabled

\* One callback goes from a place to another.
CallMoves(s, from, to) ==
    /\ callback' \in Calls /\ callback[s].at = from /\ callback'[s].at = to
    /\ \A t \in Slots \ {s} : callback'[t] = callback[t]

LEMMA Counts ==
    ASSUME IsFiniteSet(Live)
    PROVE  /\ Cardinality(Live) \in Nat
           /\ IsFiniteSet(At("started")) /\ Cardinality(At("started")) \in Nat
           /\ IsFiniteSet(At("inserted")) /\ Cardinality(At("inserted")) \in Nat
<1>1. At("started") \subseteq Live /\ At("inserted") \subseteq Live
  BY DEF At, Live
<1> QED BY <1>1, FS_Subset, FS_CardinalityType

LEMMA StartCounts ==
    ASSUME TypeInv, NEW s \in Slots, CallMoves(s, "idle", "started")
    PROVE  /\ IsFiniteSet(Live)' /\ Cardinality(Live)' = Cardinality(Live) + 1
           /\ Cardinality(At("started"))' = Cardinality(At("started")) + 1
           /\ Cardinality(At("inserted"))' = Cardinality(At("inserted"))
<1>0. IsFiniteSet(Live) /\ IsFiniteSet(At("started"))
  BY Counts DEF TypeInv, CountInv
<1>1. Live' = Live \cup {s} /\ s \notin Live
  BY DEF CallMoves, Live
<1>2. At("started")' = At("started") \cup {s} /\ s \notin At("started")
  BY DEF CallMoves, At
<1>3. At("inserted")' = At("inserted")
  BY DEF CallMoves, At
<1> QED BY <1>0, <1>1, <1>2, <1>3, FS_AddElement

LEMMA InsertCounts ==
    ASSUME TypeInv, NEW s \in Slots, NEW to \in {"inserted", "failing"}, CallMoves(s, "started", to)
    PROVE  /\ IsFiniteSet(Live)' /\ Cardinality(Live)' = Cardinality(Live)
           /\ Cardinality(At("started"))' = Cardinality(At("started")) - 1
           /\ Cardinality(At("inserted"))' =
                IF to = "inserted" THEN Cardinality(At("inserted")) + 1 ELSE Cardinality(At("inserted"))
<1>0. IsFiniteSet(Live) /\ IsFiniteSet(At("started")) /\ IsFiniteSet(At("inserted"))
  BY Counts DEF TypeInv, CountInv
<1>1. Live' = Live
  BY DEF CallMoves, Live
<1>2. At("started")' = At("started") \ {s} /\ s \in At("started")
  BY DEF CallMoves, At
<1>3. CASE to = "inserted"
  <2>1. At("inserted")' = At("inserted") \cup {s} /\ s \notin At("inserted")
    BY <1>3 DEF CallMoves, At
  <2> QED BY <1>0, <1>1, <1>2, <1>3, <2>1, FS_AddElement, FS_RemoveElement
<1>4. CASE to = "failing"
  <2>1. At("inserted")' = At("inserted")
    BY <1>4 DEF CallMoves, At
  <2> QED BY <1>0, <1>1, <1>2, <1>4, <2>1, FS_RemoveElement
<1> QED BY <1>3, <1>4

LEMMA RecordCounts ==
    ASSUME TypeInv, NEW s \in Slots, NEW to \in {"idle", "failing"}, CallMoves(s, "inserted", to)
    PROVE  /\ IsFiniteSet(Live)'
           /\ Cardinality(Live)' = IF to = "idle" THEN Cardinality(Live) - 1 ELSE Cardinality(Live)
           /\ Cardinality(At("started"))' = Cardinality(At("started"))
           /\ Cardinality(At("inserted"))' = Cardinality(At("inserted")) - 1
<1>0. IsFiniteSet(Live) /\ IsFiniteSet(At("started")) /\ IsFiniteSet(At("inserted"))
  BY Counts DEF TypeInv, CountInv
<1>1. At("started")' = At("started")
  BY DEF CallMoves, At
<1>2. At("inserted")' = At("inserted") \ {s} /\ s \in At("inserted")
  BY DEF CallMoves, At
<1>3. CASE to = "idle"
  <2>1. Live' = Live \ {s} /\ s \in Live
    BY <1>3 DEF CallMoves, Live
  <2> QED BY <1>0, <1>1, <1>2, <1>3, <2>1, FS_RemoveElement
<1>4. CASE to = "failing"
  <2>1. Live' = Live
    BY <1>4 DEF CallMoves, Live
  <2> QED BY <1>0, <1>1, <1>2, <1>4, <2>1, FS_RemoveElement
<1> QED BY <1>3, <1>4

LEMMA FailCounts ==
    ASSUME TypeInv, NEW s \in Slots, CallMoves(s, "failing", "idle")
    PROVE  /\ IsFiniteSet(Live)' /\ Cardinality(Live)' = Cardinality(Live) - 1
           /\ Cardinality(At("started"))' = Cardinality(At("started"))
           /\ Cardinality(At("inserted"))' = Cardinality(At("inserted"))
<1>0. IsFiniteSet(Live)
  BY DEF TypeInv, CountInv
<1>1. At("started")' = At("started") /\ At("inserted")' = At("inserted")
  BY DEF CallMoves, At
<1>2. Live' = Live \ {s} /\ s \in Live
  BY DEF CallMoves, Live
<1> QED BY <1>0, <1>1, <1>2, FS_RemoveElement

LEMMA LeadsEffect ==
    ASSUME TypeInv, NEW s \in Slots, NEW to \in {"idle", "inserted", "failing"}, Leads(s, to)
    PROVE  CallMoves(s, callback[s].at, to)
<1>0. callback \in Calls
  BY TypesNow DEF TypeInv
<1>1. CASE to = "idle"
  BY <1>0, <1>1 DEF Leads, CallMoves, NoCallback, Calls
<1>2. CASE to # "idle"
  <2> DEFINE r == [callback[s] EXCEPT !.at = to]
  <2>1. r \in [at : {"idle", "started", "inserted", "failing"}, manual : BOOLEAN] /\ r.at = to
    BY <1>0 DEF Calls
  <2>2. callback' = [callback EXCEPT ![s] = r]
    BY <1>2 DEF Leads
  <2> HIDE DEF r
  <2> QED BY <1>0, <2>1, <2>2 DEF CallMoves, Calls
<1> QED BY <1>1, <1>2

LEMMA StartEffect ==
    ASSUME TypeInv, NEW s \in Slots, NEW manual \in BOOLEAN, Start(s, manual)
    PROVE  CallMoves(s, "idle", "started") /\ started < StartBound /\ started' = started + 1
<1>0. callback \in Calls
  BY TypesNow DEF TypeInv
<1> DEFINE r == [at |-> "started", manual |-> manual]
<1>1. r \in [at : {"idle", "started", "inserted", "failing"}, manual : BOOLEAN] /\ r.at = "started"
  OBVIOUS
<1>2. callback' = [callback EXCEPT ![s] = r] /\ callback[s].at = "idle"
  BY DEF Start
<1> HIDE DEF r
<1> QED BY <1>0, <1>1, <1>2 DEF CallMoves, Calls, Start

LEMMA ShapeOfAll ==
    /\ Shape => \A c \in Clients : ShapeOf(c)
    /\ (\A c \in Clients : ShapeOf(c)') => Shape'
BY DEF Shape, ShapeOf

LEMMA RequestType ==
    ASSUME TypeInv, NEW c \in Clients, ClientStep(c)
    PROVE  TypeInv'
<1>1. TypeOK'
  BY RequestTypes, RequestFrame, TypesNow, TypesNext DEF TypeInv, TypesKept, Sets
<1>2. Shape'
  <2>1. \A d \in Clients : d # c => req'[d] = req[d]
    BY RequestTypes DEF TypesKept, Sets
  <2>2. \A d \in Clients : d # c => ShapeOf(d)'
    BY <2>1, ShapeOfAll DEF TypeInv, ShapeOf
  <2> QED BY <2>2, RequestTypes, ShapeOfAll DEF TypesKept
<1>3. Fresh'
  BY RequestTypes, RequestFrame DEF TypesKept, Fresh
<1>4. CountInv'
  <2>1. /\ UNCHANGED <<callback, fired, started, executions, run_count, failure_count, restarts, lost>>
        /\ row'.state # "gone" => row.state # "gone"
    BY RequestTypes, RequestFrame DEF TypesKept
  <2>2. At("started")' = At("started") /\ At("inserted")' = At("inserted") /\ Live' = Live
    BY <2>1 DEF At, Live
  <2> QED BY <2>1, <2>2 DEF TypeInv, CountInv
<1> QED BY <1>1, <1>2, <1>3, <1>4 DEF TypeInv

LEMMA HandledType ==
    ASSUME TypeInv
    PROVE  Handled \in Job
BY TypesNow, IdleTypes DEF Handled, TypeInv

\* A step that concerns the callbacks only, of a schedule that exists.
LEMMA CallType ==
    ASSUME TypeInv, UNCHANGED <<kind, runbook, over, row, up, req, restarts, readds, disturbed, orphaned, refused>>,
           job' \in Job, callback' \in Calls, lost' \in BOOLEAN, row.state # "none",
           fired' \in Nat, started' \in 0 .. StartBound, executions' \in Nat, run_count' \in Nat,
           failure_count' \in Nat, CountInv'
    PROVE  TypeInv'
<1>1. /\ Cardinality(Live)' \in Nat /\ Cardinality(At("started"))' \in Nat
      /\ Cardinality(At("inserted"))' \in Nat
  <2>1. /\ At("started")' \subseteq Live' /\ At("inserted")' \subseteq Live' /\ IsFiniteSet(Live)'
    BY DEF At, Live, CountInv
  <2> QED BY <2>1, FS_Subset, FS_CardinalityType
<1>2. /\ fired' \in 0 .. StartBound /\ executions' \in 0 .. StartBound
      /\ run_count' \in 0 .. StartBound /\ failure_count' \in 0 .. StartBound
  BY <1>1, IdleTypes DEF CountInv
<1>3. TypeOK'
  BY <1>2, TypesNow, TypesNext DEF TypeInv
<1>4. Shape' /\ Fresh'
  BY DEF TypeInv, Shape, Fresh
<1> QED BY <1>3, <1>4 DEF TypeInv

LEMMA CallStepType ==
    ASSUME TypeInv, NEW s \in Slots, Fire(s) \/ Trigger(s) \/ CallStep(s)
    PROVE  TypeInv'
<1>0. /\ job \in Job /\ callback \in Calls /\ lost \in BOOLEAN /\ StartBound \in Nat
      /\ fired \in 0 .. StartBound /\ started \in 0 .. StartBound /\ executions \in 0 .. StartBound
      /\ run_count \in 0 .. StartBound /\ failure_count \in 0 .. StartBound
      /\ restarts \in 0 .. RestartBound /\ CountInv /\ Fresh
      /\ Cardinality(Live) \in Nat /\ Cardinality(At("started")) \in Nat
      /\ Cardinality(At("inserted")) \in Nat
  BY TypesNow, IdleTypes, Counts DEF TypeInv, CountInv
<1>1. CASE Fire(s)
  <2>1. /\ CallMoves(s, "idle", "started") /\ started < StartBound /\ started' = started + 1
        /\ fired' \in {fired, fired + 1} /\ job' = Handled /\ job.state = "active"
        /\ UNCHANGED <<executions, run_count, failure_count, lost>> /\ callFrame
    BY <1>1, StartEffect DEF Fire, statVars
  <2>2. /\ UNCHANGED <<kind, runbook, over, row, up, req, restarts, readds, disturbed, orphaned, refused>>
        /\ row.state # "none"
    BY <1>0, <2>1 DEF callFrame, Fresh, NoJob
  <2>3. CountInv'
    BY <1>0, <2>1, <2>2, StartCounts DEF CountInv
  <2>4. job' \in Job /\ callback' \in Calls
    BY <2>1, HandledType DEF CallMoves
  <2> QED BY <1>0, <2>1, <2>2, <2>3, <2>4, CallType
<1>2. CASE Trigger(s)
  <2>1. /\ CallMoves(s, "idle", "started") /\ started < StartBound /\ started' = started + 1
        /\ UNCHANGED <<job, fired, executions, run_count, failure_count, lost>> /\ callFrame
        /\ row.state # "none"
    BY <1>2, StartEffect DEF Trigger, statVars, Present
  <2>2. UNCHANGED <<kind, runbook, over, row, up, req, restarts, readds, disturbed, orphaned, refused>>
    BY <2>1 DEF callFrame
  <2>3. CountInv'
    BY <1>0, <2>1, <2>2, StartCounts DEF CountInv
  <2>4. callback' \in Calls
    BY <2>1 DEF CallMoves
  <2> QED BY <1>0, <2>1, <2>2, <2>3, <2>4, CallType
<1>3. CASE InsertExecution(s)
  <2>1. /\ callback[s].at = "started" /\ callFrame
        /\ UNCHANGED <<job, fired, started, run_count, failure_count, lost>>
        /\ \/ Leads(s, "inserted") /\ executions' = executions + 1
           \/ Leads(s, "failing") /\ UNCHANGED executions
    BY <1>3 DEF InsertExecution
  <2>2. /\ UNCHANGED <<kind, runbook, over, row, up, req, restarts, readds, disturbed, orphaned, refused>>
        /\ row.state # "none"
    BY <1>0, <2>1 DEF callFrame, Fresh
  <2>3. CASE Leads(s, "inserted") /\ executions' = executions + 1
    <3>1. CallMoves(s, "started", "inserted")
      BY <2>1, <2>3, LeadsEffect
    <3>2. CountInv'
      BY <1>0, <2>1, <2>2, <2>3, <3>1, InsertCounts DEF CountInv
    <3> QED BY <1>0, <2>1, <2>2, <2>3, <3>1, <3>2, CallType DEF CallMoves
  <2>4. CASE Leads(s, "failing") /\ UNCHANGED executions
    <3>1. CallMoves(s, "started", "failing")
      BY <2>1, <2>4, LeadsEffect
    <3>2. CountInv'
      BY <1>0, <2>1, <2>2, <2>4, <3>1, InsertCounts DEF CountInv
    <3> QED BY <1>0, <2>1, <2>2, <2>4, <3>1, <3>2, CallType DEF CallMoves
  <2> QED BY <2>1, <2>3, <2>4
<1>4. CASE RecordRun(s)
  <2>1. /\ callback[s].at = "inserted" /\ callFrame
        /\ UNCHANGED <<job, fired, started, executions, failure_count, lost>>
        /\ \/ Leads(s, "idle") /\ run_count' = run_count + 1
           \/ ~Present /\ Leads(s, "failing") /\ UNCHANGED run_count
    BY <1>4 DEF RecordRun
  <2>2. /\ UNCHANGED <<kind, runbook, over, row, up, req, restarts, readds, disturbed, orphaned, refused>>
        /\ row.state # "none"
    BY <1>0, <2>1 DEF callFrame, Fresh
  <2>3. CASE Leads(s, "idle") /\ run_count' = run_count + 1
    <3>1. CallMoves(s, "inserted", "idle")
      BY <2>1, <2>3, LeadsEffect
    <3>2. CountInv'
      BY <1>0, <2>1, <2>2, <2>3, <3>1, RecordCounts DEF CountInv
    <3> QED BY <1>0, <2>1, <2>2, <2>3, <3>1, <3>2, CallType DEF CallMoves
  <2>4. CASE ~Present /\ Leads(s, "failing") /\ UNCHANGED run_count
    <3>1. CallMoves(s, "inserted", "failing")
      BY <2>1, <2>4, LeadsEffect
    <3>2. row.state = "gone"
      BY <2>2, <2>4, TypesNow DEF Present, Row, TypeInv
    <3>3. CountInv'
      BY <1>0, <2>1, <2>2, <2>4, <3>1, <3>2, RecordCounts DEF CountInv
    <3> QED BY <1>0, <2>1, <2>2, <2>4, <3>1, <3>3, CallType DEF CallMoves
  <2> QED BY <2>1, <2>3, <2>4
<1>5. CASE LoseRecord(s)
  <2>1. /\ CallMoves(s, "inserted", "failing") /\ callFrame /\ lost'
        /\ UNCHANGED <<job, fired, started, executions, run_count, failure_count>>
        /\ callback[s].at = "inserted" /\ lost' = TRUE
    BY <1>5, LeadsEffect DEF LoseRecord, statVars
  <2>2. /\ UNCHANGED <<kind, runbook, over, row, up, req, restarts, readds, disturbed, orphaned, refused>>
        /\ row.state # "none"
    BY <1>0, <2>1 DEF callFrame, Fresh
  <2>3. CountInv'
    BY <1>0, <2>1, <2>2, RecordCounts DEF CountInv
  <2> QED BY <1>0, <2>1, <2>2, <2>3, CallType DEF CallMoves
<1>6. CASE RecordFailure(s)
  <2>1. /\ CallMoves(s, "failing", "idle") /\ callFrame /\ callback[s].at = "failing"
        /\ UNCHANGED <<job, fired, started, executions, run_count, lost>>
        /\ failure_count' \in {failure_count, failure_count + 1}
    BY <1>6, LeadsEffect DEF RecordFailure
  <2>2. /\ UNCHANGED <<kind, runbook, over, row, up, req, restarts, readds, disturbed, orphaned, refused>>
        /\ row.state # "none"
    BY <1>0, <2>1 DEF callFrame, Fresh
  <2>3. CountInv'
    BY <1>0, <2>1, <2>2, FailCounts DEF CountInv
  <2> QED BY <1>0, <2>1, <2>2, <2>3, CallType DEF CallMoves
<1> QED BY <1>1, <1>2, <1>3, <1>4, <1>5, <1>6 DEF CallStep

LEMMA LoadEffect ==
    ASSUME TypeInv, Load
    PROVE  /\ up = "loading" /\ up' = "up"
           /\ UNCHANGED <<kind, runbook, over, row, req, callback, fired, started, executions, run_count,
                          failure_count, restarts, disturbed, orphaned, lost>>
           /\ job' \in Job /\ readds' \in 0 .. StartBound /\ readds <= readds' /\ refused' \in BOOLEAN
           /\ \/ /\ Present /\ row.enabled /\ row.definition.valid
                 /\ job' = Registered(row.definition)
                 /\ kind = "date" /\ readds < StartBound => readds' = readds + 1
                 /\ refused' = FALSE
              \/ UNCHANGED <<job, readds, refused>>
<1>0. /\ row.definition \in Definition /\ job \in Job /\ readds \in 0 .. StartBound
      /\ refused \in BOOLEAN
  BY TypesNow DEF TypeInv, Row
<1>1. /\ up = "loading" /\ up' = "up"
      /\ UNCHANGED <<kind, runbook, over, row, req, callback, fired, started, executions, run_count,
                     failure_count, restarts, disturbed, orphaned, lost>>
  BY DEF Load, callVars, statVars
<1>2. CASE Present /\ row.enabled
  <2>1. Add(row.definition) /\ refused' = (refused /\ ~row.definition.valid)
    BY <1>2 DEF Load
  <2>2. CASE row.definition.valid
    BY <1>0, <1>1, <1>2, <2>1, <2>2, AddEffect
  <2>3. CASE ~row.definition.valid
    <3>1. UNCHANGED <<job, readds>>
      BY <1>0, <2>1, <2>3, AddEffect
    <3>2. UNCHANGED refused
      BY <1>0, <2>1, <2>3
    <3> QED BY <1>0, <1>1, <3>1, <3>2
  <2> QED BY <2>2, <2>3
<1>3. CASE ~(Present /\ row.enabled)
  <2>1. UNCHANGED <<job, readds, refused>>
    BY <1>3 DEF Load
  <2> QED BY <1>0, <1>1, <2>1
<1> QED BY <1>2, <1>3

LEMMA CrashEffect ==
    ASSUME TypeInv, Crash
    PROVE  /\ up' = "loading" /\ restarts < RestartBound /\ restarts' = restarts + 1
           /\ req' \in [Clients -> Request] /\ \A c \in Clients : req'[c] = Idle
           /\ callback' \in Calls /\ \A s \in Slots : callback'[s].at = "idle"
           /\ disturbed' \in BOOLEAN /\ (disturbed => disturbed')
           /\ ~disturbed' => \A c \in Clients : req[c] = Idle
           /\ UNCHANGED <<kind, runbook, over, row, job, fired, started, executions, run_count, failure_count,
                          readds, orphaned, refused, lost>>
<1>1. disturbed' \in BOOLEAN /\ (disturbed => disturbed')
  BY Zenon DEF Crash
<1>2. ~disturbed' => \A c \in Clients : req[c] = Idle
  BY DEF Crash, Busy
<1>3. req' \in [Clients -> Request] /\ \A c \in Clients : req'[c] = Idle
  BY IdleTypes DEF Crash
<1>4. callback' \in Calls /\ \A s \in Slots : callback'[s].at = "idle"
  BY DEF Crash, Calls, NoCallback
<1> QED BY <1>1, <1>2, <1>3, <1>4 DEF Crash, storeVars, statVars

LEMMA DeleteRunbookEffect ==
    ASSUME TypeInv, DeleteRunbook
    PROVE  /\ row' \in Row /\ runbook' \in BOOLEAN /\ row'.state # "present"
           /\ Present => row'.state = "gone" /\ orphaned'
           /\ ~Present => UNCHANGED row
           /\ row'.enabled = row.enabled
           /\ orphaned' \in BOOLEAN /\ (orphaned => orphaned')
           /\ UNCHANGED <<kind, over, job, up, req, callback, fired, started, executions, run_count,
                          failure_count, restarts, readds, disturbed, refused, lost>>
<1>1. orphaned' \in BOOLEAN /\ (orphaned \/ Present => orphaned')
  BY Zenon DEF DeleteRunbook, Present
<1>2. /\ row' \in Row /\ row'.state # "present" /\ row'.enabled = row.enabled /\ (Present => row'.state = "gone")
      /\ ~Present => UNCHANGED row
  BY TypesNow DEF DeleteRunbook, Row, Present, TypeInv
<1> QED BY <1>1, <1>2 DEF DeleteRunbook, callVars, statVars

LEMMA MissEffect ==
    ASSUME TypeInv, Miss
    PROVE  /\ job.state = "active" /\ job' = Handled /\ job' \in Job
           /\ UNCHANGED <<kind, runbook, over, row, up, req, callback, fired, started, executions, run_count,
                          failure_count, restarts, readds, disturbed, orphaned, refused, lost>>
BY HandledType DEF Miss, callVars, statVars, callFrame

LEMMA EndEffect ==
    ASSUME TypeInv, NEW version \in 0 .. EditBound, TriggerEnds(version)
    PROVE  /\ kind = "recurring" /\ over' \subseteq 0 .. EditBound /\ over \subseteq over'
           /\ UNCHANGED <<kind, runbook, row, job, up, req, callback, fired, started, executions,
                          run_count, failure_count, restarts, readds, disturbed, orphaned, refused, lost>>
BY TypesNow DEF TriggerEnds, TypeInv, storeVars, callVars, statVars, causeVars

LEMMA SameCalls ==
    ASSUME TypeInv, UNCHANGED <<callback, fired, started, executions, run_count, failure_count, restarts, lost>>,
           row'.state # "gone" => row.state # "gone"
    PROVE  CountInv'
<1>1. At("started")' = At("started") /\ At("inserted")' = At("inserted") /\ Live' = Live
  BY DEF At, Live
<1> QED BY <1>1 DEF TypeInv, CountInv

LEMMA TypeInit ==
    ASSUME Init
    PROVE  TypeInv
<1>1. TypeOK
  <2>1. row \in Row /\ job \in Job /\ req \in [Clients -> Request] /\ callback \in Calls
    BY IdleTypes DEF Init, Row, Definition, Calls, NoCallback
  <2>2. restarts \in 0 .. RestartBound /\ 0 \in 0 .. StartBound
    BY IdleTypes DEF Init
  <2> QED BY <2>1, <2>2 DEF Init, TypeOK, Row, Job, Calls
<1>2. Shape /\ Fresh
  BY DEF Init, Shape, Fresh, Idle, NoCallback
<1>3. CountInv
  <2>1. At("started") = {} /\ At("inserted") = {} /\ Live = {}
    BY DEF Init, At, Live, NoCallback
  <2> QED BY <2>1, FS_EmptySet DEF Init, CountInv
<1> QED BY <1>1, <1>2, <1>3 DEF TypeInv

LEMMA TypeStep ==
    ASSUME TypeInv, [Next]_vars
    PROVE  TypeInv'
<1>0. TypeOK /\ Shape /\ Fresh /\ CountInv
  BY DEF TypeInv
<1>1. CASE Miss
  <2>1. TypeOK'
    BY <1>0, <1>1, MissEffect, TypesNow, TypesNext
  <2>2. Shape' /\ Fresh'
    BY <1>0, <1>1, MissEffect DEF Shape, Fresh, NoJob
  <2>3. CountInv'
    BY <1>1, MissEffect, SameCalls
  <2> QED BY <2>1, <2>2, <2>3 DEF TypeInv
<1>2. CASE DeleteRunbook
  <2>1. TypeOK'
    BY <1>0, <1>2, DeleteRunbookEffect, TypesNow, TypesNext
  <2>2. Shape' /\ Fresh'
    BY <1>0, <1>2, DeleteRunbookEffect DEF Shape, Fresh, Present
  <2>3. CountInv'
    BY <1>2, DeleteRunbookEffect, SameCalls DEF Present
  <2> QED BY <2>1, <2>2, <2>3 DEF TypeInv
<1>3. CASE Crash
  <2>1. TypeOK'
    BY <1>0, <1>3, CrashEffect, TypesNow, TypesNext, IdleTypes
  <2>2. Shape' /\ Fresh'
    BY <1>0, <1>3, CrashEffect, IdleTypes DEF Shape, Fresh
  <2>3. CountInv'
    <3>1. At("started")' = {} /\ At("inserted")' = {} /\ Live' = {}
      BY <1>3, CrashEffect DEF At, Live
    <3>2. restarts' # 0
      BY <1>0, <1>3, CrashEffect DEF TypeOK
    <3>3. /\ Cardinality(At("started")) \in Nat /\ Cardinality(At("inserted")) \in Nat
          /\ Cardinality(Live) \in Nat
      BY <1>0, Counts DEF CountInv
    <3>4. /\ fired \in Nat /\ started \in Nat /\ executions \in Nat /\ run_count \in Nat
          /\ failure_count \in Nat
      BY <1>0, TypesNow
    <3>5. /\ fired <= started /\ executions <= started /\ run_count <= executions
          /\ run_count + failure_count <= started
      BY <1>0, <3>3, <3>4 DEF CountInv
    <3>6. UNCHANGED <<fired, started, executions, run_count, failure_count>>
      BY <1>3, CrashEffect
    <3>7. Cardinality({}) = 0 /\ IsFiniteSet({})
      BY FS_EmptySet
    <3>8. /\ IsFiniteSet(Live)' /\ Cardinality(Live)' = 0 /\ Cardinality(At("started"))' = 0
          /\ Cardinality(At("inserted"))' = 0
      BY <3>1, <3>7
    <3> QED BY <3>2, <3>4, <3>5, <3>6, <3>8 DEF CountInv
  <2> QED BY <2>1, <2>2, <2>3 DEF TypeInv
<1>4. CASE Load
  <2>1. TypeOK'
    BY <1>0, <1>4, LoadEffect, TypesNow, TypesNext
  <2>2. Shape'
    BY <1>0, <1>4, LoadEffect DEF Shape
  <2>4. Fresh'
    <3>1. /\ up' = "up" /\ row' = row /\ req' = req /\ callback' = callback
          /\ row.state = "none" => job' = job
      BY <1>4, LoadEffect DEF Present
    <3> QED BY <1>0, <3>1 DEF Fresh
  <2>3. CountInv'
    BY <1>4, LoadEffect, SameCalls
  <2> QED BY <2>1, <2>2, <2>3, <2>4 DEF TypeInv
<1>6. ASSUME NEW version \in 0 .. EditBound, TriggerEnds(version) PROVE TypeInv'
  <2>1. TypeOK'
    BY <1>0, <1>6, EndEffect, TypesNow, TypesNext
  <2>2. Shape' /\ Fresh'
    BY <1>0, <1>6, EndEffect DEF Shape, Fresh, NoJob
  <2>3. CountInv'
    BY <1>6, EndEffect, SameCalls
  <2> QED BY <2>1, <2>2, <2>3 DEF TypeInv
<1>5. CASE UNCHANGED vars
  <2>1. TypeOK' /\ Shape' /\ Fresh'
    BY <1>0, <1>5 DEF vars, storeVars, callVars, statVars, causeVars, TypeOK, Shape, Fresh, NoJob
  <2>2. CountInv'
    BY <1>5, SameCalls DEF vars, storeVars, callVars, statVars, causeVars
  <2> QED BY <2>1, <2>2 DEF TypeInv
<1> QED BY <1>1, <1>2, <1>3, <1>4, <1>5, <1>6, RequestType, CallStepType DEF Next

LEMMA TypeHolds == Spec => []TypeInv
BY TypeInit, TypeStep, PTL DEF Spec

\* Every variable keeps to its values; in particular no count passes the number of
\* callbacks that were started.
THEOREM TypeCorrect == Spec => []TypeOK
<1>1. TypeInv => TypeOK
  BY DEF TypeInv
<1> QED BY <1>1, TypeHolds, PTL

\* run_count never runs ahead of the executions, and tells them exactly until a crash or
\* a failed commit comes between an execution and its record.
THEOREM RunsAreCounted == Spec => []RunCountTellsExecutions
<1>1. TypeInv => RunCountTellsExecutions
  <2> SUFFICES ASSUME TypeInv, Present
               PROVE  /\ run_count + Cardinality(At("inserted")) <= executions
                      /\ ~lost /\ restarts = 0 => run_count + Cardinality(At("inserted")) = executions
                      /\ run_count + failure_count <= started
    BY DEF RunCountTellsExecutions, At
  <2>1. CountInv /\ row.state # "gone" /\ Cardinality(Live) \in Nat
    BY Counts DEF TypeInv, CountInv, Present
  <2>2. run_count \in Nat /\ failure_count \in Nat /\ started \in Nat
    BY TypesNow DEF TypeInv
  <2> QED BY <2>1, <2>2 DEF CountInv
<1> QED BY <1>1, TypeHolds, PTL

---------------------------------------------------------------------------
(* One-shot schedules                                                      *)

\* Only the request that creates the schedule registers a job where there is none.
JobKept(c) ==
    /\ Sets(c) /\ UNCHANGED <<kind, fired>> /\ readds' \in Nat /\ readds <= readds'
    /\ row'.state # "none"
    /\ Creating(c)' => UNCHANGED job /\ (Creating(c) \/ row.state = "none")
    /\ Known' => Known \/ Creating(c)
    /\ ~Known /\ ~Creating(c) => job' \in {job, NoJob}

LEMMA RequestJob ==
    ASSUME TypeInv, NEW c \in Clients, ClientStep(c)
    PROVE  JobKept(c)
<1>0. /\ Sets(c) /\ UNCHANGED <<kind, fired>> /\ readds' \in 0 .. StartBound /\ row'.state # "none"
      /\ readds \in 0 .. StartBound
  BY RequestTypes, RequestFrame, TypesNow DEF TypesKept, TypeInv
<1>1. ASSUME UNCHANGED <<job, readds>>, Creating(c)' => Creating(c) \/ row.state = "none"
      PROVE  JobKept(c)
  BY <1>0, <1>1, IdleTypes DEF JobKept, Known
<1>2. req'[c] = Idle \/ req'[c].op # "create" => ~Creating(c)'
  BY IdleTypes DEF Creating
<1>3. ASSUME NEW enabled \in BOOLEAN, NEW valid \in BOOLEAN, Create(c, enabled, valid) PROVE JobKept(c)
  BY <1>1, <1>3, CreateEffect
<1>4. ASSUME NEW op \in Ops, Read(c, op) PROVE JobKept(c)
  <2>1. req'[c].op # "create" /\ UNCHANGED <<job, readds>>
    BY <1>4, ReadEffect DEF storeVars
  <2> QED BY <1>1, <1>2, <2>1
<1>5. ASSUME NEW e \in BOOLEAN, Committed(c, e), req[c].op \in {"update", "pause", "resume"},
             UNCHANGED <<job, readds>>
      PROVE  JobKept(c)
  <2>1. req'[c] = Idle \/ req'[c].op # "create"
    BY <1>5, CommittedEffect
  <2> QED BY <1>1, <1>2, <1>5, <2>1
<1>6. ASSUME NEW valid \in BOOLEAN, CommitDefinition(c, valid) PROVE JobKept(c)
  <2>1. (req'[c] = Idle \/ req'[c].op # "create") /\ UNCHANGED <<job, readds>>
    <3>1. req[c].op = "update" /\ UNCHANGED <<job, readds>>
      BY <1>6 DEF CommitDefinition
    <3> QED BY <1>6, <3>1, DefinitionEffect
  <2> QED BY <1>1, <1>2, <2>1
<1>7. CASE Refresh(c)
  <2>1. UNCHANGED <<job, readds>> /\ req[c].at = "committed"
    BY <1>7 DEF Refresh, storeVars
  <2>2. req'[c] = Idle \/ req'[c].op = req[c].op
    BY <1>7, RefreshEffect
  <2>3. Creating(c)' => Creating(c)
    BY <1>2, <2>1, <2>2 DEF Creating
  <2> QED BY <1>1, <2>1, <2>3
<1>8. ASSUME NEW written \in BOOLEAN, AddCreated(c, written) PROVE JobKept(c)
  <2>1. Creating(c) /\ UNCHANGED readds
    BY <1>8 DEF AddCreated, Creating
  <2>2. ~Creating(c)'
    BY <1>2, <1>8, AddCreatedEffect DEF Creating
  <2> QED BY <1>0, <2>1, <2>2, IdleTypes DEF JobKept
<1>9. CASE UndoCreate(c)
  BY <1>1, <1>2, <1>9, UndoEffect
<1>10. CASE ApplyUpdate(c)
  <2>1. req'[c] = Idle /\ readds <= readds' /\ (job' = NoJob \/ Known)
    BY <1>10, ApplyUpdateEffect
  <2> QED BY <1>0, <1>2, <2>1, IdleTypes DEF JobKept, Known
<1>11. CASE ApplyPause(c)
  <2>1. req'[c] = Idle /\ UNCHANGED readds /\ (~Known => UNCHANGED job)
    BY <1>11, ApplyPauseEffect
  <2> QED BY <1>0, <1>2, <2>1, IdleTypes DEF JobKept, Known
<1>12. CASE ApplyResume(c)
  <2>1. req'[c] = Idle /\ UNCHANGED readds /\ (~Known => UNCHANGED job)
    BY <1>12, ApplyResumeEffect
  <2> QED BY <1>0, <1>2, <2>1, IdleTypes DEF JobKept, Known
<1>13. CASE RemoveJob(c)
  <2>1. req'[c].op # "create" /\ UNCHANGED readds /\ job' = NoJob
    BY <1>13, RemoveJobEffect
  <2> QED BY <1>0, <1>2, <2>1, IdleTypes DEF JobKept, Known
<1>14. CASE DeleteRow(c)
  BY <1>1, <1>2, <1>14, DeleteRowEffect
<1> QED
  BY <1>3, <1>4, <1>5, <1>6, <1>7, <1>8, <1>9, <1>10, <1>11, <1>12, <1>13, <1>14
  DEF ClientStep, CommitPause, CommitResume, CommitEnabled

LEMMA MoreAllows ==
    \A n, m, k \in Nat : n <= 1 + m /\ m <= k => n <= 1 + k
OBVIOUS

LEMMA OneShotRequest ==
    ASSUME TypeInv, OneShotInv, NEW c \in Clients, ClientStep(c)
    PROVE  OneShotInv'
<1>0. JobKept(c) /\ \A d \in Clients : d # c => (Creating(d)' <=> Creating(d))
  BY RequestJob DEF JobKept, Sets, Creating
<1>1. fired \in Nat /\ readds \in Nat /\ Fresh
  BY TypesNow DEF TypeInv
<1>2. row.state = "none" => job = NoJob /\ \A d \in Clients : ~Creating(d)
  BY <1>1 DEF Fresh, Creating
<1>3. ASSUME NEW d \in Clients, NEW e \in Clients, Creating(d)', Creating(e)' PROVE d = e
  BY <1>0, <1>2, <1>3 DEF OneShotInv, JobKept
<1>4. ASSUME NEW d \in Clients, Creating(d)' PROVE job' = NoJob /\ fired' = 0
  <2>1. CASE d = c
    BY <1>0, <1>2, <1>4, <2>1 DEF OneShotInv, JobKept
  <2>2. CASE d # c
    <3>1. Creating(d) /\ job = NoJob /\ fired = 0 /\ ~Creating(c) /\ ~Known
      BY <1>0, <1>4, <2>2, IdleTypes DEF OneShotInv, Known
    <3> QED BY <1>0, <3>1 DEF JobKept
  <2> QED BY <2>1, <2>2
<1>5. ASSUME kind' = "date" PROVE fired' <= 1 + readds' /\ (Known' => fired' <= readds')
  <2>1. kind = "date" /\ fired' = fired /\ readds' \in Nat /\ readds <= readds'
    BY <1>0, <1>5 DEF JobKept
  <2>2. fired <= 1 + readds /\ (Known => fired <= readds)
    BY <2>1 DEF OneShotInv
  <2>3. Known' /\ ~Known => fired = 0
    BY <1>0 DEF OneShotInv, JobKept
  <2>4. fired' <= 1 + readds'
    <3>1. fired <= 1 + readds'
      BY <1>1, <2>1, <2>2, MoreAllows
    <3> QED BY <2>1, <3>1
  <2>5. Known' => fired' <= readds'
    BY <1>1, <2>1, <2>2, <2>3
  <2> QED BY <2>4, <2>5
<1> QED BY <1>0, <1>3, <1>4, <1>5 DEF OneShotInv, JobKept

LEMMA OneShotStep ==
    ASSUME TypeInv, OneShotInv, [Next]_vars
    PROVE  OneShotInv'
<1>0. /\ fired \in 0 .. StartBound /\ readds \in 0 .. StartBound /\ kind \in {"recurring", "date"}
      /\ Fresh /\ StartBound \in Nat
  BY TypesNow, IdleTypes DEF TypeInv
<1>1. ASSUME UNCHANGED <<kind, req>>, fired' \in {fired, fired + 1},
             row'.state = "none" => row.state = "none",
             fired' = fired + 1 => job.state = "active",
             job' = job \/ (job.state = "active" /\ job' = NoJob),
             fired' = fired + 1 /\ kind = "date" => job' = NoJob,
             UNCHANGED readds
      PROVE  OneShotInv'
  <2>1. \A c \in Clients : Creating(c)' <=> Creating(c)
    BY <1>1 DEF Creating
  <2>2. job.state = "active" => row.state # "none" /\ \A c \in Clients : ~Creating(c)
    BY <1>0, IdleTypes DEF Fresh, OneShotInv
  <2>3. row'.state = "none" => fired' = 0
    BY <1>0, <1>1, <2>2 DEF OneShotInv
  <2>4. \A c \in Clients : Creating(c)' => job' = NoJob /\ fired' = 0
    BY <1>0, <1>1, <2>1, <2>2 DEF OneShotInv
  <2>5. kind' = "date" => fired' <= 1 + readds' /\ (Known' => fired' <= readds')
    BY <1>0, <1>1, IdleTypes DEF OneShotInv, Known
  <2> QED BY <2>1, <2>3, <2>4, <2>5 DEF OneShotInv
<1>2. ASSUME NEW s \in Slots, Fire(s) PROVE OneShotInv'
  <2>1. /\ UNCHANGED <<kind, req, row, readds>> /\ fired' = IF kind = "date" THEN fired + 1 ELSE fired
        /\ job.state = "active" /\ job' = Handled
    BY <1>2 DEF Fire, callFrame
  <2> QED BY <1>0, <1>1, <2>1 DEF Handled
<1>3. ASSUME NEW s \in Slots, Trigger(s) \/ CallStep(s) PROVE OneShotInv'
  <2>1. UNCHANGED <<kind, req, row, readds, fired, job>>
    BY <1>3 DEF Trigger, CallStep, InsertExecution, RecordRun, LoseRecord, RecordFailure, callFrame
  <2> QED BY <1>0, <1>1, <2>1
<1>4. CASE Miss
  <2>1. UNCHANGED <<kind, req, row, readds, fired>> /\ job.state = "active" /\ job' = Handled
    BY <1>4, MissEffect
  <2> QED BY <1>0, <1>1, <2>1 DEF Handled
<1>5. CASE DeleteRunbook
  <2>1. UNCHANGED <<kind, req, readds, fired, job>> /\ (row'.state = "none" => row.state = "none")
    BY <1>5, DeleteRunbookEffect
  <2> QED BY <1>0, <1>1, <2>1
<1>6. CASE Crash
  <2>1. UNCHANGED <<kind, row, readds, fired, job>> /\ \A c \in Clients : ~Creating(c)'
    BY <1>6, CrashEffect, IdleTypes DEF Creating
  <2> QED BY <2>1 DEF OneShotInv, Known
<1>7. CASE Load
  <2>1. /\ UNCHANGED <<kind, row, fired>> /\ \A c \in Clients : ~Creating(c)'
        /\ readds' \in 0 .. StartBound /\ readds <= readds'
    BY <1>0, <1>7, LoadEffect DEF Creating, Fresh
  <2>2. kind = "date" => fired' <= 1 + readds' /\ (Known' => fired' <= readds')
    <3>0. /\ kind = "date" => fired <= 1 + readds
          /\ kind = "date" /\ Known => fired <= readds
      BY DEF OneShotInv
    <3>1. fired \in Nat /\ readds \in Nat /\ readds' \in Nat
      BY <1>0, <2>1
    <3>2. kind = "date" => fired <= 1 + readds'
      BY <2>1, <3>0, <3>1, MoreAllows
    <3>3. CASE UNCHANGED job
      <4>1. Known' = Known
        BY <3>3 DEF Known
      <4>2. kind = "date" /\ Known => fired <= readds'
        BY <2>1, <3>0, <3>1
      <4> QED BY <2>1, <3>2, <4>1, <4>2
    <3>4. CASE kind = "date" /\ readds < StartBound => readds' = readds + 1
      <4>1. kind = "date" => fired <= readds'
        <5>1. CASE readds < StartBound
          BY <3>0, <3>1, <3>4, <5>1
        <5>2. CASE readds = StartBound
          BY <1>0, <2>1, <5>2
        <5> QED BY <1>0, <5>1, <5>2
      <4> QED BY <2>1, <3>2, <4>1
    <3> QED BY <1>7, <3>3, <3>4, LoadEffect
  <2> QED BY <2>1, <2>2 DEF OneShotInv
<1>8. CASE UNCHANGED vars
  <2>1. UNCHANGED <<kind, req, row, readds, fired, job>>
    BY <1>8 DEF vars, storeVars, callVars
  <2> QED BY <1>0, <1>1, <2>1
<1>9. ASSUME NEW version \in 0 .. EditBound, TriggerEnds(version) PROVE OneShotInv'
  <2>1. UNCHANGED <<kind, req, row, readds, fired, job>>
    BY <1>9, EndEffect
  <2> QED BY <1>0, <1>1, <2>1
<1> QED BY <1>2, <1>3, <1>4, <1>5, <1>6, <1>7, <1>8, <1>9, OneShotRequest DEF Next

\* A date schedule is handed to the callback at most once for each time it was registered.
THEOREM OneShotIsOnce == Spec => []OneShotOnce
<1>1. Init => OneShotInv
  BY IdleTypes DEF Init, OneShotInv, Creating, Known
<1>2. TypeInv /\ OneShotInv /\ [Next]_vars => OneShotInv'
  BY OneShotStep
<1>3. TypeInv /\ OneShotInv => OneShotOnce
  BY TypesNow DEF TypeInv, OneShotInv, OneShotOnce
<1> QED BY <1>1, <1>2, <1>3, TypeHolds, PTL DEF Spec

---------------------------------------------------------------------------
(* Row and job                                                             *)

\* What PairInv says when no client but c has a request.
PairOf(c) ==
    /\ row.state = "gone" => ~Known \/ orphaned
    /\ req[c].at \in {"idle", "read"} => Off /\ On
    /\ Present /\ Known /\ (req[c].op = "update" => req[c].at = "read") =>
         job.version = row.definition.version
    /\ Holds(c)

LEMMA PairNow ==
    ASSUME TypeInv, PairInv, ~disturbed, NEW c \in Clients,
           \A d \in Clients : d # c => req[d] = Idle
    PROVE  PairOf(c)
BY IdleTypes DEF PairInv, PairOf

LEMMA PairNext ==
    ASSUME NEW c \in Clients, \A d \in Clients : d # c => req'[d] = Idle, PairOf(c)'
    PROVE  PairInv'
<1>1. \A d \in Clients : d # c => Holds(d)' /\ ~Busy(d)' /\ req'[d].at = "idle" /\ req'[d].op = "none"
  BY IdleTypes DEF Holds, Busy, Creating
<1> QED BY <1>1 DEF PairInv, PairOf

\* The end of a request that leaves row and job as they should be.
LEMMA PairEnd ==
    ASSUME NEW c \in Clients, req'[c] = Idle, Off', On',
           Present' /\ Known' => job'.version = row'.definition.version
    PROVE  PairOf(c)'
<1>1. Holds(c)'
  BY IdleTypes DEF Holds, Creating
<1> QED BY <1>1 DEF PairOf, Off

LEMMA PairBegins ==
    ASSUME TypeInv, PairInv, ~disturbed, NEW c \in Clients, PairOf(c),
           \/ \E enabled, valid \in BOOLEAN : Create(c, enabled, valid)
           \/ \E op \in Ops : Read(c, op)
    PROVE  PairOf(c)'
<1>1. ASSUME NEW enabled \in BOOLEAN, NEW valid \in BOOLEAN, Create(c, enabled, valid)
      PROVE  PairOf(c)'
  <2>1. job' = NoJob /\ row'.state = "present" /\ row'.enabled = enabled
    BY <1>1, CreateEffect DEF TypeInv, Fresh
  <2>2. ~Known'
    BY <2>1, IdleTypes DEF Known
  <2>3. CASE enabled
    <3>1. req'[c].op = "create" /\ req'[c].at = "committed"
      BY <1>1, <2>3, CreateEffect
    <3> QED BY <2>1, <2>2, <2>3, <3>1 DEF PairOf, Holds
  <2>4. CASE ~enabled
    <3>1. req'[c] = Idle
      BY <1>1, <2>4, CreateEffect
    <3> QED BY <2>1, <2>2, <2>4, <3>1, PairEnd, IdleTypes DEF Off, On
  <2> QED BY <2>3, <2>4
<1>2. ASSUME NEW op \in Ops, Read(c, op)
      PROVE  PairOf(c)'
  <2>1. /\ req'[c].op = op /\ req'[c].at = "read" /\ op # "create"
        /\ op # "delete" => req'[c].enabled = row.enabled
        /\ UNCHANGED <<row, job, orphaned, refused>> /\ req[c] = Idle
    BY <1>2, ReadEffect, BeginsEffect DEF storeVars
  <2>2. UNCHANGED <<kind, over>>
    BY <1>2 DEF Read, requestFrame
  <2>3. Off /\ On /\ (Present /\ Known => job.version = row.definition.version)
    BY <2>1, IdleTypes DEF PairOf
  <2>4. Off' /\ On' /\ (Present' /\ Known' => job'.version = row'.definition.version)
    BY <2>1, <2>2, <2>3 DEF Off, On, Present, Known
  <2>5. Holds(c)'
    BY <2>1 DEF Holds, Creating
  <2> QED BY <2>4, <2>5 DEF PairOf, Off
<1> QED BY <1>1, <1>2

LEMMA PairCommits ==
    ASSUME TypeInv, ~disturbed, NEW c \in Clients, PairOf(c), UNCHANGED <<kind, over>>,
           UNCHANGED <<job, orphaned>>, req[c].op \in {"update", "pause", "resume"}, req[c].at = "read",
           row' \in Row, row'.state = row.state,
           \/ /\ Present /\ req'[c].op = req[c].op /\ req'[c].at = "committed"
              /\ req[c].op = "pause" => ~row'.enabled /\ row'.definition = row.definition
              /\ req[c].op = "resume" => row'.enabled /\ row'.definition = row.definition
           \/ ~Present /\ req'[c] = Idle /\ refused' = TRUE /\ UNCHANGED row
    PROVE  PairOf(c)'
<1>1. CASE Present
  <2>1. /\ row'.state # "gone" /\ req'[c].op = req[c].op /\ req'[c].at = "committed"
        /\ req[c].op = "pause" => ~row'.enabled /\ row'.definition = row.definition
        /\ req[c].op = "resume" => row'.enabled /\ row'.definition = row.definition
    BY <1>1 DEF Present
  <2>2. Holds(c)'
    BY <2>1 DEF Holds, Creating
  <2>3. Known /\ req[c].op # "update" => job.version = row.definition.version
    BY <1>1 DEF PairOf
  <2> QED BY <2>1, <2>2, <2>3 DEF PairOf, Known
<1>2. CASE ~Present
  <2>1. req'[c] = Idle /\ refused' = TRUE /\ UNCHANGED <<row, job, orphaned>>
    BY <1>2
  <2>2. Off' /\ On' /\ ~Present'
    BY <1>2, <2>1 DEF PairOf, Off, On, Present, Known
  <2> QED BY <2>1, <2>2, PairEnd
<1> QED BY <1>1, <1>2

LEMMA PairApplies ==
    ASSUME TypeInv, ~disturbed, NEW c \in Clients, PairOf(c), UNCHANGED <<kind, over>>,
           \/ Refresh(c) \/ (\E written \in BOOLEAN : AddCreated(c, written)) \/ UndoCreate(c)
           \/ ApplyUpdate(c) \/ ApplyPause(c) \/ ApplyResume(c) \/ RemoveJob(c) \/ DeleteRow(c)
    PROVE  PairOf(c)'
<1>0. job \in Job /\ row \in Row /\ Holds(c) /\ (row.state = "gone" => ~Known \/ orphaned)
  BY TypesNow DEF TypeInv, PairOf
<1>1. CASE Refresh(c)
  <2>1. req[c].op \in {"create", "update"} /\ req[c].at = "committed"
    BY <1>1 DEF Refresh
  <2>2. UNCHANGED <<row, job, orphaned>>
    BY <1>1, RefreshEffect DEF storeVars
  <2>3. CASE Present
    <3>1. /\ req'[c].op = req[c].op /\ req'[c].at = "refreshed"
          /\ req'[c].enabled = row.enabled /\ req'[c].definition = row.definition
      BY <1>1, <2>3, RefreshEffect
    <3>2. Holds(c)'
      BY <1>0, <2>1, <2>2, <2>3, <3>1 DEF Holds, Creating, Present
    <3>3. Known /\ req[c].op # "update" => job.version = row.definition.version
      BY <2>3 DEF PairOf
    <3> QED BY <2>2, <2>3, <3>1, <3>2, <3>3 DEF PairOf, Present, Known
  <2>4. CASE ~Present
    <3>1. req'[c] = Idle /\ refused' = TRUE
      BY <1>1, <2>4, RefreshEffect
    <3>2. Off' /\ On' /\ ~Present'
      BY <1>0, <2>2, <2>4, <3>1 DEF Off, On, Present, Known
    <3> QED BY <3>1, <3>2, PairEnd
  <2> QED BY <2>3, <2>4
<1>2. ASSUME NEW written \in BOOLEAN, AddCreated(c, written) PROVE PairOf(c)'
  <2>1. req[c].op = "create" /\ req[c].at = "refreshed" /\ UNCHANGED <<row, orphaned>>
    BY <1>2, AddCreatedEffect DEF AddCreated
  <2>2. row.enabled /\ (row.state = "gone" => orphaned) /\ (Present => req[c].definition = row.definition)
    BY <1>0, <2>1 DEF Holds, Creating
  <2>3. Present /\ Known' => job'.version = row.definition.version
    <3>1. Present /\ Known => job.version = row.definition.version
      BY <2>1 DEF PairOf
    <3>2. CASE req[c].definition.valid
      <4>1. job' = Registered(req[c].definition) /\ req[c].definition \in Definition
        BY <1>2, <3>2, AddCreatedEffect
      <4> QED BY <2>2, <4>1, RegisteredIs
    <3>3. CASE ~req[c].definition.valid
      <4>1. UNCHANGED job
        BY <1>2, <3>3, AddCreatedEffect
      <4> QED BY <3>1, <4>1 DEF Known
    <3> QED BY <3>2, <3>3
  <2>4. CASE req'[c] = Idle
    <3>1. job' = Registered(req[c].definition) /\ req[c].definition \in Definition
      BY <1>2, <2>4, AddCreatedEffect, IdleTypes
    <3>2. Off' /\ On'
      BY <2>1, <2>2, <3>1, RegisteredIs DEF Off, On, Present
    <3> QED BY <2>1, <2>3, <2>4, <3>2, PairEnd DEF Present
  <2>5. CASE req'[c] # Idle
    <3>1. req'[c].op = "create" /\ req'[c].at = "undo"
      BY <1>2, <2>5, AddCreatedEffect
    <3>2. Holds(c)'
      BY <2>1, <2>2, <3>1 DEF Holds, Creating
    <3> QED BY <2>1, <2>2, <2>3, <3>1, <3>2 DEF PairOf, Present
  <2> QED BY <2>4, <2>5
<1>3. CASE UndoCreate(c)
  <2>1. req'[c] = Idle /\ row'.state = "gone" /\ UNCHANGED job /\ (Known => orphaned')
    BY <1>3, UndoEffect
  <2> QED BY <2>1, PairEnd DEF Off, On, Present, Known
<1>4. CASE ApplyUpdate(c)
  <2>1. req[c].at = "refreshed" /\ req[c].op = "update" /\ req'[c] = Idle /\ UNCHANGED <<row, orphaned>>
    BY <1>4, ApplyUpdateEffect DEF ApplyUpdate
  <2>2. Present => req[c].enabled = row.enabled /\ req[c].definition = row.definition
    BY <1>0, <2>1 DEF Holds
  <2>3. CASE job' = NoJob /\ (req[c].enabled => refused')
    BY <2>1, <2>2, <2>3, PairEnd, IdleTypes DEF Off, On, Present, Known
  <2>4. CASE Known /\ req[c].enabled /\ job' = Registered(req[c].definition)
    <3>0. req[c].definition \in Definition
      BY <1>4, ApplyUpdateEffect
    <3>1. Off' /\ On' /\ (Present' => job'.version = row'.definition.version)
      BY <1>0, <2>1, <2>2, <2>4, <3>0, RegisteredIs DEF Off, On, Present
    <3> QED BY <2>1, <3>1, PairEnd
  <2> QED BY <1>4, <2>3, <2>4, ApplyUpdateEffect
<1>5. CASE ApplyPause(c)
  <2>1. req[c].at = "committed" /\ req[c].op = "pause" /\ req'[c] = Idle /\ UNCHANGED <<row, orphaned>>
    BY <1>5, ApplyPauseEffect DEF ApplyPause
  <2>2. (Present => ~row.enabled) /\ (Present /\ Known => job.version = row.definition.version)
    BY <1>0, <2>1 DEF Holds, PairOf
  <2>3. job'.state # "active" /\ Known' = Known /\ job'.version = job.version
    BY <1>5, ApplyPauseEffect DEF Known
  <2> QED BY <1>0, <2>1, <2>2, <2>3, PairEnd DEF Off, On, Present
<1>6. CASE ApplyResume(c)
  <2>1. /\ req[c].at = "committed" /\ req[c].op = "resume" /\ req'[c] = Idle /\ refused' = ~Known
        /\ UNCHANGED <<row, orphaned>>
    BY <1>6, ApplyResumeEffect DEF ApplyResume
  <2>2. (Present => row.enabled) /\ (Present /\ Known => job.version = row.definition.version)
    BY <1>0, <2>1 DEF Holds, PairOf
  <2>3. CASE Known
    <3>1. job' = IF job.version \in over THEN NoJob ELSE [state |-> "active", version |-> job.version]
      BY <1>6, <2>3, ApplyResumeEffect
    <3>2. Off' /\ On' /\ (Present' /\ Known' => job'.version = row'.definition.version)
      BY <1>0, <2>1, <2>2, <2>3, <3>1, IdleTypes DEF Off, On, Present, Known
    <3> QED BY <2>1, <3>2, PairEnd
  <2>4. CASE ~Known
    <3>1. UNCHANGED job /\ refused' = TRUE
      BY <1>6, <2>1, <2>4, ApplyResumeEffect
    <3>2. Off' /\ On' /\ ~Known'
      BY <2>1, <2>2, <2>4, <3>1 DEF Off, On, Present, Known
    <3> QED BY <2>1, <3>2, PairEnd
  <2> QED BY <2>3, <2>4
<1>7. CASE RemoveJob(c)
  <2>1. req'[c].op = "delete" /\ req'[c].at = "removed" /\ job' = NoJob
    BY <1>7, RemoveJobEffect
  <2>2. Holds(c)' /\ ~Known'
    BY <2>1, IdleTypes DEF Holds, Creating, Known
  <2> QED BY <2>1, <2>2 DEF PairOf
<1>8. CASE DeleteRow(c)
  <2>1. req[c].at = "removed" /\ req'[c] = Idle /\ row'.state = "gone" /\ UNCHANGED job
    BY <1>8, DeleteRowEffect DEF DeleteRow
  <2>2. job' = NoJob
    BY <1>0, <2>1 DEF Holds
  <2> QED BY <2>1, <2>2, PairEnd, IdleTypes DEF Off, On, Present, Known
<1> QED BY <1>1, <1>2, <1>3, <1>4, <1>5, <1>6, <1>7, <1>8

LEMMA PairRequest ==
    ASSUME TypeInv, PairInv, NEW c \in Clients, ClientStep(c)
    PROVE  PairInv'
<1> SUFFICES ASSUME ~disturbed' PROVE PairInv'
  BY DEF PairInv
<1>0. Sets(c) /\ UNCHANGED <<kind, over>>
  BY RequestTypes, RequestFrame DEF TypesKept
<1>1. ASSUME \/ \E enabled, valid \in BOOLEAN : Create(c, enabled, valid)
             \/ \E op \in Ops : Read(c, op)
      PROVE  PairInv'
  <2>1. ~disturbed /\ \A d \in Clients : d # c => req[d] = Idle
    <3>1. Begins(c)
      BY <1>1 DEF Create, Read
    <3> QED BY <3>1, BeginsEffect
  <2>2. PairOf(c)'
    BY <1>1, <2>1, PairNow, PairBegins
  <2> QED BY <1>0, <2>1, <2>2, PairNext DEF Sets
<1>2. ASSUME UNCHANGED disturbed, req[c] # Idle,
             ~disturbed /\ PairOf(c) => PairOf(c)'
      PROVE  PairInv'
  <2>1. ~disturbed /\ \A d \in Clients : d # c => req[d] = Idle
    BY <1>2 DEF PairInv, Busy
  <2>2. PairOf(c)'
    BY <1>2, <2>1, PairNow
  <2> QED BY <1>0, <2>1, <2>2, PairNext DEF Sets
<1>3. ASSUME NEW e \in BOOLEAN, Committed(c, e), req[c].op \in {"update", "pause", "resume"},
             req[c].at = "read", UNCHANGED <<job, readds, disturbed, orphaned>>,
             req[c].op = "pause" => ~e, req[c].op = "resume" => e
      PROVE  PairInv'
  <2>1. ASSUME PairOf(c), Present
        PROVE  row'.enabled = e
    <3>1. req[c].enabled = row.enabled /\ row \in Row
      BY <1>3, <2>1, TypesNow DEF PairOf, Holds, TypeInv
    <3> QED BY <1>3, <2>1, <3>1, CommittedEffect DEF Row
  <2>2. /\ row' \in Row /\ row'.state = row.state /\ row'.definition = row.definition
        /\ \/ Present /\ req'[c].op = req[c].op /\ req'[c].at = "committed"
           \/ ~Present /\ req'[c] = Idle /\ refused' = TRUE /\ UNCHANGED row
    BY <1>3, CommittedEffect
  <2>3. ~disturbed /\ PairOf(c) => PairOf(c)'
    BY <1>0, <1>3, <2>1, <2>2, PairCommits
  <2> QED BY <1>2, <1>3, <2>3, IdleTypes
<1>4. ASSUME NEW valid \in BOOLEAN, CommitDefinition(c, valid) PROVE PairInv'
  <2>1. req[c].op = "update" /\ req[c].at = "read" /\ UNCHANGED <<job, readds, disturbed, orphaned>>
    BY <1>4 DEF CommitDefinition
  <2>2. /\ row' \in Row /\ row'.state = row.state
        /\ \/ Present /\ req'[c].op = req[c].op /\ req'[c].at = "committed"
           \/ ~Present /\ req'[c] = Idle /\ refused' = TRUE /\ UNCHANGED row
    BY <1>4, DefinitionEffect
  <2>3. ~disturbed /\ PairOf(c) => PairOf(c)'
    BY <1>0, <2>1, <2>2, PairCommits
  <2> QED BY <1>2, <2>1, <2>3, IdleTypes
<1>5. ASSUME \/ Refresh(c) \/ (\E written \in BOOLEAN : AddCreated(c, written)) \/ UndoCreate(c)
             \/ ApplyUpdate(c) \/ ApplyPause(c) \/ ApplyResume(c) \/ RemoveJob(c) \/ DeleteRow(c)
      PROVE  PairInv'
  <2>1. UNCHANGED disturbed /\ req[c].op # "none"
    BY <1>5 DEF Refresh, AddCreated, UndoCreate, ApplyUpdate, ApplyPause, ApplyResume, RemoveJob, DeleteRow
  <2>2. ~disturbed /\ PairOf(c) => PairOf(c)'
    BY <1>0, <1>5, PairApplies
  <2> QED BY <1>2, <2>1, <2>2, IdleTypes
<1>6. CommitPause(c) \/ CommitResume(c) \/ (\E e \in BOOLEAN : CommitEnabled(c, e)) => PairInv'
  BY <1>3 DEF CommitPause, CommitResume, CommitEnabled
<1> QED BY <1>1, <1>4, <1>5, <1>6 DEF ClientStep

LEMMA PairStep ==
    ASSUME TypeInv, PairInv, [Next]_vars
    PROVE  PairInv'
<1>0. Fresh /\ job \in Job /\ kind \in {"recurring", "date"}
  BY TypesNow DEF TypeInv
<1>1. ASSUME UNCHANGED <<row, req, orphaned, refused, disturbed, kind, over>>, job' \in {job, Handled}
      PROVE  PairInv'
  <2>1. CASE job' = job
    BY <1>1, <2>1 DEF PairInv, Busy, Off, On, Present, Known, Holds, Creating
  <2>2. CASE job' # job
    <3>1. /\ job' = NoJob /\ ~Known' /\ job'.state # "active"
          /\ kind # "recurring" \/ job.version \in over
      BY <1>0, <1>1, <2>2, IdleTypes DEF Handled, Known
    <3>2. \A c \in Clients : (Busy(c)' <=> Busy(c)) /\ (Holds(c) => Holds(c)')
      BY <1>1, <3>1 DEF Busy, Holds, Creating, Present
    <3>3. Off' /\ (On => On')
      BY <1>1, <3>1 DEF Off, On, Present
    <3> QED BY <1>1, <3>1, <3>2, <3>3 DEF PairInv
  <2> QED BY <2>1, <2>2
<1>2. ASSUME NEW s \in Slots, Fire(s) \/ Trigger(s) \/ CallStep(s) PROVE PairInv'
  <2>1. UNCHANGED <<row, req, orphaned, refused, disturbed, kind, over>> /\ job' \in {job, Handled}
    BY <1>2 DEF Fire, Trigger, CallStep, InsertExecution, RecordRun, LoseRecord, RecordFailure, callFrame
  <2> QED BY <1>1, <2>1
<1>3. CASE Miss
  BY <1>1, <1>3, MissEffect
<1>4. CASE DeleteRunbook
  <2>1. /\ UNCHANGED <<req, job, disturbed, refused, kind>> /\ row'.enabled = row.enabled
        /\ row'.state # "present" /\ (orphaned => orphaned')
        /\ row'.state = "gone" => row.state = "gone" \/ orphaned'
    BY <1>4, DeleteRunbookEffect DEF Present
  <2>2. ~Present' /\ Known' = Known
    BY <2>1 DEF Present, Known
  <2>3. \A c \in Clients : (Busy(c)' <=> Busy(c)) /\ (Holds(c) => Holds(c)')
    BY <2>1, <2>2 DEF Busy, Holds, Creating
  <2>4. ~disturbed => (row'.state = "gone" => ~Known' \/ orphaned')
    BY <2>1, <2>2 DEF PairInv
  <2>5. ~disturbed => Off' /\ On'
    BY <2>2, <2>4 DEF Off, On
  <2> QED BY <2>1, <2>2, <2>3, <2>4, <2>5 DEF PairInv
<1>5. CASE Crash
  <2>1. SUFFICES ASSUME ~disturbed' PROVE PairInv'
    BY DEF PairInv
  <2>2. /\ ~disturbed /\ \A c \in Clients : req[c] = Idle /\ req'[c] = Idle
        /\ UNCHANGED <<row, job, orphaned, refused, kind, over>>
    BY <1>5, <2>1, CrashEffect
  <2>3. Off /\ On /\ (Present /\ Known => job.version = row.definition.version)
    BY <2>2, IdleTypes DEF PairInv
  <2>4. Off' /\ On' /\ (Present' /\ Known' => job'.version = row'.definition.version)
    BY <2>2, <2>3 DEF Off, On, Present, Known
  <2>5. \A c \in Clients : Holds(c)' /\ ~Busy(c)'
    BY <2>2, IdleTypes DEF Holds, Creating, Busy
  <2> QED BY <2>4, <2>5 DEF PairInv, Off
<1>6. CASE Load
  <2>1. SUFFICES ASSUME ~disturbed PROVE PairInv'
    BY <1>6, LoadEffect DEF PairInv
  <2>2. /\ \A c \in Clients : req[c] = Idle /\ req'[c] = Idle
        /\ UNCHANGED <<row, orphaned, kind, over>>
    BY <1>0, <1>6, LoadEffect DEF Fresh, TypeInv, Shape
  <2>3. Off /\ On /\ (Present /\ Known => job.version = row.definition.version)
    BY <2>1, <2>2, IdleTypes DEF PairInv
  <2>4. Off' /\ On' /\ (Present' /\ Known' => job'.version = row'.definition.version)
    <3>1. CASE UNCHANGED <<job, refused>>
      BY <2>2, <2>3, <3>1 DEF Off, On, Present, Known
    <3>2. CASE /\ Present /\ row.enabled
               /\ job' = Registered(row.definition)
      <4>1. row.definition \in Definition
        BY TypesNow DEF TypeInv, Row
      <4> QED BY <2>2, <3>2, <4>1, RegisteredIs DEF Off, On, Present, Known
    <3> QED BY <1>6, <3>1, <3>2, LoadEffect
  <2>5. \A c \in Clients : Holds(c)' /\ ~Busy(c)'
    BY <2>2, IdleTypes DEF Holds, Creating, Busy
  <2> QED BY <2>4, <2>5 DEF PairInv, Off
<1>7. CASE UNCHANGED vars
  BY <1>1, <1>7 DEF vars, storeVars, causeVars
<1>8. ASSUME NEW version \in 0 .. EditBound, TriggerEnds(version) PROVE PairInv'
  <2>1. UNCHANGED <<row, req, orphaned, refused, disturbed, kind, job>> /\ over \subseteq over'
    BY <1>8, EndEffect
  <2>2. \A c \in Clients : (Busy(c)' <=> Busy(c)) /\ (Holds(c) => Holds(c)')
    BY <2>1 DEF Busy, Holds, Creating, Present
  <2>3. (Off => Off') /\ (On => On')
    BY <2>1 DEF Off, On, Present, Known
  <2> QED BY <2>1, <2>2, <2>3 DEF PairInv, Present, Known
<1> QED BY <1>2, <1>3, <1>4, <1>5, <1>6, <1>7, <1>8, PairRequest DEF Next

LEMMA PairHolds == Spec => []PairInv
<1>1. Init => PairInv
  BY IdleTypes DEF Init, PairInv, Off, On, Holds, Present, Known, Busy, Creating
<1>2. TypeInv /\ PairInv /\ [Next]_vars => PairInv'
  BY PairStep
<1> QED BY <1>1, <1>2, TypeHolds, PTL DEF Spec

\* With no request in flight, nothing fires that the table says is off, unless requests
\* overlapped, a crash cut one off, or the row went without its handler.
THEOREM OffIsQuiet == Spec => []OffStaysQuiet
<1>1. TypeInv /\ PairInv => OffStaysQuiet
  BY IdleTypes DEF PairInv, OffStaysQuiet, Off, Quiet, Busy
<1> QED BY <1>1, TypeHolds, PairHolds, PTL

\* With no request in flight, an enabled recurring schedule whose trigger has not come to
\* its end is the job APScheduler has, with the definition of the table, under the same
\* reservations.
THEOREM OnIsKept == Spec => []OnIsScheduled
<1>1. TypeInv /\ PairInv => OnIsScheduled
  BY IdleTypes DEF PairInv, OnIsScheduled, On, Quiet, Busy
<1> QED BY <1>1, TypeHolds, PairHolds, PTL

=============================================================================
