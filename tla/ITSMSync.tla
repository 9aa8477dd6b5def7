------------------------------- MODULE ITSMSync -------------------------------
(***************************************************************************)
(* Changes of external ITSM systems, the integrations that fetch them      *)
(* window by window, and the change_events rows they become.  Three things *)
(* bring a change in: the job of itsm_sync_worker.py, which goes through   *)
(* the enabled integrations, the manual sync of routers/itsm.py, and the   *)
(* webhook of routers/changes.py.  Each runs on the event loop without an  *)
(* await, so that they never overlap; what does go on meanwhile is the     *)
(* external system, and a crash may come between any two commits.          *)
(*                                                                         *)
(* Every step of the clock is either a change that happens or time that    *)
(* passes, so that no two changes have the same time.                      *)
(***************************************************************************)
EXTENDS Integers, FiniteSets, FiniteSetsExt

CONSTANTS
    Changes,        \* changes of the external systems
    Integrations,   \* integrations
    Origins,        \* ways the changes may fall to the systems of the integrations
    Filtered,       \* integrations with a time_filter_param
    Day,            \* 24 hours: the first window, and the age of an analysis
    TimeBound,      \* bound: the last moment
    CrashBound,     \* bound: crashes
    OddBound        \* bound: changes whose record is not good

ASSUME IntegrationsAssumption ==
    /\ Integrations \subseteq Nat /\ IsFiniteSet(Integrations) /\ Integrations # {}
    /\ Filtered \subseteq Integrations
ASSUME OriginsAssumption == Origins \subseteq [Changes -> Integrations]
ASSUME BoundsAssumption == {Day, TimeBound, CrashBound, OddBound} \subseteq Nat

Never == -1

VARIABLES
    now,
    origin,         \* external: the integration whose system each change belongs to
    change,         \* external: when each change happened, and what its record is like
    row,            \* the row of each change
    integration,    \* the row of each integration
    sync,           \* what is being brought in
    crashes,        \* history
    lost,           \* history: changes whose window was closed without them
    left            \* history: rows whose analysis failed, was cut off or not asked for

vars == <<origin, now, change, row, integration, sync, crashes, lost, left>>

\* The record a change is fetched as is "dated" when it holds a datetime, as a timestamp
\* that is transformed, and "nested" when its change_id is an object; it is "bad" when
\* the database refuses it: a text too long, a change_id that is a number.
Kinds == {"good", "dated", "nested", "bad"}

Change == [at : Never .. TimeBound, kind : Kinds]

NoRow == [source |-> "none", analysed |-> FALSE]

Row == [source : {"none", "integration", "webhook"}, analysed : BOOLEAN]

Integration == [state : {"enabled", "disabled", "deleted"}, last_sync : Never .. TimeBound]

Gone == [state |-> "deleted", last_sync |-> Never]

Idle == [by |-> "none", at |-> "idle", todo |-> {}, of |-> Min(Integrations), start |-> Never,
         end |-> Never, batch |-> {}, missed |-> {}, fresh |-> {}]

Sync == [by : {"none", "worker", "manual", "webhook"},
         at : {"idle", "next", "begun", "fetched", "stored", "marked"},
         todo : SUBSET Integrations, of : Integrations, start : Int, end : Never .. TimeBound,
         batch : SUBSET Changes, missed : SUBSET Changes, fresh : SUBSET Changes]

TypeOK ==
    /\ origin \in [Changes -> Integrations]
    /\ now \in 0 .. TimeBound
    /\ change \in [Changes -> Change]
    /\ row \in [Changes -> Row]
    /\ integration \in [Integrations -> Integration]
    /\ sync \in Sync
    /\ crashes \in 0 .. CrashBound
    /\ lost \subseteq Changes /\ left \subseteq Changes
    /\ \A c \in Changes : row[c].source # "none" =>
                         change[c].at # Never /\ change[c].kind \in {"good", "dated"}
    /\ \A c \in sync.fresh : row[c].source # "none"

Init ==
    /\ origin \in Origins
    /\ now = 0
    /\ change = [c \in Changes |-> [at |-> Never, kind |-> "good"]]
    /\ row = [c \in Changes |-> NoRow]
    /\ integration = [i \in Integrations |-> [state |-> "enabled", last_sync |-> Never]]
    /\ sync = Idle
    /\ crashes = 0
    /\ lost = {} /\ left = {}

---------------------------------------------------------------------------

Happened(c) == change[c].at # Never
Stored(c) == row[c].source # "none"
Unstored(changes) == {c \in changes : ~Stored(c)}
Sound(c) == change[c].kind \in {"good", "dated"}
Enabled(i) == integration[i].state = "enabled"
Of(i) == {c \in Changes : origin[c] = i}

\* What fetch_changes asks for; without time_filter_param, everything.
Asked(i, since) == {c \in Of(i) : /\ Happened(c)
                                  /\ i \in Filtered => change[c].at >= since}

\* The next integration of a pass, or its end.
GoOn(todo) == IF todo = {} THEN Idle
              ELSE [Idle EXCEPT !.by = "worker", !.at = "next", !.todo = todo]

---------------------------------------------------------------------------
(* The job                                                                 *)

StartPass ==
    /\ sync.at = "idle"
    /\ \E i \in Integrations : Enabled(i)
    /\ sync' = GoOn({i \in Integrations : Enabled(i)})
    /\ UNCHANGED <<origin, now, change, row, integration, crashes, lost, left>>

\* The integrations come in any order.  The window ends before the fetch, so that what
\* happens during it is in the next one.  The first window is a day, and what is older
\* is not asked for.
Begin ==
    /\ sync.at = "next"
    /\ \E i \in sync.todo :
       LET first == integration[i].last_sync = Never
           start == IF first THEN now - Day ELSE integration[i].last_sync
       IN  sync' = [Idle EXCEPT !.by = "worker", !.at = "begun", !.todo = sync.todo \ {i},
                                !.of = i, !.start = start, !.end = now,
                                !.missed = IF first THEN Unstored({c \in Of(i) : Happened(c)} \ Asked(i, start))
                                           ELSE {}]
    /\ UNCHANGED <<origin, now, change, row, integration, crashes, lost, left>>

\* fetch_changes ends quietly at a page that fails and at max_pages: what it has by then
\* is the result.
Fetch ==
    /\ sync.at = "begun"
    /\ \E records \in SUBSET Asked(sync.of, sync.start) :
          sync' = [sync EXCEPT !.at = "fetched", !.batch = records,
                               !.missed = @ \cup Unstored(Asked(sync.of, sync.start) \ records)]
    /\ UNCHANGED <<origin, now, change, row, integration, crashes, lost, left>>

Kind(k) == {c \in sync.batch : change[c].kind = k}

\* Mutant: stores records without looking at them.
NewOfAnyKind == {c \in sync.batch : ~Stored(c)}

\* What the job can store, which keeps the record as JSON, and what the manual sync can.
New == {c \in Kind("good") : ~Stored(c)}
NewByHand == {c \in Kind("good") \cup Kind("dated") : ~Stored(c)}

\* The database refuses c, or the job cannot write its record.  What is already stored
\* the job leaves alone.
Refused(c) == change[c].kind = "bad" \/ (change[c].kind = "dated" /\ ~Stored(c))

\* The rows that are added, and what is lost with the window, if it is closed.
StoreRows(changes, without) ==
    /\ row' = [c \in Changes |-> IF c \in changes THEN [source |-> "integration", analysed |-> FALSE]
                                 ELSE row[c]]
    /\ lost' = (lost \cup without) \ changes

\* Mutant: the pass ends with the integration that failed.
FailAll(added) ==
    /\ StoreRows(added, sync.missed \cup Unstored(Asked(sync.of, sync.start)))
    /\ integration' = [integration EXCEPT ![sync.of].last_sync = now]
    /\ left' = left \cup added
    /\ sync' = Idle
    /\ UNCHANGED <<origin, now, change, crashes>>

\* The handler of the job: the window is closed as failed, and what had been added by
\* then is committed with it.
Fail(added) ==
    /\ StoreRows(added, sync.missed \cup Unstored(Asked(sync.of, sync.start)))
    /\ integration' = [integration EXCEPT ![sync.of].last_sync = now]
    /\ left' = left \cup added
    /\ sync' = GoOn(sync.todo)
    /\ UNCHANGED <<origin, now, change, crashes>>

\* The configuration cannot be decrypted or used.
Misconfigured ==
    /\ sync.at = "begun"
    /\ Fail({})

\* An object cannot be looked up as a change_id: the query raises before it is sent,
\* after some of the others were added.
TripOver ==
    /\ sync.by = "worker" /\ sync.at = "fetched" /\ Kind("nested") # {}
    /\ \E added \in SUBSET New : Fail(added)

\* A record that is refused: the session has to be rolled back before it can be used,
\* which the handler does not do, so that it fails too and the pass is over.
BreakOff ==
    /\ sync.by = "worker" /\ sync.at = "fetched"
    /\ \E c \in sync.batch : Refused(c)
    /\ sync' = Idle
    /\ UNCHANGED <<origin, now, change, row, integration, crashes, lost, left>>

Store ==
    /\ sync.by = "worker" /\ sync.at = "fetched" /\ Kind("nested") = {}
    /\ \A c \in sync.batch : ~Refused(c)
    /\ StoreRows(New, {})
    /\ sync' = [sync EXCEPT !.at = "stored", !.fresh = New, !.start = Never, !.batch = {}]
    /\ UNCHANGED <<origin, now, change, integration, crashes, left>>

\* Mutant: the one error that is caught ends the analysis of the others.
AnalysisFailsForAll(c) ==
    /\ c \in sync.fresh
    /\ sync.by = "manual" => sync.at = "marked"
    /\ left' = left \cup {c}
    /\ sync' = [sync EXCEPT !.fresh = {}]
    /\ UNCHANGED <<origin, now, change, row, integration, crashes, lost>>

\* It raises, which its callers log: the others go on, and so does the window.
AnalysisFails(c) ==
    /\ c \in sync.fresh
    /\ sync.by = "manual" => sync.at = "marked"
    /\ left' = left \cup {c}
    /\ sync' = [sync EXCEPT !.fresh = @ \ {c}]
    /\ UNCHANGED <<origin, now, change, row, integration, crashes, lost>>

\* analyze_change_impact, which commits one change.
Analyse(c) ==
    /\ c \in sync.fresh
    /\ sync.by = "manual" => sync.at = "marked"
    /\ row' = [row EXCEPT ![c].analysed = TRUE]
    /\ sync' = [sync EXCEPT !.fresh = @ \ {c}]
    /\ left' = left \ {c}
    /\ UNCHANGED <<origin, now, change, integration, crashes, lost>>

\* Mutant: closes the window at the present moment, as the manual sync does.
MarkNow ==
    /\ sync.by = "worker" /\ sync.at = "stored" /\ sync.fresh = {}
    /\ integration' = [integration EXCEPT ![sync.of].last_sync = now]
    /\ lost' = lost \cup sync.missed
    /\ sync' = GoOn(sync.todo)
    /\ UNCHANGED <<origin, now, change, row, crashes, left>>

Mark ==
    /\ sync.by = "worker" /\ sync.at = "stored" /\ sync.fresh = {}
    /\ integration' = [integration EXCEPT ![sync.of].last_sync = sync.end]
    /\ lost' = lost \cup sync.missed
    /\ sync' = GoOn(sync.todo)
    /\ UNCHANGED <<origin, now, change, row, crashes, left>>

---------------------------------------------------------------------------
(* The manual sync                                                         *)

FetchByHand(i) ==
    /\ sync.at = "idle" /\ Enabled(i)
    /\ \E records \in SUBSET Asked(i, integration[i].last_sync) :
          sync' = [Idle EXCEPT !.by = "manual", !.at = "fetched", !.of = i, !.end = now,
                               !.batch = records,
                               !.missed = Unstored(Asked(i, integration[i].last_sync) \ records)]
    /\ UNCHANGED <<origin, now, change, row, integration, crashes, lost, left>>

\* One commit.  A nested record is an error of its own; one the database refuses takes
\* the others with it.
StoreByHand ==
    /\ sync.by = "manual" /\ sync.at = "fetched"
    /\ LET added == IF Kind("bad") = {} THEN NewByHand ELSE {}
       IN  /\ StoreRows(added, {})
           /\ sync' = [sync EXCEPT !.at = "stored", !.fresh = added, !.batch = {},
                                   !.missed = @ \cup (NewByHand \ added)]
    /\ UNCHANGED <<origin, now, change, integration, crashes, left>>

Unprocessed == {c \in Changes : Stored(c) /\ ~row[c].analysed /\ change[c].at >= now - Day}

\* The window is closed at the present moment, past what happened since the fetch.  Of
\* the rows without analysis those of the last day are analysed.
MarkByHand ==
    /\ sync.by = "manual" /\ sync.at = "stored"
    /\ integration' = [integration EXCEPT ![sync.of].last_sync = now]
    /\ lost' = lost \cup sync.missed \cup Unstored({c \in Of(sync.of) : change[c].at > sync.end})
    /\ left' = left \cup (sync.fresh \ Unprocessed)
    /\ sync' = [sync EXCEPT !.at = "marked", !.fresh = Unprocessed,
                               !.end = Never, !.missed = {}]
    /\ UNCHANGED <<origin, now, change, row, crashes>>

---------------------------------------------------------------------------
(* The webhook, the other handlers, the system outside                     *)

\* A change that is not there yet is stored, and analysed.
Push(c) ==
    /\ sync.at = "idle"
    /\ Happened(c) /\ Sound(c) /\ ~Stored(c)
    /\ row' = [row EXCEPT ![c].source = "webhook"]
    /\ lost' = lost \ {c}
    /\ sync' = [Idle EXCEPT !.by = "webhook", !.at = "stored", !.fresh = {c}]
    /\ UNCHANGED <<origin, now, change, integration, crashes, left>>

\* The webhook and the manual sync return when there is nothing left to analyse.
Return ==
    /\ sync.fresh = {}
    /\ sync.by = "webhook" \/ sync.at = "marked"
    /\ sync' = Idle
    /\ UNCHANGED <<origin, now, change, row, integration, crashes, lost, left>>

\* POST changes/{change_id}/analyze.
AnalyseByHand(c) ==
    /\ sync.at = "idle" /\ Stored(c) /\ ~row[c].analysed
    /\ row' = [row EXCEPT ![c].analysed = TRUE]
    /\ left' = left \ {c}
    /\ UNCHANGED <<origin, now, change, integration, sync, crashes, lost>>

\* PUT: is_enabled.
Switch(i) ==
    /\ sync.at = "idle"
    /\ \/ Enabled(i) /\ integration' = [integration EXCEPT ![i].state = "disabled"]
       \/ integration[i].state = "disabled" /\ integration' = [integration EXCEPT ![i].state = "enabled"]
    /\ UNCHANGED <<origin, now, change, row, sync, crashes, lost, left>>

\* DELETE: the rows the integration brought in go with it.
Delete(i) ==
    /\ sync.at = "idle" /\ integration[i].state # "deleted"
    /\ integration' = [integration EXCEPT ![i] = Gone]
    /\ row' = [c \in Changes |-> IF c \in Of(i) /\ row[c].source = "integration" THEN NoRow ELSE row[c]]
    /\ lost' = lost \ Of(i)
    /\ left' = {c \in left : row'[c] = row[c]}
    /\ UNCHANGED <<origin, now, change, sync, crashes>>

Happen(c, kind) ==
    /\ ~Happened(c)
    /\ kind = "good" \/ Cardinality({d \in Changes : change[d].kind # "good"}) < OddBound
    /\ now < TimeBound
    /\ now' = now + 1
    /\ change' = [change EXCEPT ![c] = [at |-> now + 1, kind |-> kind]]
    /\ UNCHANGED <<origin, row, integration, sync, crashes, lost, left>>

Tick ==
    /\ now < TimeBound
    /\ now' = now + 1
    /\ UNCHANGED <<origin, change, row, integration, sync, crashes, lost, left>>

\* What was committed stays.  Nobody comes back to the rows that were to be analysed.
Crash ==
    /\ sync # Idle /\ crashes < CrashBound
    /\ crashes' = crashes + 1
    /\ left' = left \cup sync.fresh
    /\ sync' = Idle
    /\ UNCHANGED <<origin, now, change, row, integration, lost>>

SyncStep ==
    \/ Begin \/ Fetch \/ Misconfigured \/ TripOver \/ BreakOff \/ Store \/ Mark
    \/ StoreByHand \/ MarkByHand \/ Return
    \/ \E c \in Changes : Analyse(c) \/ AnalysisFails(c)

Next ==
    \/ StartPass \/ SyncStep
    \/ \E i \in Integrations : FetchByHand(i) \/ Switch(i) \/ Delete(i)
    \/ \E c \in Changes : Push(c) \/ AnalyseByHand(c)
    \/ \E c \in Changes, kind \in Kinds : Happen(c, kind)
    \/ Tick \/ Crash

\* The scheduler fires the job every 15 minutes, and what is begun goes on; StartPass is
\* disabled whenever a request is served, so that it needs strong fairness.
Spec == Init /\ [][Next]_vars /\ SF_vars(StartPass) /\ WF_vars(SyncStep)

---------------------------------------------------------------------------
(* Properties                                                              *)

\* A change behind the mark of its integration is stored, wherever the crashes fell and
\* whatever happened during a fetch.  What excuses it is known: it was older than the
\* first window, a fetch ended early, its window failed (itsm_sync_worker.py:56-61), it
\* shared a manual commit with a bad record, or it happened between the fetch and the
\* mark of a manual sync (itsm.py:263).
BehindTheMark ==
    \A c \in Changes :
        Happened(c) /\ Sound(c) /\ change[c].at <= integration[origin[c]].last_sync
            => Stored(c) \/ c \in lost

\* A change that is stored is analysed, or about to be.  Otherwise its analysis failed,
\* which is logged and never tried again (itsm_sync_worker.py:144), a crash fell between
\* the two commits, its window failed after it was added, or it was more than a day old
\* when a manual sync brought it in.
StoredIsAnalysed ==
    \A c \in Changes : Stored(c) /\ ~row[c].analysed => c \in sync.fresh \cup left

\* An enabled integration, of the change or any other, is asked for a record on which
\* the pass breaks off.
Blocked == \E b \in Changes : LET of == origin[b]
                              IN  /\ Refused(b) /\ Enabled(of)
                                  /\ b \in Asked(of, integration[of].last_sync)

\* A change that happened is stored in the end, or lost in one of the ways above, as
\* long as its integration is enabled, unless passes go on being broken off: a record
\* that is refused stops whatever comes after its integration in a pass, and nothing
\* says which those are.
ComesInUnlessBlocked ==
    \A c \in Changes :
        <>[]~Blocked =>
            ((Happened(c) /\ change[c].kind = "good")
                ~> (Stored(c) \/ c \in lost \/ ~Enabled(origin[c])))

=============================================================================
