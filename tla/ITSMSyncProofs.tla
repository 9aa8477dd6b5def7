--------------------------- MODULE ITSMSyncProofs ---------------------------
(***************************************************************************)
(* Theorems about ITSMSync, for any changes, integrations, windows and     *)
(* crashes: types, the analysis of what is stored, and that no change is   *)
(* left behind the mark of its integration unnoticed.                      *)
(***************************************************************************)
EXTENDS ITSMSync, WellFoundedInduction, TLAPS

\* Who is in which phase, and that rows wait for their analysis only after they
\* were stored.
PhaseOK ==
    /\ sync.at \in {"idle", "next", "begun", "fetched"} => sync.fresh = {}
    /\ sync.at = "next" => sync.todo # {}
    /\ sync.at = "begun" => sync.by = "worker"
    /\ sync.at = "fetched" => sync.by \in {"worker", "manual"}
    /\ \A c \in sync.batch : Happened(c)

\* Nothing is dated after the present moment.
ClockOK ==
    /\ \A c \in Changes : change[c].at <= now
    /\ \A i \in Integrations : integration[i].last_sync <= now
    /\ sync.start <= now /\ sync.end <= now

TypeInv == TypeOK /\ PhaseOK /\ ClockOK

AnalysisInv == TypeInv /\ StoredIsAnalysed

\* The changes the window being brought in is about.
Wanted(c) ==
    origin[c] = sync.of /\ Happened(c) /\ Sound(c)

\* Either brought in, or known to be lost when the window is closed.
Accounted(c) == Stored(c) \/ c \in lost \cup sync.missed

\* What is known of the changes of an open window as it goes through its phases: before
\* the records are added what is not accounted for is asked for, after the fetch what
\* happened before its end is among the records, and after the commit it is stored.
WindowInv ==
    /\ sync.by = "worker" /\ sync.at \in {"begun", "fetched"} =>
         \A c \in Changes : Wanted(c) => Accounted(c) \/ c \in Asked(sync.of, sync.start)
    /\ sync.at = "fetched" =>
         \A c \in Changes : Wanted(c) /\ change[c].at <= sync.end => Accounted(c) \/ c \in sync.batch
    /\ sync.by \in {"worker", "manual"} /\ sync.at = "stored" =>
         \A c \in Changes : Wanted(c) /\ change[c].at <= sync.end => Accounted(c)

MarkInv == TypeInv /\ BehindTheMark /\ WindowInv

---------------------------------------------------------------------------
(* The helpers                                                             *)

\* The smallest number of a set.
LEMMA MinIsMember ==
    ASSUME NEW S \in SUBSET Nat, S # {}
    PROVE  Min(S) \in S
<1> DEFINE R == {p \in Nat \X Nat : p[1] < p[2]}
<1>1. IsWellFoundedOn(R, Nat)
  BY NatLessThanWellFounded DEF OpToRel
<1>2. PICK x \in S : \A y \in S : <<y, x>> \notin R
  <2> HIDE DEF R
  <2> QED BY <1>1, WFMin
<1>3. ASSUME NEW y \in S
      PROVE  x <= y
  <2>1. <<y, x>> \notin R
    BY <1>2
  <2> QED BY <2>1, SMT
<1> QED BY <1>3 DEF Min

LEMMA Numbers == Day \in Nat /\ TimeBound \in Nat /\ CrashBound \in Nat
BY BoundsAssumption

LEMMA FirstIntegration == Min(Integrations) \in Integrations
BY MinIsMember, IntegrationsAssumption

LEMMA IdleType == Idle \in Sync /\ Idle.fresh = {} /\ Idle.at = "idle"
BY FirstIntegration, Numbers DEF Idle, Sync, Never

\* The rest of a pass is a phase of the job.
LEMMA GoOnType ==
    ASSUME NEW todo \in SUBSET Integrations
    PROVE  /\ GoOn(todo) \in Sync
           /\ GoOn(todo).at \in {"idle", "next"} /\ GoOn(todo).fresh = {} /\ GoOn(todo).batch = {}
           /\ GoOn(todo).at = "next" => GoOn(todo).todo # {}
           /\ GoOn(todo).start = Never /\ GoOn(todo).end = Never
<1>1. CASE todo = {}
  BY <1>1, IdleType DEF GoOn, Idle
<1>2. CASE todo # {}
  <2>1. GoOn(todo) = [Idle EXCEPT !.by = "worker", !.at = "next", !.todo = todo]
    BY <1>2 DEF GoOn
  <2>2. [Idle EXCEPT !.by = "worker", !.at = "next", !.todo = todo] \in Sync
    BY IdleType DEF Sync
  <2>3. /\ GoOn(todo).at = "next" /\ GoOn(todo).fresh = {} /\ GoOn(todo).batch = {} /\ GoOn(todo).todo = todo
        /\ GoOn(todo).start = Never /\ GoOn(todo).end = Never
    BY <2>1 DEF Idle
  <2> QED BY <1>2, <2>1, <2>2, <2>3
<1> QED BY <1>1, <1>2

---------------------------------------------------------------------------
(* Type correctness                                                        *)

LEMMA InitTyped == Init => TypeInv
<1> SUFFICES ASSUME Init PROVE TypeInv
  OBVIOUS
<1>1. TypeOK
  BY OriginsAssumption, Numbers, IdleType
  DEF Init, TypeOK, Change, Kinds, Row, NoRow, Integration, Idle, Never
<1>2. PhaseOK /\ ClockOK
  BY Numbers, IdleType DEF Init, PhaseOK, ClockOK, Idle, Never
<1> QED BY <1>1, <1>2 DEF TypeInv

\* Moving the mark of an integration, to a moment that was.
LEMMA MarkType ==
    ASSUME TypeInv, NEW i \in Integrations, NEW m \in Never .. TimeBound, m <= now,
           integration' = [integration EXCEPT ![i].last_sync = m]
    PROVE  /\ integration' \in [Integrations -> Integration]
           /\ \A j \in Integrations : /\ integration'[j].last_sync <= now
                                     /\ integration'[j].state = integration[j].state
<1>1. ASSUME NEW j \in Integrations
      PROVE  /\ integration'[j] \in Integration
             /\ integration'[j].last_sync <= now
             /\ integration'[j].state = integration[j].state
  <2>1. integration[j] \in Integration /\ integration[j].last_sync <= now
    BY DEF TypeInv, TypeOK, ClockOK
  <2>2. integration'[j] = IF j = i THEN [integration[j] EXCEPT !.last_sync = m] ELSE integration[j]
    BY DEF TypeInv, TypeOK
  <2> QED BY <2>1, <2>2 DEF Integration
<1>2. integration' = [j \in Integrations |-> integration'[j]]
  BY DEF TypeInv, TypeOK
<1> QED BY <1>1, <1>2

\* Only records that were looked at are stored.
LEMMA StoreType ==
    ASSUME TypeInv, NEW added \in SUBSET NewByHand, NEW without \in SUBSET Changes,
           StoreRows(added, without)
    PROVE  /\ added \subseteq Changes
           /\ row' \in [Changes -> Row]
           /\ lost' \subseteq Changes
           /\ \A c \in added : row'[c].source # "none"
           /\ \A c \in Changes : row'[c].source # "none" =>
                                 change[c].at # Never /\ change[c].kind \in {"good", "dated"}
<1>1. sync.batch \subseteq Changes
  BY DEF TypeInv, TypeOK, Sync
<1>2. added \subseteq Changes /\ \A c \in added : change[c].kind \in {"good", "dated"} /\ c \in sync.batch
  BY <1>1 DEF NewByHand, Kind
<1>3. ASSUME NEW c \in Changes
      PROVE  row'[c] \in Row /\ (c \notin added => row'[c] = row[c])
                             /\ (c \in added => row'[c].source = "integration")
  BY DEF StoreRows, TypeInv, TypeOK, Row
<1>4. \A c \in sync.batch : change[c].at # Never
  BY DEF TypeInv, PhaseOK, Happened
<1>5. row' = [c \in Changes |-> row'[c]]
  BY DEF StoreRows
<1>6. lost' \subseteq Changes
  BY DEF StoreRows, TypeInv, TypeOK
<1> QED BY <1>2, <1>3, <1>4, <1>5, <1>6 DEF TypeInv, TypeOK

\* The window that failed is closed and the pass goes on.
LEMMA FailType ==
    ASSUME TypeInv, NEW added \in SUBSET New, Fail(added)
    PROVE  TypeInv'
<1>1. sync.todo \in SUBSET Integrations /\ sync.of \in Integrations /\ now \in Never .. TimeBound /\ now <= now
  BY Numbers DEF TypeInv, TypeOK, Sync, Never
<1>2. /\ sync' \in Sync /\ sync'.fresh = {} /\ PhaseOK' /\ sync'.batch = {}
      /\ sync'.start = Never /\ sync'.end = Never
  BY <1>1, GoOnType DEF Fail, PhaseOK
<1>3. /\ integration' \in [Integrations -> Integration]
      /\ \A j \in Integrations : integration'[j].last_sync <= now
  BY <1>1, MarkType DEF Fail
<1>4. /\ left' \subseteq Changes /\ lost' \subseteq Changes
      /\ row' \in [Changes -> Row]
      /\ \A c \in Changes : row'[c].source # "none" =>
                            change[c].at # Never /\ change[c].kind \in {"good", "dated"}
  <2> DEFINE without == sync.missed \cup Unstored(Asked(sync.of, sync.start))
  <2>1. without \subseteq Changes /\ added \subseteq NewByHand
    BY DEF Unstored, Asked, Of, New, NewByHand, TypeInv, TypeOK, Sync
  <2>2. StoreRows(added, without)
    BY DEF Fail
  <2> HIDE DEF without
  <2> QED BY <2>1, <2>2, StoreType DEF Fail, TypeInv, TypeOK
<1>5. TypeOK'
  BY <1>2, <1>3, <1>4 DEF Fail, TypeInv, TypeOK
<1>6. ClockOK'
  BY <1>2, <1>3, Numbers DEF Fail, TypeInv, TypeOK, ClockOK, Never
<1> QED BY <1>2, <1>5, <1>6 DEF TypeInv

\* What a step has to keep when it leaves the clock, the changes and the integrations alone.
LEMMA SyncSuffices ==
    ASSUME TypeInv, UNCHANGED <<origin, now, change, integration>>,
           sync' \in Sync, PhaseOK', sync'.start <= now, sync'.end <= now,
           row' \in [Changes -> Row], crashes' \in 0 .. CrashBound, lost' \subseteq Changes, left' \subseteq Changes,
           \A c \in Changes : row'[c].source # "none" =>
                                change[c].at # Never /\ change[c].kind \in {"good", "dated"},
           \A c \in sync'.fresh : row'[c].source # "none"
    PROVE  TypeInv'
BY DEF TypeInv, TypeOK, ClockOK

\* A sync that has returned.
LEMMA IdleSuffices ==
    ASSUME TypeInv, UNCHANGED <<origin, now, change, integration, row>>, sync' = Idle,
           crashes' \in 0 .. CrashBound, lost' \subseteq Changes, left' \subseteq Changes
    PROVE  TypeInv'
<1>1. sync' \in Sync /\ sync'.fresh = {} /\ sync'.start <= now /\ sync'.end <= now /\ PhaseOK'
  BY IdleType, Numbers DEF Idle, TypeInv, TypeOK, PhaseOK, Never
<1> QED BY <1>1, SyncSuffices DEF TypeInv, TypeOK

\* What Begin does with the integration it takes.
BeginWith(i) ==
    LET first == integration[i].last_sync = Never
        start == IF first THEN now - Day ELSE integration[i].last_sync
    IN  sync' = [Idle EXCEPT !.by = "worker", !.at = "begun", !.todo = sync.todo \ {i},
                             !.of = i, !.start = start, !.end = now,
                             !.missed = IF first
                                        THEN Unstored({c \in Of(i) : Happened(c)} \ Asked(i, start))
                                        ELSE {}]

LEMMA BeginPicks == Begin => \E i \in sync.todo : BeginWith(i)
BY DEF Begin, BeginWith

LEMMA BeginTyped == TypeInv /\ Begin => TypeInv'
<1> SUFFICES ASSUME TypeInv, Begin PROVE TypeInv'
  OBVIOUS
<1>0. PICK i \in sync.todo : BeginWith(i)
  BY BeginPicks
<1>1. i \in Integrations /\ integration[i] \in Integration /\ integration[i].last_sync <= now
  BY DEF TypeInv, TypeOK, ClockOK, Sync
<1>2. /\ now \in 0 .. TimeBound /\ Day \in Nat
      /\ integration[i].last_sync \in Never .. TimeBound
  BY <1>1, Numbers DEF TypeInv, TypeOK, Integration
<1> DEFINE first == integration[i].last_sync = Never
           start == IF first THEN now - Day ELSE integration[i].last_sync
           missed == IF first THEN Unstored({c \in Of(i) : Happened(c)} \ Asked(i, start)) ELSE {}
<1>3. start \in Int /\ start <= now
  BY <1>1, <1>2, Numbers DEF Never
<1>4. missed \subseteq Changes
  BY DEF Of, Unstored
<1>5. sync' = [Idle EXCEPT !.by = "worker", !.at = "begun", !.todo = sync.todo \ {i},
                          !.of = i, !.start = start, !.end = now, !.missed = missed]
  BY <1>0 DEF BeginWith
<1> HIDE DEF start, missed
<1>6. sync' \in Sync
  <2>1. sync.todo \ {i} \subseteq Integrations /\ now \in Never .. TimeBound
    BY <1>2, Numbers DEF TypeInv, TypeOK, Sync, Never
  <2> QED BY <1>1, <1>3, <1>4, <1>5, <2>1, IdleType DEF Sync
<1>7. /\ sync'.at = "begun" /\ sync'.by = "worker" /\ sync'.fresh = {} /\ sync'.batch = {}
      /\ sync'.start <= now /\ sync'.end <= now
  BY <1>2, <1>3, <1>5 DEF Idle
<1> QED BY <1>6, <1>7, SyncSuffices DEF Begin, PhaseOK, TypeInv, TypeOK

LEMMA StepTyped == TypeInv /\ [Next]_vars => TypeInv'
<1> SUFFICES ASSUME TypeInv, [Next]_vars PROVE TypeInv'
  OBVIOUS
<1>1. CASE StartPass
  <2> DEFINE todo == {i \in Integrations : Enabled(i)}
  <2>1. todo \in SUBSET Integrations /\ sync' = GoOn(todo)
    BY <1>1 DEF StartPass
  <2> HIDE DEF todo
  <2>2. /\ sync' \in Sync /\ sync'.fresh = {} /\ PhaseOK'
        /\ sync'.start <= now /\ sync'.end <= now
    BY <2>1, GoOnType, Numbers DEF PhaseOK, TypeInv, TypeOK, Never
  <2> QED BY <1>1, <2>2, SyncSuffices DEF StartPass, TypeInv, TypeOK
<1>2. CASE Begin
  BY <1>2, BeginTyped
<1>3. CASE Fetch
  <2>1. PICK records \in SUBSET Asked(sync.of, sync.start) :
          sync' = [sync EXCEPT !.at = "fetched", !.batch = records,
                               !.missed = @ \cup Unstored(Asked(sync.of, sync.start) \ records)]
    BY <1>3 DEF Fetch
  <2>2. Asked(sync.of, sync.start) \subseteq {c \in Changes : Happened(c)}
    BY DEF Asked, Of
  <2>3. sync' \in Sync
    BY <2>1, <2>2 DEF Unstored, TypeInv, TypeOK, Sync
  <2>4. PhaseOK' /\ sync'.start <= now /\ sync'.end <= now /\ sync'.fresh = sync.fresh
    BY <1>3, <2>1, <2>2 DEF Fetch, TypeInv, TypeOK, PhaseOK, ClockOK, Sync, Happened
  <2> QED BY <1>3, <2>3, <2>4, SyncSuffices DEF Fetch, TypeInv, TypeOK
<1>4. CASE Misconfigured
  BY <1>4, FailType DEF Misconfigured
<1>5. CASE TripOver
  BY <1>5, FailType DEF TripOver
<1>6. CASE BreakOff
  BY <1>6, IdleSuffices DEF BreakOff, TypeInv, TypeOK
<1>7. CASE Store
  <2>1. New \subseteq Changes
    BY DEF New, Kind, TypeInv, TypeOK, Sync
  <2>2. sync' = [sync EXCEPT !.at = "stored", !.fresh = New, !.start = Never, !.batch = {}]
    BY <1>7 DEF Store
  <2>3. /\ sync' \in Sync /\ sync'.fresh = New /\ PhaseOK'
        /\ sync'.start <= now /\ sync'.end <= now
    <3>1. /\ sync \in Sync /\ sync.end <= now /\ Never \in Int /\ Never <= now
      BY Numbers DEF TypeInv, TypeOK, ClockOK, Never
    <3>2. sync' \in Sync
      BY <2>1, <2>2, <3>1 DEF Sync
    <3>3. /\ sync'.fresh = New /\ sync'.at = "stored" /\ sync'.batch = {}
          /\ sync'.start = Never /\ sync'.end = sync.end
      BY <2>2, <3>1 DEF Sync
    <3> QED BY <3>1, <3>2, <3>3 DEF PhaseOK
  <2>4. New \in SUBSET NewByHand /\ StoreRows(New, {})
    BY <1>7 DEF Store, New, NewByHand
  <2>5. /\ row' \in [Changes -> Row] /\ lost' \subseteq Changes
        /\ \A c \in New : row'[c].source # "none"
        /\ \A c \in Changes : row'[c].source # "none" =>
                              change[c].at # Never /\ change[c].kind \in {"good", "dated"}
    BY <2>4, StoreType
  <2> QED BY <1>7, <2>3, <2>5, SyncSuffices DEF Store, TypeInv, TypeOK
<1>8. CASE Mark
  <2>1. sync.todo \in SUBSET Integrations /\ sync.of \in Integrations /\ sync.end \in Never .. TimeBound /\ sync.end <= now
    BY DEF TypeInv, TypeOK, ClockOK, Sync
  <2>2. /\ sync' \in Sync /\ sync'.fresh = {} /\ PhaseOK'
        /\ sync'.start = Never /\ sync'.end = Never
    BY <1>8, <2>1, GoOnType DEF Mark, PhaseOK
  <2>3. /\ integration' \in [Integrations -> Integration]
        /\ \A j \in Integrations : integration'[j].last_sync <= now
    BY <1>8, <2>1, MarkType DEF Mark
  <2>4. TypeOK'
    BY <1>8, <2>2, <2>3 DEF Mark, TypeInv, TypeOK, Sync
  <2>5. ClockOK'
    BY <1>8, <2>2, <2>3, Numbers DEF Mark, TypeInv, TypeOK, ClockOK, Never
  <2> QED BY <2>2, <2>4, <2>5 DEF TypeInv
<1>9. CASE StoreByHand
  <2> DEFINE added == IF Kind("bad") = {} THEN NewByHand ELSE {}
  <2>1. added \in SUBSET NewByHand /\ StoreRows(added, {})
    BY <1>9 DEF StoreByHand
  <2>2. sync' = [sync EXCEPT !.at = "stored", !.fresh = added, !.batch = {},
                            !.missed = @ \cup (NewByHand \ added)]
    BY <1>9 DEF StoreByHand
  <2> HIDE DEF added
  <2>3. NewByHand \subseteq Changes /\ added \subseteq Changes
    BY <2>1 DEF NewByHand, Kind, TypeInv, TypeOK, Sync
  <2>4. /\ sync' \in Sync /\ sync'.fresh = added /\ PhaseOK'
        /\ sync'.start <= now /\ sync'.end <= now
    BY <2>2, <2>3 DEF TypeInv, TypeOK, Sync, PhaseOK, ClockOK
  <2> QED BY <1>9, <2>1, <2>4, StoreType, SyncSuffices DEF StoreByHand, TypeInv, TypeOK
<1>10. CASE MarkByHand
  <2>1. sync.of \in Integrations /\ now \in Never .. TimeBound /\ now \in 0 .. TimeBound /\ now <= now
    BY Numbers DEF TypeInv, TypeOK, Sync, Never
  <2>2. Unprocessed \subseteq Changes /\ \A c \in Unprocessed : row[c].source # "none"
    BY DEF Unprocessed, Stored
  <2>3. sync' = [sync EXCEPT !.at = "marked", !.fresh = Unprocessed, !.end = Never, !.missed = {}]
    BY <1>10 DEF MarkByHand
  <2>4. /\ sync' \in Sync /\ sync'.fresh = Unprocessed
        /\ sync'.start <= now /\ sync'.end <= now
        /\ sync'.at = "marked" /\ sync'.batch = sync.batch
    <3>1. sync \in Sync /\ sync.start <= now /\ Never \in Never .. TimeBound
      BY Numbers DEF TypeInv, TypeOK, ClockOK, Never
    <3>2. sync' \in Sync
      BY <2>2, <2>3, <3>1 DEF Sync
    <3>3. /\ sync'.fresh = Unprocessed /\ sync'.at = "marked" /\ sync'.batch = sync.batch
          /\ sync'.start = sync.start /\ sync'.end = Never
      BY <2>3, <3>1 DEF Sync
    <3> QED BY <2>1, <3>1, <3>2, <3>3 DEF Never
  <2>5. PhaseOK'
    BY <1>10, <2>4 DEF MarkByHand, Happened, TypeInv, PhaseOK
  <2>6. /\ integration' \in [Integrations -> Integration]
        /\ \A j \in Integrations : integration'[j].last_sync <= now
    BY <1>10, <2>1, MarkType DEF MarkByHand
  <2>7. lost' \subseteq Changes /\ left' \subseteq Changes
    BY <1>10 DEF MarkByHand, Of, Unstored, TypeInv, TypeOK, Sync
  <2>8. TypeOK'
    BY <1>10, <2>2, <2>4, <2>6, <2>7 DEF MarkByHand, TypeInv, TypeOK
  <2>9. ClockOK'
    BY <1>10, <2>4, <2>6 DEF MarkByHand, TypeInv, ClockOK
  <2> QED BY <2>5, <2>8, <2>9 DEF TypeInv
<1>11. CASE Return
  BY <1>11, IdleSuffices DEF Return, TypeInv, TypeOK
<1>12. ASSUME NEW c \in Changes, Analyse(c)
       PROVE  TypeInv'
  <2>1. sync' \in Sync /\ PhaseOK' /\ sync'.start <= now /\ sync'.end <= now /\ sync'.fresh \subseteq sync.fresh
    BY <1>12 DEF Analyse, Happened, TypeInv, TypeOK, Sync, PhaseOK, ClockOK
  <2>2. row' \in [Changes -> Row] /\ \A d \in Changes : row'[d].source = row[d].source
    BY <1>12 DEF Analyse, TypeInv, TypeOK, Row
  <2>3. sync.fresh \subseteq Changes
    BY DEF TypeInv, TypeOK, Sync
  <2> QED BY <1>12, <2>1, <2>2, <2>3, SyncSuffices DEF Analyse, TypeInv, TypeOK
<1>13. ASSUME NEW i \in Integrations, FetchByHand(i)
       PROVE  TypeInv'
  <2>1. PICK records \in SUBSET Asked(i, integration[i].last_sync) :
          sync' = [Idle EXCEPT !.by = "manual", !.at = "fetched", !.of = i, !.end = now,
                               !.batch = records,
                               !.missed = Unstored(Asked(i, integration[i].last_sync) \ records)]
    BY <1>13 DEF FetchByHand
  <2>2. Asked(i, integration[i].last_sync) \subseteq {c \in Changes : Happened(c)}
    BY DEF Asked, Of
  <2>3. now \in 0 .. TimeBound /\ now \in Never .. TimeBound
    BY Numbers DEF TypeInv, TypeOK, Never
  <2>4. sync' \in Sync
    BY <2>1, <2>2, <2>3, IdleType DEF Unstored, Sync
  <2>5. /\ sync'.at = "fetched" /\ sync'.by = "manual" /\ sync'.fresh = {} /\ sync'.batch = records
        /\ sync'.start <= now /\ sync'.end <= now
    BY <2>1, <2>3 DEF Idle, Never
  <2>6. PhaseOK'
    BY <1>13, <2>2, <2>5 DEF FetchByHand, PhaseOK, Happened
  <2> QED BY <1>13, <2>4, <2>5, <2>6, SyncSuffices DEF FetchByHand, TypeInv, TypeOK
<1>14. ASSUME NEW i \in Integrations, Switch(i)
       PROVE  TypeInv'
  <2>1. PICK s \in {"enabled", "disabled"} : integration' = [integration EXCEPT ![i].state = s]
    BY <1>14 DEF Switch
  <2>2. /\ integration' \in [Integrations -> Integration]
        /\ \A j \in Integrations : integration'[j].last_sync = integration[j].last_sync
    BY <2>1 DEF TypeInv, TypeOK, Integration
  <2> QED BY <1>14, <2>2 DEF Switch, TypeInv, TypeOK, PhaseOK, ClockOK, Happened
<1>15. ASSUME NEW i \in Integrations, Delete(i)
       PROVE  TypeInv'
  <2>1. /\ integration' \in [Integrations -> Integration]
        /\ \A j \in Integrations : integration'[j].last_sync <= now
    BY <1>15, Numbers DEF Delete, Gone, TypeInv, TypeOK, ClockOK, Integration, Never
  <2>2. row' \in [Changes -> Row] /\ \A c \in Changes : row'[c].source # "none" => row'[c] = row[c]
    BY <1>15 DEF Delete, TypeInv, TypeOK, Row, NoRow
  <2> QED BY <1>15, <2>1, <2>2 DEF Delete, TypeInv, TypeOK, PhaseOK, ClockOK, Happened
<1>16. ASSUME NEW c \in Changes, Push(c)
       PROVE  TypeInv'
  <2>1. sync' = [Idle EXCEPT !.by = "webhook", !.at = "stored", !.fresh = {c}]
    BY <1>16 DEF Push
  <2>2. sync' \in Sync
    BY <2>1, IdleType DEF Sync
  <2>3. /\ sync'.at = "stored" /\ sync'.fresh = {c} /\ sync'.batch = {}
        /\ sync'.start <= now /\ sync'.end <= now
    BY <2>1, Numbers DEF Idle, Never, TypeInv, TypeOK
  <2>4. row' \in [Changes -> Row] /\ row'[c].source = "webhook" /\ \A d \in Changes \ {c} : row'[d] = row[d]
    BY <1>16 DEF Push, TypeInv, TypeOK, Row
  <2>5. PhaseOK'
    BY <2>3 DEF PhaseOK
  <2> QED BY <1>16, <2>2, <2>3, <2>4, <2>5, SyncSuffices DEF Push, Happened, Sound, TypeInv, TypeOK
<1>17. ASSUME NEW c \in Changes, AnalyseByHand(c)
       PROVE  TypeInv'
  <2>1. row' \in [Changes -> Row] /\ \A d \in Changes : row'[d].source = row[d].source
    BY <1>17 DEF AnalyseByHand, TypeInv, TypeOK, Row
  <2>2. sync.fresh \subseteq Changes
    BY DEF TypeInv, TypeOK, Sync
  <2> QED BY <1>17, <2>1, <2>2 DEF AnalyseByHand, TypeInv, TypeOK, PhaseOK, ClockOK, Happened
<1>18. ASSUME NEW c \in Changes, NEW kind \in Kinds, Happen(c, kind)
       PROVE  TypeInv'
  <2>1. now \in 0 .. TimeBound /\ now' \in 0 .. TimeBound /\ now' = now + 1
    BY <1>18, Numbers DEF Happen, TypeInv, TypeOK
  <2>2. /\ change' \in [Changes -> Change]
        /\ change'[c].at = now' /\ \A d \in Changes \ {c} : change'[d] = change[d]
    BY <1>18, <2>1, Numbers DEF Happen, TypeInv, TypeOK, Change, Never
  <2>3. ~Stored(c) /\ c \notin sync.batch
    BY <1>18 DEF Happen, Happened, Stored, TypeInv, TypeOK, PhaseOK
  <2>4. TypeOK'
    BY <1>18, <2>1, <2>2, <2>3 DEF Happen, Stored, TypeInv, TypeOK
  <2>5. \A d \in Changes : change'[d].at <= now'
    BY <2>1, <2>2 DEF TypeInv, TypeOK, ClockOK, Change, Never
  <2>6. ClockOK'
    BY <1>18, <2>1, <2>5, Numbers DEF Happen, TypeInv, TypeOK, ClockOK, Integration, Sync, Never
  <2>7. PhaseOK'
    BY <1>18, <2>2, <2>3 DEF Happen, Happened, TypeInv, TypeOK, PhaseOK, Sync
  <2> QED BY <2>4, <2>6, <2>7 DEF TypeInv
<1>19. CASE Tick
  <2>1. now \in 0 .. TimeBound /\ now' \in 0 .. TimeBound /\ now' = now + 1
    BY <1>19, Numbers DEF Tick, TypeInv, TypeOK
  <2>2. ClockOK'
    BY <1>19, <2>1, Numbers DEF Tick, TypeInv, TypeOK, ClockOK, Change, Integration, Sync, Never
  <2> QED BY <1>19, <2>1, <2>2 DEF Tick, TypeInv, TypeOK, PhaseOK, Happened
<1>20. CASE Crash
  <2>1. crashes' \in 0 .. CrashBound /\ left' \subseteq Changes
    BY <1>20, Numbers DEF Crash, TypeInv, TypeOK, Sync
  <2> QED BY <1>20, <2>1, IdleSuffices DEF Crash, TypeInv, TypeOK
<1>21. CASE UNCHANGED vars
  BY <1>21 DEF vars, TypeInv, TypeOK, PhaseOK, ClockOK, Happened
<1>22. ASSUME NEW c \in Changes, AnalysisFails(c)
       PROVE  TypeInv'
  <2>1. sync' \in Sync /\ PhaseOK' /\ sync'.start <= now /\ sync'.end <= now /\ sync'.fresh \subseteq sync.fresh
    BY <1>22 DEF AnalysisFails, Happened, TypeInv, TypeOK, Sync, PhaseOK, ClockOK
  <2> QED BY <1>22, <2>1, SyncSuffices DEF AnalysisFails, TypeInv, TypeOK
<1> QED
  BY <1>1, <1>2, <1>3, <1>4, <1>5, <1>6, <1>7, <1>8, <1>9, <1>10, <1>11, <1>12, <1>13, <1>14,
     <1>15, <1>16, <1>17, <1>18, <1>19, <1>20, <1>21, <1>22
  DEF Next, SyncStep

\* Rows, integrations and the sync have their types in every reachable state, and only a
\* change that happened and that the database takes has a row (TypeOK).
THEOREM TypeCorrect == Spec => []TypeOK
<1>1. TypeInv => TypeOK
  BY DEF TypeInv
<1> QED BY <1>1, InitTyped, StepTyped, PTL DEF Spec

---------------------------------------------------------------------------
(* The analysis                                                            *)

\* What stays to be analysed of the rows that are there is still waiting, or given up,
\* when the step only moves rows from the first to the second.
LEMMA KeptWaiting ==
    ASSUME StoredIsAnalysed, UNCHANGED row,
           \A c \in Changes : c \in sync.fresh \cup left => c \in sync'.fresh \cup left'
    PROVE  StoredIsAnalysed'
BY DEF StoredIsAnalysed, Stored

\* The rows a step adds wait for their analysis, or are given up.
LEMMA NewRowsWait ==
    ASSUME StoredIsAnalysed, NEW added, NEW without, StoreRows(added, without),
           sync.fresh = {}, added \subseteq sync'.fresh \cup left', left \subseteq left'
    PROVE  StoredIsAnalysed'
<1> SUFFICES ASSUME NEW c \in Changes, (Stored(c) /\ ~row[c].analysed)'
             PROVE  c \in sync'.fresh \cup left'
  BY DEF StoredIsAnalysed
<1>1. CASE c \in added
  BY <1>1
<1>2. CASE c \notin added
  BY <1>2 DEF StoreRows, StoredIsAnalysed, Stored
<1> QED BY <1>1, <1>2

LEMMA StepAnalysed == AnalysisInv /\ [Next]_vars => StoredIsAnalysed'
<1> SUFFICES ASSUME AnalysisInv, [Next]_vars PROVE StoredIsAnalysed'
  OBVIOUS
<1> USE DEF AnalysisInv, TypeInv, PhaseOK
<1>1. CASE StartPass
  BY <1>1, KeptWaiting DEF StartPass
<1>2. CASE Begin
  BY <1>2, KeptWaiting DEF Begin
<1>3. CASE Fetch
  BY <1>3, KeptWaiting DEF Fetch
<1>4. ASSUME sync.at \in {"begun", "fetched"}, NEW added, Fail(added)
      PROVE  StoredIsAnalysed'
  BY <1>4, NewRowsWait DEF Fail
<1>5. CASE Misconfigured
  BY <1>4, <1>5 DEF Misconfigured
<1>6. CASE TripOver
  BY <1>4, <1>6 DEF TripOver
<1>7. CASE BreakOff
  BY <1>7, KeptWaiting DEF BreakOff
<1>8. CASE Store
  <2>1. sync'.fresh = New
    BY <1>8 DEF Store, TypeOK, Sync
  <2> QED BY <1>8, <2>1, NewRowsWait DEF Store
<1>9. CASE Mark
  BY <1>9, KeptWaiting DEF Mark
<1>10. CASE StoreByHand
  <2> DEFINE added == IF Kind("bad") = {} THEN NewByHand ELSE {}
  <2>1. StoreRows(added, {}) /\ sync'.fresh = added
    BY <1>10 DEF StoreByHand, TypeOK, Sync
  <2> HIDE DEF added
  <2> QED BY <1>10, <2>1, NewRowsWait DEF StoreByHand
<1>11. CASE MarkByHand
  <2>1. sync'.fresh = Unprocessed
    BY <1>11 DEF MarkByHand, TypeOK, Sync
  <2> QED BY <1>11, <2>1, KeptWaiting DEF MarkByHand
<1>12. CASE Return
  BY <1>12, KeptWaiting DEF Return
<1>13. ASSUME NEW c \in Changes, Analyse(c)
       PROVE  StoredIsAnalysed'
  <2>1. sync'.fresh = sync.fresh \ {c}
    BY <1>13 DEF Analyse, TypeOK, Sync
  <2>2. row'[c].analysed /\ \A d \in Changes \ {c} : row'[d] = row[d]
    BY <1>13 DEF Analyse, TypeOK, Row
  <2> QED BY <1>13, <2>1, <2>2 DEF Analyse, StoredIsAnalysed, Stored
<1>14. ASSUME NEW i \in Integrations, FetchByHand(i)
       PROVE  StoredIsAnalysed'
  BY <1>14, KeptWaiting DEF FetchByHand
<1>15. ASSUME NEW i \in Integrations, Switch(i)
       PROVE  StoredIsAnalysed'
  BY <1>15, KeptWaiting DEF Switch
<1>16. ASSUME NEW i \in Integrations, Delete(i)
       PROVE  StoredIsAnalysed'
  BY <1>16 DEF Delete, StoredIsAnalysed, Stored, NoRow
<1>17. ASSUME NEW c \in Changes, Push(c)
       PROVE  StoredIsAnalysed'
  <2>1. sync'.fresh = {c}
    BY <1>17 DEF Push, Idle
  <2>2. \A d \in Changes \ {c} : row'[d] = row[d]
    BY <1>17 DEF Push, TypeOK
  <2> QED BY <1>17, <2>1, <2>2 DEF Push, StoredIsAnalysed, Stored
<1>18. ASSUME NEW c \in Changes, AnalyseByHand(c)
       PROVE  StoredIsAnalysed'
  <2>1. row'[c].analysed /\ \A d \in Changes \ {c} : row'[d] = row[d]
    BY <1>18 DEF AnalyseByHand, TypeOK, Row
  <2> QED BY <1>18, <2>1 DEF AnalyseByHand, StoredIsAnalysed, Stored
<1>19. ASSUME NEW c \in Changes, NEW kind \in Kinds, Happen(c, kind)
       PROVE  StoredIsAnalysed'
  BY <1>19, KeptWaiting DEF Happen
<1>20. CASE Tick
  BY <1>20, KeptWaiting DEF Tick
<1>21. CASE Crash
  BY <1>21, KeptWaiting DEF Crash
<1>22. CASE UNCHANGED vars
  BY <1>22, KeptWaiting DEF vars
<1>23. ASSUME NEW c \in Changes, AnalysisFails(c)
       PROVE  StoredIsAnalysed'
  <2>1. sync'.fresh = sync.fresh \ {c}
    BY <1>23 DEF AnalysisFails, TypeOK, Sync
  <2> QED BY <1>23, <2>1, KeptWaiting DEF AnalysisFails
<1> QED
  BY <1>1, <1>2, <1>3, <1>5, <1>6, <1>7, <1>8, <1>9, <1>10, <1>11, <1>12, <1>13, <1>14,
     <1>15, <1>16, <1>17, <1>18, <1>19, <1>20, <1>21, <1>22, <1>23
  DEF Next, SyncStep

\* No row waits for its analysis without anybody going to do it, except those that an
\* analysis that failed, a crash, a failed window or the age limit of the manual sync
\* gave up (StoredIsAnalysed).
THEOREM Analysed == Spec => []StoredIsAnalysed
<1>1. Init => StoredIsAnalysed
  BY DEF Init, StoredIsAnalysed, Stored, NoRow
<1>2. Init => AnalysisInv
  BY <1>1, InitTyped DEF AnalysisInv
<1>3. AnalysisInv /\ [Next]_vars => AnalysisInv'
  BY StepTyped, StepAnalysed DEF AnalysisInv
<1>4. AnalysisInv => StoredIsAnalysed
  BY DEF AnalysisInv
<1> QED BY <1>2, <1>3, <1>4, PTL DEF Spec

---------------------------------------------------------------------------
(* The windows                                                             *)

\* Between two windows there is nothing to know.
LEMMA NoWindow ==
    ASSUME \/ sync'.at \in {"idle", "next", "marked"}
           \/ sync'.at = "stored" /\ sync'.by = "webhook"
    PROVE  WindowInv'
BY DEF WindowInv

\* A step that moves no mark keeps what is behind it.
LEMMA BehindKept ==
    ASSUME BehindTheMark, UNCHANGED <<origin, change, integration>>,
           \A c \in Changes : Stored(c) \/ c \in lost => Stored(c)' \/ c \in lost'
    PROVE  BehindTheMark'
BY DEF BehindTheMark, Happened, Sound

\* What there is to show when a mark is moved: what of that integration is behind the
\* new one is stored or lost.
LEMMA BehindMoved ==
    ASSUME MarkInv, NEW i \in Integrations, NEW m \in Never .. TimeBound, m <= now,
           integration' = [integration EXCEPT ![i].last_sync = m],
           UNCHANGED <<origin, change>>,
           \A c \in Changes : Stored(c) \/ c \in lost => Stored(c)' \/ c \in lost',
           \A c \in Changes : origin[c] = i /\ Happened(c) /\ Sound(c) /\ change[c].at <= m
                              => Stored(c)' \/ c \in lost'
    PROVE  BehindTheMark'
<1> SUFFICES ASSUME NEW c \in Changes, Happened(c), Sound(c),
                    change[c].at <= integration'[origin[c]].last_sync
             PROVE  Stored(c)' \/ c \in lost'
  BY DEF BehindTheMark, Happened, Sound
<1>1. origin[c] \in Integrations
  BY DEF MarkInv, TypeInv, TypeOK
<1>2. integration'[origin[c]].state = integration[origin[c]].state
  BY <1>1, MarkType DEF MarkInv
<1>3. CASE origin[c] = i
  <2>1. integration'[i].last_sync = m
    BY DEF MarkInv, TypeInv, TypeOK, Integration
  <2> QED BY <1>2, <1>3, <2>1
<1>4. CASE origin[c] # i
  <2>1. integration'[origin[c]] = integration[origin[c]]
    BY <1>1, <1>4 DEF MarkInv, TypeInv, TypeOK
  <2> QED BY <2>1 DEF MarkInv, BehindTheMark
<1> QED BY <1>3, <1>4

\* Adding records makes rows, and takes none away.
LEMMA StoreAdds ==
    ASSUME NEW added, NEW without, StoreRows(added, without)
    PROVE  \A c \in Changes : /\ (Stored(c) \/ c \in added) <=> Stored(c)'
                              /\ c \in lost \cup without => Stored(c)' \/ c \in lost'
BY DEF StoreRows, Stored

\* The window that failed is closed at the present moment, with everything it was about
\* stored or lost.
LEMMA FailWindow ==
    ASSUME MarkInv, sync.by = "worker", sync.at \in {"begun", "fetched"}, NEW added, Fail(added)
    PROVE  BehindTheMark' /\ WindowInv'
<1>1. /\ sync.todo \in SUBSET Integrations /\ sync.of \in Integrations
      /\ now \in Never .. TimeBound /\ now <= now
  BY Numbers DEF MarkInv, TypeInv, TypeOK, Sync, Never
<1>2. \A c \in Changes : /\ (Stored(c) \/ c \in added) <=> Stored(c)'
                         /\ c \in lost \cup sync.missed \cup Unstored(Asked(sync.of, sync.start))
                            => Stored(c)' \/ c \in lost'
  BY StoreAdds DEF Fail
<1>3. ASSUME NEW c \in Changes, Wanted(c)
      PROVE  Stored(c)' \/ c \in lost'
  <2>1. Accounted(c) \/ c \in Asked(sync.of, sync.start)
    BY <1>3 DEF MarkInv, WindowInv
  <2> QED BY <1>2, <2>1 DEF Accounted, Unstored
<1>4. BehindTheMark'
  BY <1>1, <1>2, <1>3, BehindMoved DEF Fail, Wanted
<1>5. WindowInv'
  <2>1. sync'.at \in {"idle", "next"}
    BY <1>1, GoOnType DEF Fail
  <2> QED BY <2>1, NoWindow
<1> QED BY <1>4, <1>5

\* The window that begins asks for what is after the last one; what is older than the
\* first one is missed.
LEMMA BeginWindow == MarkInv /\ Begin => WindowInv'
<1> SUFFICES ASSUME MarkInv, Begin PROVE WindowInv'
  OBVIOUS
<1>0. PICK i \in sync.todo : BeginWith(i)
  BY BeginPicks
<1> DEFINE first == integration[i].last_sync = Never
           start == IF first THEN now - Day ELSE integration[i].last_sync
           missed == IF first THEN Unstored({c \in Of(i) : Happened(c)} \ Asked(i, start)) ELSE {}
<1>1. i \in Integrations
  BY DEF MarkInv, TypeInv, TypeOK, Sync
<1>2. sync' = [Idle EXCEPT !.by = "worker", !.at = "begun", !.todo = sync.todo \ {i},
                          !.of = i, !.start = start, !.end = now, !.missed = missed]
  BY <1>0 DEF BeginWith
<1>3. UNCHANGED <<origin, change, row, integration, lost>>
  BY DEF Begin
<1> HIDE DEF start, missed
<1>4. /\ sync'.by = "worker" /\ sync'.at = "begun" /\ sync'.of = i
      /\ sync'.start = start /\ sync'.missed = missed
  BY <1>2 DEF Idle
<1>5. ASSUME NEW c \in Changes, origin[c] = i, Happened(c), Sound(c)
      PROVE  Stored(c) \/ c \in lost \cup missed \/ c \in Asked(i, start)
  <2>1. c \in Of(i)
    BY <1>5 DEF Of
  <2>2. CASE first
    BY <1>5, <2>1, <2>2 DEF missed, Unstored
  <2>3. CASE ~first
    <3>1. start = integration[i].last_sync
      BY <2>3 DEF start
    <3>2. CASE change[c].at <= start
      BY <1>5, <3>1, <3>2 DEF MarkInv, BehindTheMark
    <3>3. CASE ~(change[c].at <= start)
      <4>1. change[c].at \in Int /\ start \in Int
        BY <1>1, <3>1, Numbers DEF MarkInv, TypeInv, TypeOK, Change, Integration, Never
      <4> QED BY <1>5, <2>1, <3>3, <4>1 DEF Asked
    <3> QED BY <3>2, <3>3
  <2> QED BY <2>2, <2>3
<1>6. SUFFICES ASSUME NEW c \in Changes, Wanted(c)'
               PROVE  (Accounted(c) \/ c \in Asked(sync.of, sync.start))'
  BY <1>4 DEF WindowInv, Wanted, Accounted, Asked, Of, Happened, Stored, Sound
<1>7. (Accounted(c) \/ c \in Asked(sync.of, sync.start))'
  <2>1. origin[c] = i /\ Happened(c) /\ Sound(c)
    BY <1>3, <1>4, <1>6 DEF Wanted, Happened, Sound
  <2>2. Stored(c) \/ c \in lost \cup missed \/ c \in Asked(i, start)
    BY <1>5, <2>1
  <2>3. Stored(c)' = Stored(c) /\ Asked(sync.of, sync.start)' = Asked(i, start)
    BY <1>3, <1>4 DEF Stored, Asked, Of, Happened
  <2> QED BY <1>3, <1>4, <2>2, <2>3 DEF Accounted
<1> QED BY <1>7

\* A fetch takes what is asked for into the batch, or misses it.
LEMMA FetchWindow == MarkInv /\ Fetch => WindowInv'
<1> SUFFICES ASSUME MarkInv, Fetch PROVE WindowInv'
  OBVIOUS
<1>1. PICK records \in SUBSET Asked(sync.of, sync.start) :
        sync' = [sync EXCEPT !.at = "fetched", !.batch = records,
                             !.missed = @ \cup Unstored(Asked(sync.of, sync.start) \ records)]
  BY DEF Fetch
<1>2. /\ sync'.at = "fetched" /\ sync'.by = "worker" /\ sync'.batch = records
      /\ sync'.missed = sync.missed \cup Unstored(Asked(sync.of, sync.start) \ records)
      /\ UNCHANGED <<sync.of, sync.start, sync.end, origin, change, row, integration, lost>>
  BY <1>1 DEF Fetch, MarkInv, TypeInv, TypeOK, PhaseOK, Sync
<1>3. SUFFICES ASSUME NEW c \in Changes, Wanted(c)'
               PROVE  Accounted(c)' \/ c \in sync'.batch
  BY <1>2 DEF WindowInv, Wanted, Accounted, Asked, Of, Happened, Stored, Sound
<1>4. Wanted(c)
  BY <1>2, <1>3 DEF Wanted, Happened, Sound
<1>5. Accounted(c) \/ c \in Asked(sync.of, sync.start)
  BY <1>4 DEF Fetch, MarkInv, TypeInv, PhaseOK, WindowInv
<1> QED BY <1>2, <1>5 DEF Accounted, Stored, Unstored

\* So does the fetch of a manual sync, which asks for what is after the last window.
LEMMA FetchByHandWindow ==
    ASSUME NEW i \in Integrations
    PROVE  MarkInv /\ FetchByHand(i) => WindowInv'
<1> SUFFICES ASSUME MarkInv, FetchByHand(i) PROVE WindowInv'
  OBVIOUS
<1>1. PICK records \in SUBSET Asked(i, integration[i].last_sync) :
        sync' = [Idle EXCEPT !.by = "manual", !.at = "fetched", !.of = i, !.end = now,
                             !.batch = records,
                             !.missed = Unstored(Asked(i, integration[i].last_sync) \ records)]
  BY DEF FetchByHand
<1>2. /\ sync'.at = "fetched" /\ sync'.by = "manual" /\ sync'.batch = records /\ sync'.of = i
      /\ sync'.missed = Unstored(Asked(i, integration[i].last_sync) \ records)
      /\ UNCHANGED <<origin, change, row, integration, lost>>
  BY <1>1 DEF FetchByHand, Idle
<1>3. SUFFICES ASSUME NEW c \in Changes, Wanted(c)'
               PROVE  Accounted(c)' \/ c \in sync'.batch
  BY <1>2 DEF WindowInv
<1>4. origin[c] = i /\ Happened(c) /\ Sound(c)
  BY <1>2, <1>3 DEF Wanted, Happened, Sound
<1>5. CASE change[c].at <= integration[i].last_sync
  BY <1>2, <1>4, <1>5 DEF MarkInv, BehindTheMark, Accounted, Stored
<1>6. CASE ~(change[c].at <= integration[i].last_sync)
  <2>1. change[c].at \in Int /\ integration[i].last_sync \in Int
    BY Numbers DEF MarkInv, TypeInv, TypeOK, Change, Integration, Never
  <2>2. c \in Asked(i, integration[i].last_sync)
    BY <1>4, <1>6, <2>1 DEF Asked, Of
  <2> QED BY <1>2, <2>2 DEF Accounted, Stored, Unstored
<1> QED BY <1>5, <1>6

\* The commit stores the new records of the batch, all of them when they are good.
LEMMA StoreWindow == MarkInv /\ Store => WindowInv'
<1> SUFFICES ASSUME MarkInv, Store PROVE WindowInv'
  OBVIOUS
<1>1. /\ sync'.at = "stored" /\ sync'.by = "worker"
      /\ UNCHANGED <<sync.of, sync.end, sync.missed, origin, change, integration>>
  BY DEF Store, MarkInv, TypeInv, TypeOK, Sync
<1>2. \A c \in Changes : /\ (Stored(c) \/ c \in New) <=> Stored(c)'
                         /\ c \in lost => Stored(c)' \/ c \in lost'
  BY StoreAdds DEF Store
<1>3. SUFFICES ASSUME NEW c \in Changes, Wanted(c)', (change[c].at <= sync.end)'
               PROVE  Accounted(c)'
  BY <1>1 DEF WindowInv
<1>4. Wanted(c) /\ change[c].at <= sync.end
  BY <1>1, <1>3 DEF Wanted, Happened, Sound
<1>5. Accounted(c) \/ c \in sync.batch
  BY <1>4 DEF Store, MarkInv, WindowInv
<1>6. c \in sync.batch => Stored(c) \/ c \in New
  BY <1>4 DEF Store, New, Kind, Wanted, Refused, Sound
<1> QED BY <1>1, <1>2, <1>5, <1>6 DEF Accounted

LEMMA StoreByHandWindow == MarkInv /\ StoreByHand => WindowInv'
<1> SUFFICES ASSUME MarkInv, StoreByHand PROVE WindowInv'
  OBVIOUS
<1> DEFINE added == IF Kind("bad") = {} THEN NewByHand ELSE {}
<1>1. /\ StoreRows(added, {})
      /\ sync' = [sync EXCEPT !.at = "stored", !.fresh = added, !.batch = {},
                               !.missed = @ \cup (NewByHand \ added)]
  BY DEF StoreByHand
<1> HIDE DEF added
<1>2. /\ sync'.at = "stored" /\ sync'.by = "manual" /\ sync'.missed = sync.missed \cup (NewByHand \ added)
      /\ UNCHANGED <<sync.of, sync.end, origin, change, integration>>
  BY <1>1 DEF StoreByHand, MarkInv, TypeInv, TypeOK, Sync
<1>3. \A c \in Changes : /\ (Stored(c) \/ c \in added) <=> Stored(c)'
                         /\ c \in lost => Stored(c)' \/ c \in lost'
  BY <1>1, StoreAdds
<1>4. SUFFICES ASSUME NEW c \in Changes, Wanted(c)', (change[c].at <= sync.end)'
               PROVE  Accounted(c)'
  BY <1>2 DEF WindowInv
<1>5. Wanted(c) /\ change[c].at <= sync.end
  BY <1>2, <1>4 DEF Wanted, Happened, Sound
<1>6. Accounted(c) \/ c \in sync.batch
  BY <1>5 DEF StoreByHand, MarkInv, WindowInv
<1>7. c \in sync.batch => Stored(c) \/ c \in NewByHand
  BY <1>5 DEF NewByHand, Kind, Wanted, Sound
<1> QED BY <1>2, <1>3, <1>6, <1>7 DEF Accounted

\* A window that was brought in is closed, by the job at its own end and by the manual
\* sync at the present moment.
LEMMA MarkWindow == MarkInv /\ (Mark \/ MarkByHand) => BehindTheMark' /\ WindowInv'
<1> SUFFICES ASSUME MarkInv, Mark \/ MarkByHand PROVE BehindTheMark' /\ WindowInv'
  OBVIOUS
<1>1. /\ sync.todo \in SUBSET Integrations /\ sync.of \in Integrations
      /\ now \in Never .. TimeBound /\ now <= now
      /\ sync.end \in Never .. TimeBound /\ sync.end <= now
  BY Numbers DEF MarkInv, TypeInv, TypeOK, ClockOK, Sync, Never
<1>2. \A c \in Changes : Wanted(c) /\ change[c].at <= sync.end => Accounted(c)
  BY DEF Mark, MarkByHand, MarkInv, WindowInv
<1>3. CASE Mark
  <2>1. sync'.at \in {"idle", "next"}
    BY <1>1, <1>3, GoOnType DEF Mark
  <2>2. BehindTheMark'
    BY <1>1, <1>2, <1>3, BehindMoved DEF Mark, Wanted, Accounted, Stored
  <2> QED BY <2>1, <2>2, NoWindow
<1>4. CASE MarkByHand
  <2>1. sync'.at = "marked"
    BY <1>4 DEF MarkByHand, MarkInv, TypeInv, TypeOK, Sync
  <2>2. ASSUME NEW c \in Changes, Wanted(c)
        PROVE  Stored(c)' \/ c \in lost'
    <3>1. CASE change[c].at <= sync.end
      BY <1>2, <1>4, <2>2, <3>1 DEF MarkByHand, Accounted, Stored
    <3>2. CASE ~(change[c].at <= sync.end)
      <4>1. change[c].at > sync.end /\ c \in Of(sync.of)
        BY <1>1, <2>2, <3>2, Numbers DEF MarkInv, TypeInv, TypeOK, Change, Never, Wanted, Of
      <4> QED BY <1>4, <4>1 DEF MarkByHand, Unstored, Stored
    <3> QED BY <3>1, <3>2
  <2>3. BehindTheMark'
    BY <1>1, <1>4, <2>2, BehindMoved DEF MarkByHand, Wanted, Stored
  <2> QED BY <2>1, <2>3, NoWindow
<1> QED BY <1>3, <1>4

\* A change that happens now is after every mark and every end of a window, and is asked
\* for when the window has not been fetched.
LEMMA HappenWindow ==
    ASSUME NEW d \in Changes, NEW kind \in Kinds
    PROVE  MarkInv /\ Happen(d, kind) => BehindTheMark' /\ WindowInv'
<1> SUFFICES ASSUME MarkInv, Happen(d, kind) PROVE BehindTheMark' /\ WindowInv'
  OBVIOUS
<1>1. /\ now \in Int /\ sync.start \in Int /\ sync.end \in Int
      /\ sync.start <= now /\ sync.end <= now
      /\ \A i \in Integrations : integration[i].last_sync \in Int /\ integration[i].last_sync <= now
  BY Numbers DEF MarkInv, TypeInv, TypeOK, ClockOK, Integration, Sync, Never
<1>2. /\ change'[d].at = now + 1 /\ Happened(d)' /\ \A c \in Changes \ {d} : change'[c] = change[c]
      /\ UNCHANGED <<origin, row, integration, sync, lost>>
  BY Numbers DEF Happen, Happened, MarkInv, TypeInv, TypeOK, Never
<1>3. \A c \in Changes : origin[c] \in Integrations
  BY DEF MarkInv, TypeInv, TypeOK
<1>4. BehindTheMark'
  <2> SUFFICES ASSUME NEW c \in Changes, Happened(c)', Sound(c)',
                      change'[c].at <= integration[origin[c]].last_sync
               PROVE  Stored(c) \/ c \in lost
    BY <1>2 DEF BehindTheMark, Stored
  <2>1. c # d
    BY <1>1, <1>2, <1>3
  <2> QED BY <1>2, <2>1 DEF MarkInv, BehindTheMark, Happened, Sound
<1>5. ASSUME NEW c \in Changes, Wanted(c)', c # d
      PROVE  /\ Wanted(c) /\ change'[c].at = change[c].at /\ Accounted(c)' = Accounted(c)
             /\ c \in Asked(sync.of, sync.start) => (c \in Asked(sync.of, sync.start))'
  BY <1>2, <1>5 DEF Wanted, Happened, Sound, Accounted, Stored, Asked, Of
<1>6. ASSUME Wanted(d)'
      PROVE  (d \in Asked(sync.of, sync.start))' /\ ~(change'[d].at <= sync.end)
  BY <1>1, <1>2, <1>6 DEF Wanted, Asked, Of, Happened
<1>7. WindowInv'
  BY <1>2, <1>5, <1>6 DEF MarkInv, WindowInv
<1> QED BY <1>4, <1>7

\* A step that only looks at rows keeps the window, when it takes none away.
LEMMA WindowKept ==
    ASSUME MarkInv,
           UNCHANGED <<sync.at, sync.by, sync.of, sync.start, sync.end, sync.batch, sync.missed>>,
           UNCHANGED <<origin, change, integration, lost>>,
           \A c \in Changes : Stored(c) => Stored(c)'
    PROVE  WindowInv'
<1>1. ASSUME NEW c \in Changes
      PROVE  /\ Wanted(c)' => Wanted(c)
             /\ Accounted(c) => Accounted(c)'
             /\ c \in Asked(sync.of, sync.start) => (c \in Asked(sync.of, sync.start))'
  BY DEF Wanted, Happened, Sound, Accounted, Asked, Of
<1> QED BY <1>1 DEF MarkInv, WindowInv

LEMMA StepBehind == MarkInv /\ [Next]_vars => BehindTheMark' /\ WindowInv'
<1> SUFFICES ASSUME MarkInv, [Next]_vars PROVE BehindTheMark' /\ WindowInv'
  OBVIOUS
<1>0. BehindTheMark
  BY DEF MarkInv
<1>1. CASE StartPass
  <2>1. {i \in Integrations : Enabled(i)} \in SUBSET Integrations
    OBVIOUS
  <2>2. sync'.at \in {"idle", "next"}
    BY <1>1, <2>1, GoOnType DEF StartPass
  <2> QED BY <1>0, <1>1, <2>2, NoWindow, BehindKept DEF StartPass, Stored
<1>2. CASE Begin
  BY <1>0, <1>2, BeginWindow, BehindKept DEF Begin, Stored
<1>3. CASE Fetch
  BY <1>0, <1>3, FetchWindow, BehindKept DEF Fetch, Stored
<1>4. CASE Misconfigured
  BY <1>4, FailWindow DEF Misconfigured, MarkInv, TypeInv, PhaseOK
<1>5. CASE TripOver
  BY <1>5, FailWindow DEF TripOver
<1>6. CASE BreakOff
  BY <1>0, <1>6, IdleType, NoWindow, BehindKept DEF BreakOff, Stored
<1>7. CASE Store
  <2>1. \A c \in Changes : Stored(c) \/ c \in lost => Stored(c)' \/ c \in lost'
    BY <1>7, StoreAdds DEF Store
  <2> QED BY <1>0, <1>7, <2>1, StoreWindow, BehindKept DEF Store
<1>8. CASE Mark
  BY <1>8, MarkWindow
<1>9. CASE StoreByHand
  <2>1. \A c \in Changes : Stored(c) \/ c \in lost => Stored(c)' \/ c \in lost'
    BY <1>9, StoreAdds DEF StoreByHand
  <2> QED BY <1>0, <1>9, <2>1, StoreByHandWindow, BehindKept DEF StoreByHand
<1>10. CASE MarkByHand
  BY <1>10, MarkWindow
<1>11. CASE Return
  BY <1>0, <1>11, IdleType, NoWindow, BehindKept DEF Return, Stored
<1>12. ASSUME NEW c \in Changes, Analyse(c)
       PROVE  BehindTheMark' /\ WindowInv'
  <2>1. \A d \in Changes : Stored(d) => Stored(d)'
    BY <1>12 DEF Analyse, Stored, MarkInv, TypeInv, TypeOK, Row
  <2>2. UNCHANGED <<sync.at, sync.by, sync.of, sync.start, sync.end, sync.batch, sync.missed>>
    BY <1>12 DEF Analyse, MarkInv, TypeInv, TypeOK, Sync
  <2> QED BY <1>0, <1>12, <2>1, <2>2, WindowKept, BehindKept DEF Analyse
<1>13. ASSUME NEW i \in Integrations, FetchByHand(i)
       PROVE  BehindTheMark' /\ WindowInv'
  BY <1>0, <1>13, FetchByHandWindow, BehindKept DEF FetchByHand, Stored
<1>14. ASSUME NEW i \in Integrations, Switch(i)
       PROVE  BehindTheMark' /\ WindowInv'
  <2>1. \A j \in Integrations : integration'[j].last_sync = integration[j].last_sync
    <3>1. PICK s \in {"enabled", "disabled"} : integration' = [integration EXCEPT ![i].state = s]
      BY <1>14 DEF Switch
    <3> QED BY <3>1 DEF MarkInv, TypeInv, TypeOK, Integration
  <2>2. BehindTheMark'
    <3> SUFFICES ASSUME NEW c \in Changes, Happened(c), Sound(c),
                        change[c].at <= integration'[origin[c]].last_sync
                 PROVE  Stored(c)' \/ c \in lost'
      BY <1>14 DEF Switch, BehindTheMark, Happened, Sound
    <3>1. integration'[origin[c]].last_sync = integration[origin[c]].last_sync
      BY <2>1 DEF MarkInv, TypeInv, TypeOK
    <3> QED BY <1>0, <1>14, <3>1 DEF Switch, BehindTheMark, Stored
  <2> QED BY <1>14, <2>2, NoWindow DEF Switch
<1>15. ASSUME NEW i \in Integrations, Delete(i)
       PROVE  BehindTheMark' /\ WindowInv'
  <2>1. integration'[i].last_sync = Never /\ \A j \in Integrations \ {i} : integration'[j] = integration[j]
    BY <1>15 DEF Delete, Gone, MarkInv, TypeInv, TypeOK, Integration
  <2>2. \A c \in Changes : origin[c] # i => row'[c] = row[c] /\ (c \in lost => c \in lost')
    BY <1>15 DEF Delete, Of
  <2>3. BehindTheMark'
    <3> SUFFICES ASSUME NEW c \in Changes, Happened(c), Sound(c),
                        change[c].at <= integration'[origin[c]].last_sync
                 PROVE  Stored(c)' \/ c \in lost'
      BY <1>15 DEF Delete, BehindTheMark, Happened, Sound
    <3>1. origin[c] \in Integrations /\ change[c].at \in Never .. TimeBound /\ change[c].at # Never
      BY DEF Happened, Change, MarkInv, TypeInv, TypeOK
    <3>2. origin[c] # i
      BY <2>1, <3>1, Numbers DEF Never
    <3> QED BY <1>0, <2>1, <2>2, <3>1, <3>2 DEF BehindTheMark, Stored
  <2> QED BY <1>15, <2>3, NoWindow DEF Delete
<1>16. ASSUME NEW c \in Changes, Push(c)
       PROVE  BehindTheMark' /\ WindowInv'
  <2>1. \A d \in Changes : Stored(d) \/ d \in lost => Stored(d)' \/ d \in lost'
    BY <1>16 DEF Push, Stored, MarkInv, TypeInv, TypeOK, Row
  <2>2. sync'.at = "stored" /\ sync'.by = "webhook"
    BY <1>16 DEF Push, Idle
  <2> QED BY <1>0, <1>16, <2>1, <2>2, NoWindow, BehindKept DEF Push
<1>17. ASSUME NEW c \in Changes, AnalyseByHand(c)
       PROVE  BehindTheMark' /\ WindowInv'
  <2>1. \A d \in Changes : Stored(d) => Stored(d)'
    BY <1>17 DEF AnalyseByHand, Stored, MarkInv, TypeInv, TypeOK, Row
  <2> QED BY <1>0, <1>17, <2>1, NoWindow, BehindKept DEF AnalyseByHand
<1>18. ASSUME NEW c \in Changes, NEW kind \in Kinds, Happen(c, kind)
       PROVE  BehindTheMark' /\ WindowInv'
  BY <1>18, HappenWindow
<1>19. CASE Tick
  BY <1>0, <1>19, WindowKept, BehindKept DEF Tick, Stored
<1>20. CASE Crash
  BY <1>0, <1>20, IdleType, NoWindow, BehindKept DEF Crash, Stored
<1>21. CASE UNCHANGED vars
  BY <1>0, <1>21, WindowKept, BehindKept DEF vars, Stored
<1>22. ASSUME NEW c \in Changes, AnalysisFails(c)
       PROVE  BehindTheMark' /\ WindowInv'
  <2>1. UNCHANGED <<sync.at, sync.by, sync.of, sync.start, sync.end, sync.batch, sync.missed>>
    BY <1>22 DEF AnalysisFails, MarkInv, TypeInv, TypeOK, Sync
  <2> QED BY <1>0, <1>22, <2>1, WindowKept, BehindKept DEF AnalysisFails, Stored
<1> QED
  BY <1>1, <1>2, <1>3, <1>4, <1>5, <1>6, <1>7, <1>8, <1>9, <1>10, <1>11, <1>12, <1>13, <1>14,
     <1>15, <1>16, <1>17, <1>18, <1>19, <1>20, <1>21, <1>22
  DEF Next, SyncStep

\* A sound change behind the mark of its integration is stored, or lost in one of the ways
\* that are known, whichever of the job, the manual sync and the webhook was at work and
\* wherever a crash fell (BehindTheMark).
THEOREM NothingLeftBehind == Spec => []BehindTheMark
<1>1. Init => BehindTheMark /\ WindowInv
  BY DEF Init, BehindTheMark, WindowInv, Happened, Idle
<1>2. Init => MarkInv
  BY <1>1, InitTyped DEF MarkInv
<1>3. MarkInv /\ [Next]_vars => MarkInv'
  BY StepTyped, StepBehind DEF MarkInv
<1>4. MarkInv => BehindTheMark
  BY DEF MarkInv
<1> QED BY <1>2, <1>3, <1>4, PTL DEF Spec

=============================================================================
