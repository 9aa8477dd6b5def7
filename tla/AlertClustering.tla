---------------------------- MODULE AlertClustering ----------------------------
(***************************************************************************)
(* Alerts, the clusters they are linked to, and everything that writes the *)
(* status, the link and the figures of either.  The clustering job and the *)
(* daily cleanup run in threads of APScheduler's executor and take a       *)
(* database step at a time.  The webhook, the handlers of                  *)
(* routers/alerts.py and routers/clusters.py and the runbook executor      *)
(* share the event loop, where a handler runs without an await: no two     *)
(* overlap, but the threads commit between the statements of one.  Closing *)
(* and merging clusters go statement by statement; of the others the       *)
(* statements commute with what the threads write, and each is one step.   *)
(*                                                                         *)
(* A cluster is named by its key: keys are unique, and only the job        *)
(* creates clusters.  Which alerts are alike is kept as the identity that  *)
(* exact matching compares; the temporal and the semantic layer, which     *)
(* compare names, minutes and words, may group what is left in any way.    *)
(* SQLAlchemy writes the columns whose value differs from the one read,    *)
(* and raises StaleDataError when a row it updates has been deleted.  The  *)
(* row locks a pass holds between its flush and its commit are left out.   *)
(***************************************************************************)
EXTENDS Integers, FiniteSets

CONSTANTS
    Alerts,         \* rows of alerts
    Identities,     \* what _generate_exact_key tells apart, as keys
    NoKey,          \* no cluster
    Storms,         \* keys of the temporal and semantic layers
    Identity,       \* the identity of each alert
    ClusterWindow,  \* hours an alert can be clustered in (1)
    InactiveWindow, \* hours without alerts after which a cluster closes (24)
    Retention,      \* hours a closed cluster is kept (30 days)
    Arriving,       \* bound: what a new alert says of itself
    TimeBound,      \* bound: the last hour
    LateBound,      \* bound: hours between the start of an alert and its arrival
    HandBound       \* bound: changes of alerts and clusters by handlers

Keys == Identities \cup Storms

ASSUME IdentityAssumption == Identity \in [Alerts -> Identities]
ASSUME KeysAssumption == Identities \cap Storms = {} /\ NoKey \notin Keys /\ IsFiniteSet(Alerts)
ASSUME WindowsAssumption ==
    {ClusterWindow, InactiveWindow, Retention, TimeBound, LateBound, HandBound} \subseteq Nat

ASSUME ArrivingAssumption == Arriving \subseteq {"firing", "resolved"}

VARIABLES
    now,        \* the hour
    alert,      \* the row of each alert
    cluster,    \* the row of each key
    job,        \* cluster_recent_alerts
    cleanup,    \* cleanup_old_clusters
    request,    \* close_cluster or merge_clusters, until its commit
    hands,      \* history: handler changes so far
    reused,     \* history: keys whose figures the job wrote from one batch since they were read
                \* for a count
    thinned,    \* history: keys that lost alerts since they were counted
    untold,     \* history: keys with alerts resolved or moved past resolve_alert
    overtaken   \* history: keys a handler wrote since the job, or the cleanup, chose them

vars == <<now, alert, cluster, job, cleanup, request, hands, reused, thinned, untold, overtaken>>
blameVars == <<reused, thinned, untold>>

NoAlert == [state |-> "absent", timestamp |-> 0, status |-> "firing", cluster |-> NoKey,
            metrics |-> "none"]

NoCluster == [state |-> "none", count |-> 0, last_seen |-> 0, closed_at |-> 0, reason |-> "none"]

AlertRow == [state : {"absent", "stored"}, timestamp : 0 .. TimeBound,
             status : {"firing", "acknowledged", "resolved"},
             cluster : Keys \cup {NoKey}, metrics : {"none", "open", "resolved"}]

ClusterRow == [state : {"none", "active", "closed"}, count : 0 .. Cardinality(Alerts),
               last_seen : 0 .. TimeBound, closed_at : 0 .. TimeBound,
               reason : {"none", "manual", "timeout", "merged"}]

\* A pass holds its groups, the keys it has not looked up yet, and of the others the
\* alerts and the cluster it found; then the clusters it found inactive.
NoPass == [at |-> "idle", group |-> [k \in Keys |-> {}], todo |-> {},
           row |-> [k \in Keys |-> NoCluster], inactive |-> {}]

Pass == [at : {"idle", "applying", "applied", "closing"}, group : [Keys -> SUBSET Alerts],
         todo : SUBSET Keys, row : [Keys -> ClusterRow], inactive : SUBSET Keys]

\* A request holds the rows it read, the reason it closes the source for, the alerts it
\* moved and those it counted; and, what it does not know, which of its rows were deleted
\* and whether the job wrote the figures of its target.
NoRequest == [at |-> "idle", source |-> NoKey, target |-> NoKey, source_row |-> NoCluster,
              target_row |-> NoCluster, reason |-> "none", moved |-> {}, members |-> {},
              gone |-> {}, crossed |-> FALSE]

Request == [at : {"idle", "read", "moved", "committing"}, source : Keys \cup {NoKey},
            target : Keys \cup {NoKey}, source_row : ClusterRow, target_row : ClusterRow,
            reason : {"none", "manual", "timeout", "merged"}, moved : SUBSET Alerts,
            members : SUBSET Alerts, gone : SUBSET (Keys \cup {NoKey}), crossed : BOOLEAN]

\* The rows have their types; a cluster has a reason once it is closed; an alert that
\* is linked is stored, and linked to a cluster that is there.
TypeOK ==
    /\ now \in 0 .. TimeBound
    /\ alert \in [Alerts -> AlertRow]
    /\ cluster \in [Keys -> ClusterRow]
    /\ job \in Pass
    /\ cleanup \in SUBSET Keys
    /\ request \in Request
    /\ hands \in 0 .. HandBound
    /\ {reused, thinned, untold} \subseteq SUBSET Keys
    /\ overtaken \in [job : SUBSET Keys, cleanup : SUBSET Keys]
    /\ \A k \in Keys : (cluster[k].state = "closed") <=> (cluster[k].reason # "none")
    /\ \A a \in Alerts : alert[a].cluster # NoKey =>
          alert[a].state = "stored" /\ cluster[alert[a].cluster].state # "none"

Init ==
    /\ now = 0
    /\ alert = [a \in Alerts |-> NoAlert]
    /\ cluster = [k \in Keys |-> NoCluster]
    /\ job = NoPass
    /\ cleanup = {}
    /\ request = NoRequest
    /\ hands = 0
    /\ reused = {} /\ thinned = {} /\ untold = {}
    /\ overtaken = [job |-> {}, cleanup |-> {}]

---------------------------------------------------------------------------
(* Tables                                                                  *)

Stored(a) == alert[a].state = "stored"
Exists(k) == cluster[k].state # "none"
Active(k) == cluster[k].state = "active"
Members(k) == {a \in Alerts : alert[a].cluster = k}

Latest(S) == CHOOSE t \in {alert[a].timestamp : a \in S} :
                \A a \in S : alert[a].timestamp <= t

\* A column is written only when its value is not the one that was read.
Written(read, new, current) == IF new = read THEN current ELSE new

Unclustered == {a \in Alerts : /\ Stored(a) /\ alert[a].cluster = NoKey
                               /\ alert[a].status = "firing"
                               /\ alert[a].timestamp >= now - ClusterWindow}

\* Layer 1: alike alerts, two or more of them.
Exact(S, k) == LET alike == {a \in S : Identity[a] = k}
               IN  IF k \in Identities /\ Cardinality(alike) > 1 THEN alike ELSE {}

Alone(S) == S \ UNION {Exact(S, k) : k \in Keys}

\* Layers 2 and 3: disjoint groups of two or more among those that are alone.
Groupings(S) ==
    {[k \in Keys |-> IF k \in Storms THEN {a \in Alone(S) : storm[a] = k} ELSE Exact(S, k)] :
        storm \in {f \in [Alone(S) -> Storms \cup {NoKey}] :
                      \A k \in Storms : Cardinality({a \in Alone(S) : f[a] = k}) # 1}}

---------------------------------------------------------------------------
(* The clustering job                                                      *)

\* Reads what is unclustered, and groups it.  With nothing to group the pass returns,
\* without closing clusters either.
Read ==
    /\ job.at = "idle"
    /\ Unclustered # {}
    /\ \E g \in Groupings(Unclustered) :
          LET todo == {k \in Keys : g[k] # {}}
          IN  job' = [NoPass EXCEPT !.at = IF todo = {} THEN "applied" ELSE "applying",
                                    !.group = g, !.todo = todo]
    /\ UNCHANGED <<now, alert, cluster, cleanup, request, hands, blameVars, overtaken>>

\* apply_clustering, one key: the alerts that are still there, and the cluster of the
\* key, active or not.
LookUp(k) ==
    /\ job.at = "applying" /\ k \in job.todo
    /\ job' = [job EXCEPT !.todo = @ \ {k}, !.row[k] = cluster[k],
                          !.group[k] = {a \in @ : Stored(a)}]
    /\ UNCHANGED <<now, alert, cluster, cleanup, request, hands, blameVars, overtaken>>

\* Mutant: does not notice that an alert went.
NoClusterDeleted == \A k \in Keys : job.group[k] # {} /\ job.row[k].state # "none" => Exists(k)

\* The rows that the commit is about to update are all there.
NothingDeleted ==
    \A k \in Keys : /\ \A a \in job.group[k] : Stored(a)
                    /\ job.group[k] # {} /\ job.row[k].state # "none" => Exists(k)

\* _create_cluster or _update_cluster, from the alerts of this batch alone.
Applied(k) ==
    LET read == job.row[k]
    IN  IF read.state = "none"
        THEN [NoCluster EXCEPT !.state = "active", !.count = Cardinality(job.group[k]),
                               !.last_seen = Latest(job.group[k])]
        ELSE [cluster[k] EXCEPT
                 !.count = Written(read.count, Cardinality(job.group[k]), @),
                 !.last_seen = Written(read.last_seen, Latest(job.group[k]), @)]

Commit ==
    /\ job.at = "applying" /\ job.todo = {} /\ NothingDeleted
    /\ LET keys == {k \in Keys : job.group[k] # {}}
           old == {k \in keys : job.row[k].state # "none"}
           homeOf(a) == CHOOSE k \in keys : a \in job.group[k]
       IN  /\ cluster' = [k \in Keys |-> IF k \in keys THEN Applied(k) ELSE cluster[k]]
           /\ alert' = [a \in Alerts |->
                           IF \E k \in keys : a \in job.group[k] /\ alert[a].cluster = NoKey
                           THEN [alert[a] EXCEPT !.cluster = homeOf(a)] ELSE alert[a]]
           /\ reused' = reused \cup old
           /\ thinned' = thinned \ (keys \ old)
           /\ untold' = (untold \ (keys \ old)) \cup
                 {k \in keys : \E a \in job.group[k] : alert[a].status = "resolved"}
           /\ request' = [request EXCEPT !.crossed = @ \/ request.target \in keys]
    /\ job' = [NoPass EXCEPT !.at = "applied"]
    /\ UNCHANGED <<now, cleanup, hands, overtaken>>

\* A row went since it was read: StaleDataError, and the pass is rolled back.
RollBack ==
    /\ job.at = "applying" /\ job.todo = {} /\ ~NothingDeleted
    /\ job' = NoPass
    /\ UNCHANGED <<now, alert, cluster, cleanup, request, hands, blameVars, overtaken>>

Quiet(k) == Active(k) /\ cluster[k].last_seen < now - InactiveWindow

\* Mutant: does not look at last_seen.
FindActive ==
    /\ job.at = "applied"
    /\ job' = [NoPass EXCEPT !.at = "closing", !.inactive = {k \in Keys : Active(k)}]
    /\ UNCHANGED <<now, alert, cluster, cleanup, request, hands, blameVars, overtaken>>

\* close_inactive_clusters reads ...
FindInactive ==
    /\ job.at = "applied"
    /\ LET inactive == {k \in Keys : Quiet(k)}
       IN  job' = IF inactive = {} THEN NoPass
                  ELSE [NoPass EXCEPT !.at = "closing", !.inactive = inactive]
    /\ UNCHANGED <<now, alert, cluster, cleanup, request, hands, blameVars, overtaken>>

\* ... and commits.
CloseInactive ==
    /\ job.at = "closing"
    /\ cluster' = [k \in Keys |->
                      IF k \in job.inactive
                      THEN [cluster[k] EXCEPT !.state = "closed", !.closed_at = now,
                                              !.reason = "timeout"]
                      ELSE cluster[k]]
    /\ job' = NoPass
    /\ overtaken' = [overtaken EXCEPT !.job = {}]
    /\ UNCHANGED <<now, alert, cleanup, request, hands, blameVars>>

JobStep ==
    \/ Read \/ (\E k \in Keys : LookUp(k)) \/ Commit \/ RollBack
    \/ FindInactive \/ CloseInactive

---------------------------------------------------------------------------
(* The cleanup                                                             *)

Expired(k) == cluster[k].state = "closed" /\ cluster[k].closed_at < now - Retention

\* Mutant: does not look at closed_at.
FindClosed ==
    /\ cleanup = {}
    /\ cleanup' = {k \in Keys : cluster[k].state = "closed"}
    /\ cleanup' # {}
    /\ UNCHANGED <<now, alert, cluster, job, request, hands, blameVars, overtaken>>

FindExpired ==
    /\ cleanup = {}
    /\ cleanup' = {k \in Keys : Expired(k)}
    /\ cleanup' # {}
    /\ UNCHANGED <<now, alert, cluster, job, request, hands, blameVars, overtaken>>

\* Unlinks and deletes, in one transaction.  It waits for a merge that has moved alerts
\* out of, or into, what it chose: their rows are locked, and so is the target's key.
DeleteExpired ==
    /\ cleanup # {}
    /\ request.moved = {} \/ cleanup \cap {request.source, request.target} = {}
    /\ cluster' = [k \in Keys |-> IF k \in cleanup THEN NoCluster ELSE cluster[k]]
    /\ alert' = [a \in Alerts |-> IF alert[a].cluster \in cleanup
                                  THEN [alert[a] EXCEPT !.cluster = NoKey] ELSE alert[a]]
    /\ cleanup' = {}
    /\ overtaken' = [overtaken EXCEPT !.cleanup = {}]
    /\ request' = [request EXCEPT !.gone = @ \cup (cleanup \cap {request.source, request.target})]
    /\ reused' = reused \ cleanup /\ thinned' = thinned \ cleanup /\ untold' = untold \ cleanup
    /\ UNCHANGED <<now, job, hands>>

---------------------------------------------------------------------------
(* The webhook and the handlers                                            *)

\* One handler runs at a time.
Handles ==
    /\ request = NoRequest
    /\ hands < HandBound
    /\ hands' = hands + 1
    /\ UNCHANGED <<now, job, cleanup, overtaken>>

Hand == Handles /\ request' = request

Home(a) == {alert[a].cluster} \ {NoKey}

\* A request with new alerts, each with its metrics unless its second commit fails.  Their
\* rows are none that the pass still holds.  What the threads commit between the alerts of
\* one request they commit between two requests.
Receive(new, timestamp, status, metrics) ==
    /\ Hand
    /\ new # {} /\ now - timestamp <= LateBound
    /\ \A a \in new : ~Stored(a) /\ a \notin UNION {job.group[k] : k \in Keys}
    /\ alert' = [a \in Alerts |->
                    IF a \in new
                    THEN [state |-> "stored", timestamp |-> timestamp, status |-> status,
                          cluster |-> NoKey, metrics |-> metrics]
                    ELSE alert[a]]
    /\ UNCHANGED <<cluster, blameVars>>

\* The same alert again: the status is what Alertmanager says, acknowledged or not, and
\* nobody looks at the cluster.
ReceiveAgain(a, status) ==
    /\ Hand
    /\ Stored(a) /\ alert[a].status # status
    /\ alert' = [alert EXCEPT ![a].status = status]
    /\ untold' = IF status = "resolved" THEN untold \cup Home(a) ELSE untold
    /\ UNCHANGED <<cluster, reused, thinned>>

Acknowledge(a) ==
    /\ Hand
    /\ Stored(a) /\ alert[a].status = "firing"
    /\ alert' = [alert EXCEPT ![a].status = "acknowledged"]
    /\ UNCHANGED <<cluster, blameVars>>

\* The alert and the incident its metrics tell of.
ResolvedRow(row) ==
    [row EXCEPT !.status = "resolved", !.metrics = IF @ = "open" THEN "resolved" ELSE @]

LastOpen(a) ==
    /\ alert[a].cluster # NoKey
    /\ Active(alert[a].cluster)
    /\ \A b \in Members(alert[a].cluster) \ {a} : alert[b].status = "resolved"

\* Mutant: resolves the last alert too, and leaves the cluster.
ResolveAny(a) ==
    /\ Hand
    /\ Stored(a) /\ alert[a] # ResolvedRow(alert[a])
    /\ alert' = [alert EXCEPT ![a] = ResolvedRow(@)]
    /\ UNCHANGED <<cluster, blameVars>>

\* Resolving the last open alert of an active cluster calls close_cluster, which the
\* service does not have: the request fails before its commit.
Resolve(a) ==
    /\ Hand
    /\ Stored(a) /\ alert[a] # ResolvedRow(alert[a])
    /\ ~LastOpen(a)
    /\ alert' = [alert EXCEPT ![a] = ResolvedRow(@)]
    /\ UNCHANGED <<cluster, blameVars>>

\* A successful run of a runbook for an alert whose incident is open: the executor
\* resolves both itself, and nobody looks at the cluster.
ResolveByRun(a) ==
    /\ Hand
    /\ Stored(a) /\ alert[a].metrics = "open"
    /\ alert' = [alert EXCEPT ![a] = ResolvedRow(@)]
    /\ untold' = IF alert[a].status = "resolved" THEN untold ELSE untold \cup Home(a)
    /\ UNCHANGED <<cluster, reused, thinned>>

\* The metrics of an alert are not deleted with it but set free of it, which their
\* NOT NULL column refuses: only an alert without metrics goes.  Nobody counts again.
Delete(a) ==
    /\ Hand
    /\ Stored(a) /\ alert[a].metrics = "none"
    /\ alert' = [alert EXCEPT ![a] = NoAlert]
    /\ thinned' = thinned \cup Home(a)
    /\ untold' = untold \cup Home(a)
    /\ UNCHANGED <<cluster, reused>>

\* The reason is whatever the user says, a time-out too.
Close(k, reason) ==
    /\ Handles
    /\ Active(k)
    /\ request' = [NoRequest EXCEPT !.at = "committing", !.source = k, !.source_row = cluster[k],
                                    !.reason = reason]
    /\ UNCHANGED <<alert, cluster, blameVars>>

\* Whether either cluster is closed is not asked.
Merge(source, target) ==
    /\ Handles
    /\ Exists(source) /\ Exists(target) /\ source # target
    /\ request' = [NoRequest EXCEPT !.at = "read", !.source = source, !.target = target,
                                    !.source_row = cluster[source],
                                    !.target_row = cluster[target], !.reason = "merged"]
    /\ UNCHANGED <<alert, cluster, blameVars>>

\* The members of a row that was read: a row of the same key is another row.
MembersOf(k) == IF k \in request.gone THEN {} ELSE Members(k)

threadVars == <<now, job, cleanup, hands>>

\* The bulk UPDATE.  Nobody else sees it yet.
Move ==
    /\ request.at = "read"
    /\ request.target \in request.gone => MembersOf(request.source) = {}
    /\ request' = [request EXCEPT !.at = "moved", !.moved = MembersOf(request.source)]
    /\ UNCHANGED <<threadVars, alert, cluster, blameVars, overtaken>>

\* update_stats reads what is linked to the target: what the merge moved, and what others
\* have committed.
Recount ==
    /\ request.at = "moved"
    /\ request' = [request EXCEPT !.at = "committing",
                                  !.members = request.moved \cup MembersOf(request.target)]
    /\ UNCHANGED <<threadVars, alert, cluster, blameVars, overtaken>>

\* update_stats: what it read, unless nothing is linked.
Counted(row) ==
    IF request.members = {} THEN row
    ELSE [row EXCEPT
             !.count = Written(request.target_row.count, Cardinality(request.members), @),
             !.last_seen = Written(request.target_row.last_seen, Latest(request.members), @)]

\* Mutant: does not say why.
ClosedSilently(row) == [row EXCEPT !.state = "closed", !.closed_at = now]

\* Mutant: leaves the source open.
StillOpen(row) == row

Closed(row) ==
    [row EXCEPT !.state = "closed", !.closed_at = now,
                !.reason = Written(request.source_row.reason, request.reason, @)]

\* The rows that the commit is about to update: the source, and the target if it was
\* counted.
Touched == {request.source} \cup (IF request.members = {} THEN {} ELSE {request.target})

CommitRequest ==
    /\ request.at = "committing"
    /\ request.gone \cap Touched = {}
    /\ cluster' = [k \in Keys |-> IF k = request.source THEN Closed(cluster[k])
                                  ELSE IF k \in Touched THEN Counted(cluster[k])
                                  ELSE cluster[k]]
    /\ alert' = [a \in Alerts |-> IF a \in request.moved
                                  THEN [alert[a] EXCEPT !.cluster = request.target] ELSE alert[a]]
    /\ reused' = IF request.crossed THEN reused ELSE reused \ (Touched \ {request.source})
    /\ thinned' = (thinned \ (Touched \ {request.source})) \cup
                     (IF request.target = NoKey THEN {} ELSE {request.source})
    /\ untold' = untold \cup (Keys \cap {request.target})
    /\ overtaken' = [job |-> overtaken.job \cup (Touched \cap job.inactive),
                     cleanup |-> overtaken.cleanup \cup (Touched \cap cleanup)]
    /\ request' = NoRequest
    /\ UNCHANGED threadVars

\* A row it read was deleted: the foreign key refuses the move, or the commit raises
\* StaleDataError.
LoseRequest ==
    /\ \/ /\ request.at = "read" /\ request.target \in request.gone
          /\ MembersOf(request.source) # {}
       \/ request.at = "committing" /\ request.gone \cap Touched # {}
    /\ request' = NoRequest
    /\ UNCHANGED <<threadVars, alert, cluster, blameVars, overtaken>>

HandStep ==
    \/ \E new \in SUBSET Alerts, timestamp \in 0 .. now, status \in Arriving,
          metrics \in {"none", "open"} : Receive(new, timestamp, status, metrics)
    \/ \E a \in Alerts :
          \/ \E status \in {"firing", "resolved"} : ReceiveAgain(a, status)
          \/ Acknowledge(a)
          \/ Resolve(a)
          \/ ResolveByRun(a)
          \/ Delete(a)
    \/ \E k \in Keys, reason \in {"manual", "timeout"} : Close(k, reason)
    \/ \E source, target \in Keys : Merge(source, target)
    \/ Move \/ Recount \/ CommitRequest \/ LoseRequest

\* A pass, a cleanup and a request end within the hour.
Tick ==
    /\ job = NoPass /\ cleanup = {} /\ request = NoRequest
    /\ now < TimeBound
    /\ now' = now + 1
    /\ UNCHANGED <<alert, cluster, job, cleanup, request, hands, blameVars, overtaken>>

Next == JobStep \/ FindExpired \/ DeleteExpired \/ HandStep \/ Tick

Spec == Init /\ [][Next]_vars

---------------------------------------------------------------------------
(* Properties                                                              *)

\* The figures a cluster shows are those of its alerts: their number and the latest of
\* them, whatever merges, deletions and passes ran at once.  Two things excuse it: the
\* job wrote the figures of one batch over a cluster that was there already
\* (alert_clustering_service.py:414-425), alone or while a merge counted its alerts; or
\* alerts left and nobody counted again.
StatsTellMembers ==
    \A k \in Keys : Exists(k) /\ k \notin reused \cup thinned =>
        /\ cluster[k].count = Cardinality(Members(k))
        /\ Members(k) # {}
        /\ cluster[k].last_seen = Latest(Members(k))

\* Nobody resolves all alerts of an active cluster by hand: the last one is refused
\* (alerts.py:472-480).  A cluster of resolved alerts that is still active got so by
\* the webhook, a runbook's success (runbook_executor.py:422-428), a deletion, a merge,
\* or the job linking what was resolved meanwhile.
OneStaysOpen ==
    \A k \in Keys : Active(k) /\ Members(k) # {} /\ k \notin untold =>
        \E a \in Members(k) : alert[a].status # "resolved"

\* The job times out a cluster that is active and quiet.  Only one that a handler wrote
\* between the two steps of close_inactive_clusters times out otherwise: it had been
\* closed for another reason, or had just been given recent alerts.
TimesOutWhenQuiet ==
    [][\A k \in Keys :
          job'.at # job.at /\ cluster'[k].reason = "timeout" /\ cluster[k].reason # "timeout" =>
             Quiet(k) \/ k \in overtaken.job]_vars

\* A cluster is deleted after its retention, unless a merge wrote it after the cleanup
\* had chosen it: then alerts that were moved into it a moment ago lose their cluster.
KeptForItsTime ==
    [][\A k \in Keys : Exists(k) /\ cluster'[k].state = "none" =>
          Expired(k) \/ k \in overtaken.cleanup]_vars

\* Whatever a pass, a cleanup or a merge held in its hands, an alert keeps its cluster:
\* it loses it only with the cluster, and changes it only for a cluster that is there,
\* by the merge that closes its own and that read both.
HomeIsKept ==
    [][\A a \in Alerts :
          alert'[a].state = "stored" /\ alert[a].cluster \notin {NoKey, alert'[a].cluster} =>
             IF alert'[a].cluster = NoKey THEN cluster'[alert[a].cluster].state = "none"
             ELSE /\ alert[a].cluster = request.source /\ alert'[a].cluster = request.target
                  /\ cluster'[request.source].state = "closed"
                  /\ Exists(request.target)]_vars

=============================================================================
