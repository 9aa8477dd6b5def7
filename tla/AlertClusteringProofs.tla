------------------------ MODULE AlertClusteringProofs ------------------------
(***************************************************************************)
(* Theorems about AlertClustering, for any alerts, keys and windows:       *)
(* types, the home of an alert, why a cluster closes and goes, and that    *)
(* its figures are those of its alerts.                                    *)
(***************************************************************************)
EXTENDS AlertClustering, FiniteSetTheorems, WellFoundedInduction, TLAPS

\* What a pass holds: disjoint groups of alerts that have no cluster yet, and of each
\* key that it looked up whether there was a cluster.  Only the pass makes clusters.
PassInv ==
    /\ job.at # "applying" => job.todo = {} /\ \A k \in Keys : job.group[k] = {}
    /\ job.at # "closing" => job.inactive = {}
    /\ \A k, l \in Keys : k # l => job.group[k] \cap job.group[l] = {}
    /\ \A k \in Keys : \A a \in job.group[k] : alert[a].cluster = NoKey
    /\ \A k \in Keys : k \notin job.todo /\ job.group[k] # {} /\ job.row[k].state = "none" => ~Exists(k)

\* What was chosen to be closed and to be deleted is as it was when it was chosen, or
\* a handler wrote it since.
ChosenInv ==
    /\ \A k \in job.inactive : /\ Quiet(k) \/ k \in overtaken.job
                               /\ Active(k) \/ (cluster[k].state = "closed" /\ cluster[k].closed_at = now)
    /\ \A k \in cleanup : cluster[k].state = "closed" /\ (Expired(k) \/ k \in overtaken.cleanup)
    /\ job.inactive \cap cleanup = {}

\* The figures a merge read of its target are those of the row, and what it counted are its
\* alerts, unless the job wrote them since.
CountInv(k) ==
    IF request.crossed THEN k \in reused
    ELSE /\ cluster[k].count = request.target_row.count
         /\ cluster[k].last_seen = request.target_row.last_seen
         /\ request.at = "committing" => request.members = request.moved \cup Members(k)

\* What a request holds: the alerts it moved are still those of its source, and its rows
\* are there unless they are known to be gone.
RequestInv ==
    /\ request.at = "idle" => request = NoRequest
    /\ request.at # "idle" => /\ request.source \in Keys /\ request.source # request.target
                              /\ request.reason # "none"
    /\ request.at \in {"read", "moved"} => request.target \in Keys
    /\ request.at = "read" => request.moved = {}
    /\ request.at = "committing" => request.moved \subseteq request.members
    /\ request.target = NoKey => request.moved = {} /\ request.members = {}
    /\ \A a \in request.moved : alert[a].cluster = request.source
    /\ request.moved # {} => request.source \notin request.gone /\ request.target \notin request.gone
    /\ \A k \in Keys : k \in {request.source, request.target} \ request.gone => Exists(k)
    /\ request.source \notin request.gone /\ request.source_row.reason # "none" =>
          cluster[request.source].state = "closed"
    /\ request.target \in Keys /\ request.target \notin request.gone => CountInv(request.target)

RowInv == TypeOK /\ PassInv

TypeInv == RowInv /\ RequestInv

---------------------------------------------------------------------------
(* The latest alert of a set                                               *)

LEMMA Top ==
    ASSUME NEW T \in SUBSET Nat, NEW b \in Nat, T # {}, \A t \in T : t <= b
    PROVE  \E t \in T : \A u \in T : u <= t
<1> DEFINE S == {n \in Nat : b - n \in T}
<1>1. S \subseteq Nat /\ S # {}
  <2>1. PICK t \in T : TRUE
    OBVIOUS
  <2>2. b - t \in Nat /\ b - (b - t) = t
    BY <2>1
  <2> QED BY <2>1, <2>2
<1>2. IsWellFoundedOn(OpToRel(<, Nat), Nat)
  BY NatLessThanWellFounded
<1>3. \E n \in S : \A m \in S : ~(<<m, n>> \in OpToRel(<, Nat))
  <2> HIDE DEF S
  <2> QED BY <1>1, <1>2, WFMin
<1>4. PICK n \in S : \A m \in S : ~(m < n)
  BY <1>1, <1>3 DEF OpToRel
<1>5. ASSUME NEW u \in T PROVE u <= b - n
  <2>1. b - u \in Nat /\ b - (b - u) = u
    OBVIOUS
  <2>2. b - u \in S
    BY <2>1
  <2>3. ~(b - u < n)
    BY <1>4, <2>2
  <2> QED BY <1>4, <2>1, <2>3
<1> QED BY <1>4, <1>5

LatestIn(rows, S) == CHOOSE t \in {rows[a].timestamp : a \in S} : \A a \in S : rows[a].timestamp <= t

LEMMA LatestIsLatest ==
    ASSUME NEW rows \in [Alerts -> AlertRow], NEW S \in SUBSET Alerts, S # {}
    PROVE  /\ LatestIn(rows, S) \in 0 .. TimeBound
           /\ \E a \in S : LatestIn(rows, S) = rows[a].timestamp
           /\ \A a \in S : rows[a].timestamp <= LatestIn(rows, S)
<1> DEFINE T == {rows[a].timestamp : a \in S}
<1>1. TimeBound \in Nat
  BY WindowsAssumption
<1>2. \A a \in S : rows[a].timestamp \in 0 .. TimeBound
  BY DEF AlertRow
<1>3. T \in SUBSET Nat /\ T # {} /\ \A t \in T : t <= TimeBound
  BY <1>1, <1>2
<1>4. \E t \in T : \A u \in T : u <= t
  <2> HIDE DEF T
  <2> QED BY <1>1, <1>3, Top
<1>5. \E t \in T : \A a \in S : rows[a].timestamp <= t
  BY <1>4
<1>6. LatestIn(rows, S) \in T /\ \A a \in S : rows[a].timestamp <= LatestIn(rows, S)
  BY <1>5 DEF LatestIn
<1> QED BY <1>2, <1>6

LEMMA SameLatest ==
    ASSUME NEW rows \in [Alerts -> AlertRow], NEW other \in [Alerts -> AlertRow],
           NEW S \in SUBSET Alerts, S # {}, \A a \in S : other[a].timestamp = rows[a].timestamp
    PROVE  LatestIn(other, S) = LatestIn(rows, S)
<1>1. LatestIn(rows, S) \in Int /\ LatestIn(other, S) \in Int
  BY LatestIsLatest
<1>2. LatestIn(rows, S) <= LatestIn(other, S) /\ LatestIn(other, S) <= LatestIn(rows, S)
  <2>1. PICK a \in S : LatestIn(rows, S) = rows[a].timestamp
    BY LatestIsLatest
  <2>2. PICK b \in S : LatestIn(other, S) = other[b].timestamp
    BY LatestIsLatest
  <2>3. other[a].timestamp <= LatestIn(other, S) /\ rows[b].timestamp <= LatestIn(rows, S)
    BY LatestIsLatest
  <2> QED BY <2>1, <2>2, <2>3
<1> QED BY <1>1, <1>2

---------------------------------------------------------------------------
(* What the steps do, row by row                                           *)

LEMMA TypesNow ==
    ASSUME TypeOK
    PROVE  /\ now \in 0 .. TimeBound /\ alert \in [Alerts -> AlertRow] /\ cluster \in [Keys -> ClusterRow]
           /\ job \in Pass /\ cleanup \in SUBSET Keys /\ request \in Request /\ hands \in 0 .. HandBound
           /\ reused \in SUBSET Keys /\ thinned \in SUBSET Keys /\ untold \in SUBSET Keys
           /\ overtaken \in [job : SUBSET Keys, cleanup : SUBSET Keys]
           /\ \A k \in Keys : (cluster[k].state = "closed") <=> (cluster[k].reason # "none")
           /\ \A a \in Alerts : alert[a].cluster # NoKey =>
                 alert[a].state = "stored" /\ alert[a].cluster \in Keys /\ Exists(alert[a].cluster)
BY DEF TypeOK, Exists, AlertRow

LEMMA TypesNext ==
    ASSUME now' \in 0 .. TimeBound, alert' \in [Alerts -> AlertRow], cluster' \in [Keys -> ClusterRow],
           job' \in Pass, cleanup' \in SUBSET Keys, request' \in Request, hands' \in 0 .. HandBound,
           reused' \in SUBSET Keys, thinned' \in SUBSET Keys, untold' \in SUBSET Keys,
           overtaken' \in [job : SUBSET Keys, cleanup : SUBSET Keys],
           \A k \in Keys : (cluster'[k].state = "closed") <=> (cluster'[k].reason # "none"),
           \A a \in Alerts : alert'[a].cluster # NoKey =>
              alert'[a].state = "stored" /\ cluster'[alert'[a].cluster].state # "none"
    PROVE  TypeOK'
BY DEF TypeOK

LEMMA NoPassType ==
    /\ NoCluster \in ClusterRow /\ NoCluster.state = "none" /\ NoCluster.reason = "none"
    /\ NoAlert \in AlertRow /\ NoAlert.cluster = NoKey /\ NoAlert.state = "absent"
    /\ NoPass \in Pass /\ NoPass.at = "idle" /\ NoPass.todo = {} /\ NoPass.inactive = {}
    /\ \A k \in Keys : NoPass.group[k] = {}
    /\ NoRequest \in Request /\ NoRequest.at = "idle" /\ NoRequest.source = NoKey
    /\ NoRequest.target = NoKey /\ NoRequest.moved = {} /\ NoRequest.members = {}
    /\ NoRequest.source_row.reason = "none" /\ NoRequest.crossed = FALSE /\ NoRequest.gone = {}
<1>1. NoCluster \in ClusterRow /\ NoCluster.state = "none" /\ NoCluster.reason = "none"
  <2>1. Cardinality(Alerts) \in Nat /\ TimeBound \in Nat
    BY KeysAssumption, WindowsAssumption, FS_CardinalityType
  <2> QED BY <2>1 DEF NoCluster, ClusterRow
<1>2. NoAlert \in AlertRow /\ NoAlert.cluster = NoKey /\ NoAlert.state = "absent"
  BY WindowsAssumption DEF NoAlert, AlertRow
<1>3. /\ NoPass \in Pass /\ NoPass.at = "idle" /\ NoPass.todo = {} /\ NoPass.inactive = {}
      /\ \A k \in Keys : NoPass.group[k] = {}
  BY <1>1 DEF NoPass, Pass
<1>4. /\ NoRequest \in Request /\ NoRequest.at = "idle" /\ NoRequest.source = NoKey
      /\ NoRequest.target = NoKey /\ NoRequest.moved = {} /\ NoRequest.members = {}
      /\ NoRequest.source_row.reason = "none" /\ NoRequest.crossed = FALSE /\ NoRequest.gone = {}
  BY <1>1 DEF NoRequest, Request
<1> QED BY <1>1, <1>2, <1>3, <1>4

LEMMA CountType ==
    ASSUME NEW S \in SUBSET Alerts
    PROVE  IsFiniteSet(S) /\ Cardinality(S) \in 0 .. Cardinality(Alerts)
BY KeysAssumption, FS_Subset, FS_CardinalityType

\* The alerts of one key are linked to it, and the row of the key is written.
Links(k) == \A a \in job.group[k] : alert'[a].cluster = k

Writes(k) ==
    IF job.row[k].state = "none"
    THEN /\ cluster'[k].state = "active" /\ cluster'[k].reason = "none"
         /\ cluster'[k].count = Cardinality(job.group[k]) /\ cluster'[k].last_seen = Latest(job.group[k])
    ELSE /\ Exists(k) /\ cluster'[k].state = cluster[k].state
         /\ cluster'[k].reason = cluster[k].reason /\ cluster'[k].closed_at = cluster[k].closed_at

LEMMA AppliedType ==
    ASSUME TypeInv, NEW k \in Keys, job.group[k] # {}, NothingDeleted
    PROVE  /\ Applied(k) \in ClusterRow
           /\ job.row[k].state = "none" =>
                /\ Applied(k).state = "active" /\ Applied(k).reason = "none"
                /\ Applied(k).count = Cardinality(job.group[k])
                /\ Applied(k).last_seen = Latest(job.group[k])
           /\ job.row[k].state # "none" =>
                /\ Exists(k) /\ Applied(k).state = cluster[k].state
                /\ Applied(k).reason = cluster[k].reason /\ Applied(k).closed_at = cluster[k].closed_at
<1> DEFINE n == Cardinality(job.group[k])
           t == Latest(job.group[k])
<1>1. n \in 0 .. Cardinality(Alerts) /\ t \in 0 .. TimeBound
  <2>1. job.group[k] \in SUBSET Alerts /\ alert \in [Alerts -> AlertRow]
    BY TypesNow DEF TypeInv, RowInv, Pass
  <2>2. t = LatestIn(alert, job.group[k])
    BY DEF Latest, LatestIn
  <2> QED BY <2>1, <2>2, CountType, LatestIsLatest
<1>2. cluster[k] \in ClusterRow /\ job.row[k] \in ClusterRow
  BY TypesNow DEF TypeInv, RowInv, Pass
<1>3. CASE job.row[k].state = "none"
  <2>1. Applied(k) = [NoCluster EXCEPT !.state = "active", !.count = n, !.last_seen = t]
    BY <1>3 DEF Applied
  <2> HIDE DEF n, t
  <2>2. Applied(k) = [state |-> "active", count |-> n, last_seen |-> t, closed_at |-> 0, reason |-> "none"]
    BY <2>1 DEF NoCluster
  <2>3. Applied(k) \in ClusterRow
    BY <1>1, <2>2, WindowsAssumption DEF ClusterRow
  <2> QED BY <1>3, <2>2, <2>3 DEF n, t
<1>4. CASE job.row[k].state # "none"
  <2> DEFINE m == Written(job.row[k].count, n, cluster[k].count)
             u == Written(job.row[k].last_seen, t, cluster[k].last_seen)
  <2>1. m \in 0 .. Cardinality(Alerts) /\ u \in 0 .. TimeBound
    BY <1>1, <1>2 DEF Written, ClusterRow
  <2>2. Applied(k) = [cluster[k] EXCEPT !.count = m, !.last_seen = u]
    BY <1>2, <1>4 DEF Applied, ClusterRow
  <2>3. Exists(k)
    BY <1>4 DEF NothingDeleted
  <2> HIDE DEF m, u
  <2> QED BY <1>2, <1>4, <2>1, <2>2, <2>3 DEF ClusterRow
<1> QED BY <1>3, <1>4

LEMMA CommitEffect ==
    ASSUME TypeInv, Commit
    PROVE  /\ job.at = "applying" /\ job.todo = {} /\ NothingDeleted
           /\ job' \in Pass /\ job'.at = "applied" /\ job'.todo = {} /\ job'.inactive = {}
           /\ \A k \in Keys : job'.group[k] = {}
           /\ alert' \in [Alerts -> AlertRow] /\ cluster' \in [Keys -> ClusterRow]
           /\ \A a \in Alerts : /\ alert'[a].state = alert[a].state
                                /\ alert'[a].status = alert[a].status
                                /\ alert'[a].timestamp = alert[a].timestamp
                                /\ (\A k \in Keys : a \notin job.group[k]) => alert'[a] = alert[a]
           /\ \A k \in Keys : IF job.group[k] = {} THEN cluster'[k] = cluster[k] ELSE Links(k) /\ Writes(k)
           /\ \A k \in Keys : k \notin reused' =>
                k \notin reused /\ (job.group[k] # {} => job.row[k].state = "none")
           /\ \A k \in Keys : k \notin thinned' =>
                k \notin thinned \/ (job.group[k] # {} /\ job.row[k].state = "none")
           /\ \A k \in Keys : k \notin untold' =>
                /\ k \notin untold \/ (job.group[k] # {} /\ job.row[k].state = "none")
                /\ \A a \in job.group[k] : alert[a].status # "resolved"
           /\ reused' \in SUBSET Keys /\ thinned' \in SUBSET Keys /\ untold' \in SUBSET Keys
           /\ UNCHANGED <<now, cleanup, hands, overtaken>>
           /\ request' = [request EXCEPT !.crossed = request'.crossed]
           /\ request'.crossed \in BOOLEAN
           /\ \A k \in Keys : request.target = k => (request'.crossed <=> request.crossed \/ job.group[k] # {})
           /\ \A k \in Keys : k \in reused \/ (job.group[k] # {} /\ job.row[k].state # "none") => k \in reused'
<1> DEFINE keys == {k \in Keys : job.group[k] # {}}
           old == {k \in keys : job.row[k].state # "none"}
           homeOf(a) == CHOOSE k \in keys : a \in job.group[k]
<1>0. /\ alert \in [Alerts -> AlertRow] /\ job.group \in [Keys -> SUBSET Alerts]
      /\ cluster \in [Keys -> ClusterRow]
      /\ reused \in SUBSET Keys /\ thinned \in SUBSET Keys /\ untold \in SUBSET Keys
      /\ \A k, l \in Keys : k # l => job.group[k] \cap job.group[l] = {}
      /\ \A k \in Keys : \A a \in job.group[k] : alert[a].cluster = NoKey
  BY TypesNow DEF TypeInv, RowInv, PassInv, Pass
<1>1. /\ job.at = "applying" /\ job.todo = {} /\ NothingDeleted
      /\ UNCHANGED <<now, cleanup, hands, overtaken>>
  BY DEF Commit
<1>2. /\ job' \in Pass /\ job'.at = "applied" /\ job'.todo = {} /\ job'.inactive = {}
      /\ \A k \in Keys : job'.group[k] = {}
  <2>1. job' = [NoPass EXCEPT !.at = "applied"]
    BY DEF Commit
  <2> QED BY <2>1, NoPassType DEF Pass
<1>3. cluster' = [k \in Keys |-> IF k \in keys THEN Applied(k) ELSE cluster[k]]
  BY DEF Commit
<1>4. alert' = [a \in Alerts |->
                   IF \E k \in keys : a \in job.group[k] /\ alert[a].cluster = NoKey
                   THEN [alert[a] EXCEPT !.cluster = homeOf(a)] ELSE alert[a]]
  BY DEF Commit
<1>5. /\ reused' = reused \cup old /\ thinned' = thinned \ (keys \ old)
      /\ untold' = (untold \ (keys \ old)) \cup
            {k \in keys : \E a \in job.group[k] : alert[a].status = "resolved"}
  BY DEF Commit
<1>6. ASSUME NEW a \in Alerts
      PROVE  /\ alert'[a] \in AlertRow
             /\ alert'[a].state = alert[a].state /\ alert'[a].status = alert[a].status
             /\ alert'[a].timestamp = alert[a].timestamp
             /\ (\A k \in Keys : a \notin job.group[k]) => alert'[a] = alert[a]
             /\ \A k \in Keys : a \in job.group[k] => alert'[a].cluster = k
  <2>1. CASE \E k \in keys : a \in job.group[k] /\ alert[a].cluster = NoKey
    <3>1. alert'[a] = [alert[a] EXCEPT !.cluster = homeOf(a)]
      BY <1>4, <2>1
    <3>2. homeOf(a) \in keys /\ a \in job.group[homeOf(a)]
      BY <2>1
    <3>3. \A k \in Keys : a \in job.group[k] => homeOf(a) = k
      BY <1>0, <3>2
    <3> HIDE DEF homeOf
    <3> QED BY <1>0, <3>1, <3>2, <3>3 DEF AlertRow
  <2>2. CASE ~\E k \in keys : a \in job.group[k] /\ alert[a].cluster = NoKey
    <3>1. \A k \in Keys : a \notin job.group[k]
      BY <1>0, <2>2
    <3>2. alert'[a] = alert[a]
      BY <1>4, <2>2
    <3> QED BY <1>0, <3>1, <3>2
  <2> QED BY <2>1, <2>2
<1>7. alert' \in [Alerts -> AlertRow]
  BY <1>4, <1>6
<1>8. ASSUME NEW k \in Keys
      PROVE  /\ cluster'[k] \in ClusterRow
             /\ IF job.group[k] = {} THEN cluster'[k] = cluster[k] ELSE Links(k) /\ Writes(k)
  <2>1. CASE job.group[k] = {}
    BY <1>0, <1>3, <2>1
  <2>2. CASE job.group[k] # {}
    <3>1. cluster'[k] = Applied(k)
      BY <1>3, <2>2
    <3>2. Links(k)
      BY <1>0, <1>6 DEF Links
    <3>3. Writes(k)
      BY <1>1, <2>2, <3>1, AppliedType DEF Writes
    <3> QED BY <1>1, <2>2, <3>1, <3>2, <3>3, AppliedType
  <2> QED BY <2>1, <2>2
<1>9. cluster' \in [Keys -> ClusterRow]
  BY <1>3, <1>8
<1>10. reused' \in SUBSET Keys /\ thinned' \in SUBSET Keys /\ untold' \in SUBSET Keys
  BY <1>0, <1>5
<1>11. /\ \A k \in Keys : k \notin reused' =>
             k \notin reused /\ (job.group[k] # {} => job.row[k].state = "none")
       /\ \A k \in Keys : k \notin thinned' =>
             k \notin thinned \/ (job.group[k] # {} /\ job.row[k].state = "none")
       /\ \A k \in Keys : k \notin untold' =>
             /\ k \notin untold \/ (job.group[k] # {} /\ job.row[k].state = "none")
             /\ \A a \in job.group[k] : alert[a].status # "resolved"
  BY <1>5
<1>12. /\ request' = [request EXCEPT !.crossed = request'.crossed]
       /\ request'.crossed \in BOOLEAN
       /\ \A k \in Keys : request.target = k => (request'.crossed <=> request.crossed \/ job.group[k] # {})
  <2> DEFINE b == request.crossed \/ request.target \in keys
  <2>1. request' = [request EXCEPT !.crossed = b] /\ request \in Request
    BY TypesNow DEF Commit, TypeInv, RowInv, Request
  <2>2. b \in BOOLEAN /\ \A k \in Keys : request.target = k => (b <=> request.crossed \/ job.group[k] # {})
    BY <2>1, ZenonT(30) DEF Request
  <2> HIDE DEF b
  <2>3. request'.crossed = b
    BY <2>1 DEF Request
  <2>4. request' = [request EXCEPT !.crossed = request'.crossed]
    BY <2>1, <2>3
  <2> QED BY <2>2, <2>3, <2>4, ZenonT(30)
<1>13. \A k \in Keys : k \in reused \/ (job.group[k] # {} /\ job.row[k].state # "none") => k \in reused'
  BY <1>5
<1> QED BY <1>1, <1>2, <1>6, <1>7, <1>8, <1>9, <1>10, <1>11, <1>12, <1>13

LEMMA GroupingsAreDisjoint ==
    ASSUME NEW S \in SUBSET Alerts, NEW g \in Groupings(S)
    PROVE  /\ g \in [Keys -> SUBSET Alerts]
           /\ \A k \in Keys : g[k] \subseteq S
           /\ \A k, l \in Keys : k # l => g[k] \cap g[l] = {}
<1>1. PICK storm \in [Alone(S) -> Storms \cup {NoKey}] :
         g = [k \in Keys |-> IF k \in Storms THEN {a \in Alone(S) : storm[a] = k} ELSE Exact(S, k)]
  BY DEF Groupings
<1>2. \A k \in Keys : Exact(S, k) \subseteq {a \in S : Identity[a] = k}
  BY DEF Exact
<1>3. Alone(S) \subseteq S /\ \A k \in Keys : Alone(S) \cap Exact(S, k) = {}
  BY DEF Alone
<1>4. \A k \in Keys : g[k] = IF k \in Storms THEN {a \in Alone(S) : storm[a] = k} ELSE Exact(S, k)
  BY <1>1
<1>5. \A k \in Keys : g[k] \subseteq S
  BY <1>2, <1>3, <1>4
<1>6. g \in [Keys -> SUBSET Alerts]
  BY <1>1, <1>4, <1>5
<1>7. ASSUME NEW k \in Keys, NEW l \in Keys, k # l, NEW a, a \in g[k], a \in g[l] PROVE FALSE
  <2>1. CASE k \in Storms /\ l \in Storms
    BY <1>4, <1>7, <2>1
  <2>2. CASE k \notin Storms /\ l \notin Storms
    <3>1. a \in Exact(S, k) /\ a \in Exact(S, l)
      BY <1>4, <1>7, <2>2
    <3>2. Identity[a] = k /\ Identity[a] = l
      BY <1>2, <3>1
    <3> QED BY <1>7, <3>2
  <2>3. CASE k \in Storms /\ l \notin Storms
    <3>1. a \in Alone(S) /\ a \in Exact(S, l)
      BY <1>4, <1>7, <2>3
    <3> QED BY <1>3, <3>1
  <2>4. CASE k \notin Storms /\ l \in Storms
    <3>1. a \in Exact(S, k) /\ a \in Alone(S)
      BY <1>4, <1>7, <2>4
    <3> QED BY <1>3, <3>1
  <2> QED BY <2>1, <2>2, <2>3, <2>4
<1> QED BY <1>5, <1>6, <1>7

\* The tables and the history stay as they are.
TablesKept ==
    UNCHANGED <<now, alert, cluster, cleanup, request, hands, reused, thinned, untold>>

LEMMA ReadEffect ==
    ASSUME TypeInv, Read
    PROVE  /\ job' \in Pass /\ job'.at \in {"applying", "applied"} /\ job'.inactive = {}
           /\ job'.at = "applied" => job'.todo = {} /\ \A k \in Keys : job'.group[k] = {}
           /\ \A k \in Keys : k \notin job'.todo => job'.group[k] = {}
           /\ \A k, l \in Keys : k # l => job'.group[k] \cap job'.group[l] = {}
           /\ \A k \in Keys : \A a \in job'.group[k] : alert[a].cluster = NoKey
           /\ TablesKept /\ UNCHANGED overtaken
<1>1. PICK g \in Groupings(Unclustered) :
        job' = [NoPass EXCEPT !.at = IF {k \in Keys : g[k] # {}} = {} THEN "applied" ELSE "applying",
                              !.group = g, !.todo = {k \in Keys : g[k] # {}}]
  BY DEF Read
<1>2. Unclustered \in SUBSET Alerts /\ \A a \in Unclustered : alert[a].cluster = NoKey
  BY DEF Unclustered
<1>3. /\ g \in [Keys -> SUBSET Alerts] /\ \A k \in Keys : g[k] \subseteq Unclustered
      /\ \A k, l \in Keys : k # l => g[k] \cap g[l] = {}
  BY <1>2, GroupingsAreDisjoint
<1> DEFINE todo == {k \in Keys : g[k] # {}}
           at == IF todo = {} THEN "applied" ELSE "applying"
<1>4. todo \in SUBSET Keys /\ \A k \in Keys : k \notin todo => g[k] = {}
  OBVIOUS
<1>5. /\ job' = [NoPass EXCEPT !.at = at, !.group = g, !.todo = todo]
      /\ at \in {"applied", "applying"} /\ (at = "applied" => todo = {})
  BY <1>1
<1> HIDE DEF todo, at
<1>6. job' \in Pass /\ job'.at = at /\ job'.inactive = {} /\ job'.group = g /\ job'.todo = todo
  BY <1>3, <1>4, <1>5, NoPassType DEF Pass
<1> QED BY <1>2, <1>3, <1>4, <1>5, <1>6 DEF Read, TablesKept, blameVars

LEMMA LookUpEffect ==
    ASSUME TypeInv, NEW k \in Keys, LookUp(k)
    PROVE  /\ job.at = "applying" /\ job' \in Pass /\ job'.at = "applying" /\ job'.inactive = {}
           /\ job'.todo = job.todo \ {k} /\ job'.row[k] = cluster[k]
           /\ \A l \in Keys : job'.group[l] \subseteq job.group[l]
           /\ \A l \in Keys : l # k => job'.row[l] = job.row[l] /\ job'.group[l] = job.group[l]
           /\ TablesKept /\ UNCHANGED overtaken
<1>1. job \in Pass /\ cluster[k] \in ClusterRow /\ job.inactive = {}
  BY TypesNow DEF TypeInv, RowInv, PassInv, LookUp
<1> DEFINE r == [job.row EXCEPT ![k] = cluster[k]]
           g == [job.group EXCEPT ![k] = {a \in job.group[k] : Stored(a)}]
<1>2. /\ r \in [Keys -> ClusterRow] /\ g \in [Keys -> SUBSET Alerts]
      /\ r[k] = cluster[k] /\ \A l \in Keys : l # k => r[l] = job.row[l] /\ g[l] = job.group[l]
      /\ \A l \in Keys : g[l] \subseteq job.group[l]
  BY <1>1 DEF Pass
<1>3. job' = [job EXCEPT !.todo = job.todo \ {k}, !.row = r, !.group = g]
  BY <1>1 DEF LookUp, Pass
<1> HIDE DEF r, g
<1>4. /\ job' \in Pass /\ job'.at = job.at /\ job'.inactive = job.inactive
      /\ job'.todo = job.todo \ {k} /\ job'.row = r /\ job'.group = g
  BY <1>1, <1>2, <1>3 DEF Pass
<1> QED BY <1>1, <1>2, <1>4 DEF LookUp, TablesKept, blameVars

LEMMA RollBackEffect ==
    ASSUME TypeInv, RollBack
    PROVE  job' = NoPass /\ TablesKept /\ UNCHANGED overtaken
BY DEF RollBack, TablesKept, blameVars

LEMMA FindInactiveEffect ==
    ASSUME TypeInv, FindInactive
    PROVE  /\ job' \in Pass /\ job'.at \in {"idle", "closing"} /\ job'.todo = {}
           /\ \A k \in Keys : job'.group[k] = {}
           /\ job'.inactive = {k \in Keys : Quiet(k)}
           /\ job'.at = "idle" => job'.inactive = {}
           /\ TablesKept /\ UNCHANGED overtaken
<1> DEFINE quiet == {k \in Keys : Quiet(k)}
<1>1. CASE quiet = {}
  BY <1>1, NoPassType DEF FindInactive, TablesKept, blameVars
<1>2. CASE quiet # {}
  <2>1. quiet \in SUBSET Keys /\ job' = [NoPass EXCEPT !.at = "closing", !.inactive = quiet]
    BY <1>2 DEF FindInactive
  <2> HIDE DEF quiet
  <2>2. /\ job' \in Pass /\ job'.at = "closing" /\ job'.todo = {} /\ job'.inactive = quiet
        /\ \A k \in Keys : job'.group[k] = {}
    BY <2>1, NoPassType DEF Pass
  <2> QED BY <2>2 DEF FindInactive, TablesKept, blameVars, quiet
<1> QED BY <1>1, <1>2

LEMMA CloseInactiveEffect ==
    ASSUME TypeInv, CloseInactive
    PROVE  /\ job' = NoPass /\ cluster' \in [Keys -> ClusterRow]
           /\ \A k \in Keys : IF k \in job.inactive
                              THEN cluster'[k].state = "closed" /\ cluster'[k].reason = "timeout"
                              ELSE cluster'[k] = cluster[k]
           /\ \A k \in Keys : cluster'[k].count = cluster[k].count /\ cluster'[k].last_seen = cluster[k].last_seen
           /\ UNCHANGED <<now, alert, cleanup, request, hands, reused, thinned, untold>>
           /\ overtaken' \in [job : SUBSET Keys, cleanup : SUBSET Keys]
           /\ overtaken'.cleanup = overtaken.cleanup
<1>1. /\ now \in 0 .. TimeBound /\ cluster \in [Keys -> ClusterRow]
      /\ overtaken \in [job : SUBSET Keys, cleanup : SUBSET Keys]
  BY TypesNow DEF TypeInv, RowInv
<1>2. \A k \in Keys : cluster'[k] = IF k \in job.inactive
                                    THEN [cluster[k] EXCEPT !.state = "closed", !.closed_at = now,
                                                            !.reason = "timeout"]
                                    ELSE cluster[k]
  BY DEF CloseInactive
<1>3. ASSUME NEW k \in Keys
      PROVE  /\ cluster'[k] \in ClusterRow
             /\ IF k \in job.inactive
                THEN cluster'[k].state = "closed" /\ cluster'[k].reason = "timeout"
                ELSE cluster'[k] = cluster[k]
             /\ cluster'[k].count = cluster[k].count /\ cluster'[k].last_seen = cluster[k].last_seen
  <2>1. CASE k \in job.inactive
    BY <1>1, <1>2, <2>1 DEF ClusterRow
  <2>2. CASE k \notin job.inactive
    BY <1>1, <1>2, <2>2
  <2> QED BY <2>1, <2>2
<1>4. cluster' \in [Keys -> ClusterRow]
  BY <1>3 DEF CloseInactive
<1> QED BY <1>1, <1>3, <1>4 DEF CloseInactive, blameVars

LEMMA FindExpiredEffect ==
    ASSUME TypeInv, FindExpired
    PROVE  /\ cleanup = {} /\ cleanup' = {k \in Keys : Expired(k)}
           /\ UNCHANGED <<now, alert, cluster, job, request, hands, reused, thinned, untold, overtaken>>
BY DEF FindExpired, blameVars

LEMMA DeleteExpiredEffect ==
    ASSUME TypeInv, DeleteExpired
    PROVE  /\ cleanup' = {} /\ alert' \in [Alerts -> AlertRow] /\ cluster' \in [Keys -> ClusterRow]
           /\ \A k \in Keys : cluster'[k] = IF k \in cleanup THEN NoCluster ELSE cluster[k]
           /\ \A a \in Alerts : /\ alert[a].cluster \notin cleanup => alert'[a] = alert[a]
                                /\ alert[a].cluster \in cleanup => alert'[a].cluster = NoKey
                                /\ alert'[a].status = alert[a].status
                                /\ alert'[a].timestamp = alert[a].timestamp
           /\ reused' = reused \ cleanup /\ thinned' = thinned \ cleanup /\ untold' = untold \ cleanup
           /\ UNCHANGED <<now, job, hands>>
           /\ overtaken' \in [job : SUBSET Keys, cleanup : SUBSET Keys]
           /\ overtaken'.job = overtaken.job
           /\ request.moved # {} => request.source \notin cleanup /\ request.target \notin cleanup
           /\ request' \in Request
           /\ request' = [request EXCEPT !.gone =
                             request.gone \cup (cleanup \cap {request.source, request.target})]
<1>1. alert \in [Alerts -> AlertRow] /\ cluster \in [Keys -> ClusterRow]
  BY TypesNow DEF TypeInv, RowInv
<1>2. \A a \in Alerts : alert'[a] = IF alert[a].cluster \in cleanup
                                    THEN [alert[a] EXCEPT !.cluster = NoKey] ELSE alert[a]
  BY DEF DeleteExpired
<1>3. ASSUME NEW a \in Alerts
      PROVE  /\ alert'[a] \in AlertRow
             /\ alert[a].cluster \notin cleanup => alert'[a] = alert[a]
             /\ alert[a].cluster \in cleanup => alert'[a].cluster = NoKey
             /\ alert'[a].status = alert[a].status /\ alert'[a].timestamp = alert[a].timestamp
  BY <1>1, <1>2 DEF AlertRow
<1>4. alert' \in [Alerts -> AlertRow]
  BY <1>3 DEF DeleteExpired
<1>5. cluster' \in [Keys -> ClusterRow]
      /\ \A k \in Keys : cluster'[k] = IF k \in cleanup THEN NoCluster ELSE cluster[k]
  BY <1>1, NoPassType DEF DeleteExpired
<1>6. /\ overtaken' \in [job : SUBSET Keys, cleanup : SUBSET Keys]
      /\ overtaken'.job = overtaken.job
  BY TypesNow DEF DeleteExpired, TypeInv, RowInv
<1>7. request.moved # {} => request.source \notin cleanup /\ request.target \notin cleanup
  BY DEF DeleteExpired
<1>8. /\ request' \in Request
      /\ request' = [request EXCEPT !.gone =
                        request.gone \cup (cleanup \cap {request.source, request.target})]
  <2> DEFINE g == request.gone \cup (cleanup \cap {request.source, request.target})
  <2>1. request \in Request /\ cleanup \in SUBSET Keys
    BY TypesNow DEF TypeInv, RowInv
  <2>2. g \in SUBSET (Keys \cup {NoKey}) /\ request' = [request EXCEPT !.gone = g]
    BY <2>1 DEF DeleteExpired, Request
  <2> HIDE DEF g
  <2>3. request' \in Request
    BY <2>1, <2>2 DEF Request
  <2> QED BY <2>2, <2>3 DEF g
<1> QED BY <1>3, <1>4, <1>5, <1>6, <1>7, <1>8 DEF DeleteExpired

LEMMA HandlesEffect ==
    ASSUME TypeInv, Handles
    PROVE  request = NoRequest /\ hands' \in 0 .. HandBound /\ UNCHANGED <<now, job, cleanup, overtaken>>
<1>1. hands \in 0 .. HandBound /\ HandBound \in Nat
  BY TypesNow, WindowsAssumption DEF TypeInv, RowInv
<1> QED BY <1>1 DEF Handles

\* A handler changes alerts and no cluster.
AlertsOnly ==
    /\ alert' \in [Alerts -> AlertRow] /\ hands' \in 0 .. HandBound /\ request = NoRequest
    /\ UNCHANGED <<now, job, cleanup, request, cluster, overtaken>>

Received(a) ==
    /\ ~Stored(a) /\ alert'[a].state = "stored" /\ alert'[a].cluster = NoKey
    /\ \A k \in Keys : a \notin job.group[k]

SomeReceived ==
    /\ \A a \in Alerts : alert'[a] = alert[a] \/ Received(a)
    /\ UNCHANGED <<reused, thinned, untold>>

OneAlert(a) == \A b \in Alerts : b # a => alert'[b] = alert[b]

StatusChanged(a) ==
    /\ alert'[a].state = alert[a].state /\ alert'[a].cluster = alert[a].cluster
    /\ alert'[a].timestamp = alert[a].timestamp
    /\ UNCHANGED <<reused, thinned>>
    /\ untold \subseteq untold' /\ untold' \subseteq Keys
    /\ alert'[a].status = "resolved" =>
         alert[a].status = "resolved" \/ ~LastOpen(a) \/ Home(a) \subseteq untold'

Deleted(a) ==
    /\ alert'[a] = NoAlert /\ UNCHANGED reused
    /\ thinned' = thinned \cup Home(a) /\ untold' = untold \cup Home(a)

\* The handlers' steps on one alert, and on many.
AlertHand(a) ==
    \/ \E status \in {"firing", "resolved"} : ReceiveAgain(a, status)
    \/ Acknowledge(a)
    \/ Resolve(a)
    \/ ResolveByRun(a)
    \/ Delete(a)

SomeReceive ==
    \E new \in SUBSET Alerts, timestamp \in 0 .. now, status \in Arriving, metrics \in {"none", "open"} :
        Receive(new, timestamp, status, metrics)

\* The steps of a request before its commit.
Begins ==
    \/ \E k \in Keys, reason \in {"manual", "timeout"} : Close(k, reason)
    \/ \E source, target \in Keys : Merge(source, target)

Prepares == Move \/ Recount \/ LoseRequest

LEMMA HandCases ==
    ASSUME HandStep
    PROVE  SomeReceive \/ (\E a \in Alerts : AlertHand(a)) \/ Begins \/ Prepares \/ CommitRequest
BY DEF HandStep, AlertHand, SomeReceive, Begins, Prepares

LEMMA ReceiveEffect ==
    ASSUME TypeInv, SomeReceive
    PROVE  AlertsOnly /\ SomeReceived
<1>1. alert \in [Alerts -> AlertRow] /\ now \in 0 .. TimeBound /\ TimeBound \in Nat
  BY TypesNow, WindowsAssumption DEF TypeInv, RowInv
<1>2. PICK new \in SUBSET Alerts, timestamp \in 0 .. now, status \in Arriving, metrics \in {"none", "open"} :
         Receive(new, timestamp, status, metrics)
  BY DEF SomeReceive
<1> DEFINE r == [state |-> "stored", timestamp |-> timestamp, status |-> status, cluster |-> NoKey,
                 metrics |-> metrics]
<1>3. r \in AlertRow /\ r.state = "stored" /\ r.cluster = NoKey
  BY <1>1, ArrivingAssumption DEF AlertRow
<1>4. /\ alert' = [a \in Alerts |-> IF a \in new THEN r ELSE alert[a]]
      /\ Hand /\ UNCHANGED <<cluster, reused, thinned, untold>>
      /\ \A a \in new : ~Stored(a) /\ \A k \in Keys : a \notin job.group[k]
  BY <1>2 DEF Receive, blameVars
<1> HIDE DEF r
<1>5. alert' \in [Alerts -> AlertRow] /\ \A a \in Alerts : alert'[a] = alert[a] \/ Received(a)
  BY <1>1, <1>3, <1>4 DEF Received
<1> QED BY <1>4, <1>5, HandlesEffect DEF Hand, AlertsOnly, SomeReceived

LEMMA AlertHands ==
    ASSUME TypeInv, NEW a \in Alerts, AlertHand(a)
    PROVE  AlertsOnly /\ OneAlert(a) /\ (StatusChanged(a) \/ Deleted(a))
<1>1. alert \in [Alerts -> AlertRow] /\ untold \in SUBSET Keys
  BY TypesNow DEF TypeInv, RowInv
<1>2. Home(a) \subseteq Keys
  BY <1>1 DEF Home, AlertRow
<1>3. ASSUME NEW r \in AlertRow, alert' = [alert EXCEPT ![a] = r], Hand, UNCHANGED cluster
      PROVE  AlertsOnly /\ OneAlert(a) /\ alert'[a] = r
  BY <1>1, <1>3, HandlesEffect DEF Hand, AlertsOnly, OneAlert
<1>4. ASSUME NEW r \in AlertRow, r.state = alert[a].state, r.cluster = alert[a].cluster,
             r.timestamp = alert[a].timestamp,
             alert' = [alert EXCEPT ![a] = r], Hand, UNCHANGED <<cluster, reused, thinned>>,
             untold \subseteq untold', untold' \subseteq Keys,
             r.status = "resolved" => alert[a].status = "resolved" \/ ~LastOpen(a) \/ Home(a) \subseteq untold'
      PROVE  AlertsOnly /\ OneAlert(a) /\ StatusChanged(a)
  BY <1>3, <1>4 DEF StatusChanged
<1>5. ASSUME NEW status \in {"firing", "acknowledged", "resolved"},
             alert' = [alert EXCEPT ![a].status = status], Hand, UNCHANGED <<cluster, reused, thinned>>,
             untold \subseteq untold', untold' \subseteq Keys,
             status = "resolved" => Home(a) \subseteq untold'
      PROVE  AlertsOnly /\ OneAlert(a) /\ StatusChanged(a)
  <2> DEFINE r == [alert[a] EXCEPT !.status = status]
  <2>1. /\ r \in AlertRow /\ r.state = alert[a].state /\ r.cluster = alert[a].cluster
        /\ r.timestamp = alert[a].timestamp /\ r.status = status
    BY <1>1 DEF AlertRow
  <2>2. alert' = [alert EXCEPT ![a] = r]
    BY <1>5
  <2> HIDE DEF r
  <2> QED BY <1>4, <1>5, <2>1, <2>2
<1>6. ASSUME alert' = [alert EXCEPT ![a] = ResolvedRow(alert[a])], Hand, UNCHANGED <<cluster, reused, thinned>>,
             untold \subseteq untold', untold' \subseteq Keys,
             alert[a].status = "resolved" \/ ~LastOpen(a) \/ Home(a) \subseteq untold'
      PROVE  AlertsOnly /\ OneAlert(a) /\ StatusChanged(a)
  <2> DEFINE m == IF alert[a].metrics = "open" THEN "resolved" ELSE alert[a].metrics
             r == [alert[a] EXCEPT !.status = "resolved", !.metrics = m]
  <2>1. m \in {"none", "open", "resolved"}
    BY <1>1 DEF AlertRow
  <2>2. ResolvedRow(alert[a]) = r
    BY <1>1 DEF ResolvedRow, AlertRow
  <2> HIDE DEF m
  <2>3. /\ r \in AlertRow /\ r.state = alert[a].state /\ r.cluster = alert[a].cluster
        /\ r.timestamp = alert[a].timestamp
    BY <1>1, <2>1 DEF AlertRow
  <2> HIDE DEF r
  <2> QED BY <1>4, <1>6, <2>2, <2>3
<1>7. ASSUME NEW status \in {"firing", "resolved"}, ReceiveAgain(a, status)
      PROVE  AlertsOnly /\ OneAlert(a) /\ StatusChanged(a)
  BY <1>1, <1>2, <1>5, <1>7 DEF ReceiveAgain
<1>8. CASE Acknowledge(a)
  BY <1>1, <1>5, <1>8 DEF Acknowledge, blameVars
<1>9. CASE Resolve(a)
  BY <1>1, <1>6, <1>9 DEF Resolve, blameVars
<1>10. CASE ResolveByRun(a)
  BY <1>1, <1>2, <1>6, <1>10 DEF ResolveByRun
<1>11. CASE Delete(a)
  BY <1>3, <1>11, NoPassType DEF Delete, Deleted
<1> QED BY <1>7, <1>8, <1>9, <1>10, <1>11 DEF AlertHand

\* Until its commit nobody sees a request.
Unseen == UNCHANGED <<now, alert, cluster, job, cleanup, reused, thinned, untold, overtaken>>

LEMMA CloseEffect ==
    ASSUME TypeInv, NEW k \in Keys, NEW reason \in {"manual", "timeout"}, Close(k, reason)
    PROVE  /\ Active(k) /\ request' \in Request
           /\ request'.at = "committing" /\ request'.source = k /\ request'.target = NoKey
           /\ request'.source_row = cluster[k] /\ request'.reason # "none"
           /\ request'.moved = {} /\ request'.members = {} /\ request'.gone = {}
           /\ Unseen /\ hands' \in 0 .. HandBound
<1>1. cluster \in [Keys -> ClusterRow]
  BY TypesNow DEF TypeInv, RowInv
<1>2. request' = [NoRequest EXCEPT !.at = "committing", !.source = k, !.source_row = cluster[k],
                                   !.reason = reason]
  BY DEF Close
<1>3. /\ request' \in Request
      /\ request'.at = "committing" /\ request'.source = k /\ request'.target = NoKey
      /\ request'.source_row = cluster[k] /\ request'.reason # "none"
      /\ request'.moved = {} /\ request'.members = {} /\ request'.gone = {}
  BY <1>1, <1>2, NoPassType DEF Request
<1> QED BY <1>3, HandlesEffect DEF Close, Unseen, blameVars

LEMMA MergeEffect ==
    ASSUME TypeInv, NEW source \in Keys, NEW target \in Keys, Merge(source, target)
    PROVE  /\ Exists(source) /\ Exists(target) /\ source # target /\ request' \in Request
           /\ request'.at = "read" /\ request'.source = source /\ request'.target = target
           /\ request'.source_row = cluster[source] /\ request'.target_row = cluster[target]
           /\ request'.reason # "none" /\ request'.crossed = FALSE
           /\ request'.moved = {} /\ request'.members = {} /\ request'.gone = {}
           /\ Unseen /\ hands' \in 0 .. HandBound
<1>1. cluster \in [Keys -> ClusterRow]
  BY TypesNow DEF TypeInv, RowInv
<1>2. request' = [NoRequest EXCEPT !.at = "read", !.source = source, !.target = target,
                                   !.source_row = cluster[source],
                                   !.target_row = cluster[target], !.reason = "merged"]
  BY DEF Merge
<1>3. /\ request' \in Request
      /\ request'.at = "read" /\ request'.source = source /\ request'.target = target
      /\ request'.source_row = cluster[source] /\ request'.target_row = cluster[target]
      /\ request'.reason # "none" /\ request'.crossed = FALSE
      /\ request'.moved = {} /\ request'.members = {} /\ request'.gone = {}
  BY <1>1, <1>2, NoPassType DEF Request
<1> QED BY <1>3, HandlesEffect DEF Merge, Unseen, blameVars

LEMMA PreparesEffect ==
    ASSUME TypeInv, Prepares
    PROVE  request' \in Request /\ request.at # "idle" /\ Unseen /\ hands' \in 0 .. HandBound
<1>1. request \in Request /\ hands \in 0 .. HandBound
  BY TypesNow DEF TypeInv, RowInv
<1>2. \A k \in Keys \cup {NoKey} : MembersOf(k) \in SUBSET Alerts
  BY DEF MembersOf, Members
<1>3. CASE Move
  <2>1. request' = [request EXCEPT !.at = "moved", !.moved = MembersOf(request.source)]
    BY <1>3 DEF Move
  <2>2. MembersOf(request.source) \in SUBSET Alerts
    BY <1>1, <1>2 DEF Request
  <2>3. request' \in Request
    BY <1>1, <2>1, <2>2 DEF Request
  <2> QED BY <1>1, <1>3, <2>3 DEF Move, Unseen, threadVars, blameVars
<1>4. CASE Recount
  <2> DEFINE m == request.moved \cup MembersOf(request.target)
  <2>1. request' = [request EXCEPT !.at = "committing", !.members = m]
    BY <1>4 DEF Recount
  <2>2. m \in SUBSET Alerts
    BY <1>1, <1>2 DEF Request
  <2> HIDE DEF m
  <2>3. request' \in Request
    BY <1>1, <2>1, <2>2 DEF Request
  <2> QED BY <1>1, <1>4, <2>3 DEF Recount, Unseen, threadVars, blameVars
<1>5. CASE LoseRequest
  BY <1>1, <1>5, NoPassType DEF LoseRequest, Unseen, threadVars, blameVars
<1> QED BY <1>3, <1>4, <1>5 DEF Prepares

\* The alerts move, the source is closed, and the target shows what was counted.
Moved ==
    \A a \in Alerts :
        /\ alert'[a].state = alert[a].state /\ alert'[a].status = alert[a].status
        /\ alert'[a].timestamp = alert[a].timestamp
        /\ alert'[a].cluster = IF a \in request.moved THEN request.target ELSE alert[a].cluster

SourceClosed ==
    LET row == cluster[request.source]
        next == cluster'[request.source]
    IN  /\ next.state = "closed" /\ next.reason # "none" /\ next.closed_at = now
        /\ next.count = row.count /\ next.last_seen = row.last_seen

TargetCounted ==
    LET row == cluster[request.target]
        next == cluster'[request.target]
    IN  /\ next.state = row.state /\ next.reason = row.reason /\ next.closed_at = row.closed_at
        /\ IF request.members = {} THEN next = row
           ELSE /\ next.count = Written(request.target_row.count, Cardinality(request.members), row.count)
                /\ next.last_seen = Written(request.target_row.last_seen, Latest(request.members), row.last_seen)

LEMMA CommitRequestEffect ==
    ASSUME TypeInv, CommitRequest
    PROVE  /\ request.at = "committing" /\ request.source \in Keys /\ request.source \notin request.gone
           /\ request.source # request.target
           /\ request.members # {} => request.target \in Keys /\ request.target \notin request.gone
           /\ alert' \in [Alerts -> AlertRow] /\ Moved
           /\ cluster' \in [Keys -> ClusterRow] /\ SourceClosed
           /\ request.target \in Keys => TargetCounted
           /\ \A k \in Keys \ {request.source, request.target} : cluster'[k] = cluster[k]
           /\ reused' = IF request.crossed \/ request.members = {} THEN reused ELSE reused \ {request.target}
           /\ thinned \subseteq thinned' \cup {request.target}
           /\ request.members = {} => thinned \subseteq thinned'
           /\ request.target \in Keys => request.source \in thinned' /\ request.target \in untold'
           /\ untold \subseteq untold'
           /\ reused' \in SUBSET Keys /\ thinned' \in SUBSET Keys /\ untold' \in SUBSET Keys
           /\ overtaken' \in [job : SUBSET Keys, cleanup : SUBSET Keys]
           /\ overtaken.job \subseteq overtaken'.job /\ overtaken.cleanup \subseteq overtaken'.cleanup
           /\ \A k \in {request.source} \cup (IF request.members = {} THEN {} ELSE {request.target}) :
                 (k \in job.inactive => k \in overtaken'.job) /\ (k \in cleanup => k \in overtaken'.cleanup)
           /\ request' = NoRequest /\ UNCHANGED <<now, job, cleanup, hands>>
<1>1. /\ alert \in [Alerts -> AlertRow] /\ cluster \in [Keys -> ClusterRow] /\ now \in 0 .. TimeBound
      /\ request \in Request /\ reused \in SUBSET Keys /\ thinned \in SUBSET Keys /\ untold \in SUBSET Keys
      /\ overtaken \in [job : SUBSET Keys, cleanup : SUBSET Keys]
      /\ job.inactive \in SUBSET Keys /\ cleanup \in SUBSET Keys
  BY TypesNow DEF TypeInv, RowInv, Pass
<1>2. /\ request.at = "committing" /\ request.source \in Keys /\ request.reason # "none"
      /\ request.source # request.target /\ NoKey \notin Keys
      /\ request.gone \cap Touched = {} /\ request.source \in Touched
      /\ request.target \in Keys \cup {NoKey}
      /\ request.target = NoKey => request.moved = {} /\ request.members = {}
      /\ request.members \in SUBSET Alerts /\ request.moved \in SUBSET Alerts
      /\ request.moved \subseteq request.members
      /\ request.source_row \in ClusterRow /\ request.target_row \in ClusterRow
      /\ request.reason \in {"none", "manual", "timeout", "merged"}
  BY <1>1, KeysAssumption DEF CommitRequest, TypeInv, RequestInv, Touched, Request
<1>3. request.source \notin request.gone
  BY <1>2
<1>4. request.members # {} => request.target \in Keys /\ request.target \notin request.gone
  BY <1>2 DEF Touched
<1>5. \A a \in Alerts : alert'[a] = IF a \in request.moved
                                    THEN [alert[a] EXCEPT !.cluster = request.target] ELSE alert[a]
  BY DEF CommitRequest
<1>6. ASSUME NEW a \in Alerts
      PROVE  /\ alert'[a] \in AlertRow
             /\ alert'[a].state = alert[a].state /\ alert'[a].status = alert[a].status
             /\ alert'[a].timestamp = alert[a].timestamp
             /\ alert'[a].cluster = IF a \in request.moved THEN request.target ELSE alert[a].cluster
  <2>1. alert[a] \in AlertRow /\ request.target \in Keys \cup {NoKey}
    BY <1>1, <1>2
  <2>2. alert'[a] = IF a \in request.moved THEN [alert[a] EXCEPT !.cluster = request.target] ELSE alert[a]
    BY <1>5
  <2> QED BY <2>1, <2>2 DEF AlertRow
<1>7. alert' \in [Alerts -> AlertRow] /\ Moved
  <2>1. alert' = [a \in Alerts |-> IF a \in request.moved
                                   THEN [alert[a] EXCEPT !.cluster = request.target] ELSE alert[a]]
    BY DEF CommitRequest
  <2>2. alert' \in [Alerts -> AlertRow]
    BY <1>6, <2>1
  <2>3. Moved
    BY <1>6 DEF Moved
  <2> QED BY <2>2, <2>3
<1>8. /\ Closed(cluster[request.source]) \in ClusterRow
      /\ Closed(cluster[request.source]).state = "closed"
      /\ Closed(cluster[request.source]).reason # "none"
      /\ Closed(cluster[request.source]).closed_at = now
      /\ Closed(cluster[request.source]).count = cluster[request.source].count
      /\ Closed(cluster[request.source]).last_seen = cluster[request.source].last_seen
  <2> DEFINE row == cluster[request.source]
             r == Written(request.source_row.reason, request.reason, row.reason)
  <2>1. row \in ClusterRow
    BY <1>1, <1>2
  <2>2. row.reason # "none" \/ request.source_row.reason = "none"
    BY <1>2, <1>3, TypesNow DEF TypeInv, RowInv, RequestInv
  <2>3. r \in {"manual", "timeout", "merged"}
    BY <1>2, <2>1, <2>2 DEF Written, ClusterRow
  <2>4. Closed(row) = [row EXCEPT !.state = "closed", !.closed_at = now, !.reason = r]
    BY <2>1 DEF Closed, ClusterRow
  <2> HIDE DEF r
  <2> QED BY <1>1, <2>1, <2>3, <2>4 DEF ClusterRow
<1>9. ASSUME request.target \in Keys
      PROVE  /\ Counted(cluster[request.target]) \in ClusterRow
             /\ Counted(cluster[request.target]).state = cluster[request.target].state
             /\ Counted(cluster[request.target]).reason = cluster[request.target].reason
             /\ Counted(cluster[request.target]).closed_at = cluster[request.target].closed_at
             /\ request.members = {} => Counted(cluster[request.target]) = cluster[request.target]
             /\ request.members # {} =>
                   /\ Counted(cluster[request.target]).count =
                         Written(request.target_row.count, Cardinality(request.members),
                                 cluster[request.target].count)
                   /\ Counted(cluster[request.target]).last_seen =
                         Written(request.target_row.last_seen, Latest(request.members),
                                 cluster[request.target].last_seen)
  <2> DEFINE row == cluster[request.target]
             n == Written(request.target_row.count, Cardinality(request.members), row.count)
             t == Written(request.target_row.last_seen, Latest(request.members), row.last_seen)
  <2>1. row \in ClusterRow
    BY <1>1, <1>9
  <2>2. CASE request.members = {}
    BY <2>1, <2>2 DEF Counted
  <2>3. CASE request.members # {}
    <3>1. Cardinality(request.members) \in 0 .. Cardinality(Alerts) /\ Latest(request.members) \in 0 .. TimeBound
      <4>1. Latest(request.members) = LatestIn(alert, request.members)
        BY DEF Latest, LatestIn
      <4> QED BY <1>1, <1>2, <2>3, <4>1, CountType, LatestIsLatest
    <3>2. n \in 0 .. Cardinality(Alerts) /\ t \in 0 .. TimeBound
      BY <2>1, <3>1 DEF Written, ClusterRow
    <3>3. Counted(row) = [row EXCEPT !.count = n, !.last_seen = t]
      BY <2>1, <2>3 DEF Counted, ClusterRow
    <3> HIDE DEF n, t
    <3>4. /\ Counted(row) \in ClusterRow /\ Counted(row).state = row.state /\ Counted(row).reason = row.reason
          /\ Counted(row).closed_at = row.closed_at /\ Counted(row).count = n /\ Counted(row).last_seen = t
      BY <2>1, <3>2, <3>3 DEF ClusterRow
    <3> QED BY <2>3, <3>4 DEF n, t
  <2> QED BY <2>2, <2>3
<1>10. cluster' = [k \in Keys |-> IF k = request.source THEN Closed(cluster[k])
                                  ELSE IF k \in Touched THEN Counted(cluster[k]) ELSE cluster[k]]
  BY DEF CommitRequest
<1>11. ASSUME NEW k \in Keys
       PROVE  /\ cluster'[k] \in ClusterRow
              /\ k = request.source => cluster'[k] = Closed(cluster[k])
              /\ k = request.target => cluster'[k] = Counted(cluster[k])
              /\ k \notin {request.source, request.target} => cluster'[k] = cluster[k]
  <2>1. CASE k = request.source
    BY <1>2, <1>8, <1>10, <2>1
  <2>2. CASE k = request.target
    <3>1. k # request.source /\ (k \in Touched <=> request.members # {})
      BY <1>2, <2>2 DEF Touched
    <3>2. cluster'[k] = Counted(cluster[k])
      BY <1>9, <1>10, <2>2, <3>1
    <3> QED BY <1>9, <2>2, <3>1, <3>2
  <2>3. CASE k \notin {request.source, request.target}
    <3>1. k \notin Touched
      BY <2>3 DEF Touched
    <3> QED BY <1>1, <1>10, <2>3, <3>1
  <2> QED BY <2>1, <2>2, <2>3
<1>12. cluster' \in [Keys -> ClusterRow]
  BY <1>10, <1>11
<1>13. SourceClosed
  BY <1>2, <1>8, <1>11 DEF SourceClosed
<1>14. request.target \in Keys => TargetCounted
  BY <1>9, <1>11 DEF TargetCounted
<1>15. Touched \ {request.source} = IF request.members = {} THEN {} ELSE {request.target}
  BY <1>2 DEF Touched
<1>16. /\ reused' = IF request.crossed THEN reused ELSE reused \ (Touched \ {request.source})
       /\ thinned' = (thinned \ (Touched \ {request.source})) \cup
                        (IF request.target = NoKey THEN {} ELSE {request.source})
       /\ untold' = untold \cup (Keys \cap {request.target})
       /\ overtaken' = [job |-> overtaken.job \cup (Touched \cap job.inactive),
                        cleanup |-> overtaken.cleanup \cup (Touched \cap cleanup)]
       /\ request' = NoRequest /\ UNCHANGED <<now, job, cleanup, hands>>
  BY DEF CommitRequest, threadVars
<1>17. /\ overtaken' \in [job : SUBSET Keys, cleanup : SUBSET Keys]
       /\ overtaken.job \subseteq overtaken'.job /\ overtaken.cleanup \subseteq overtaken'.cleanup
       /\ \A k \in Touched : (k \in job.inactive => k \in overtaken'.job) /\ (k \in cleanup => k \in overtaken'.cleanup)
  BY <1>1, <1>16
<1>18. /\ reused' = IF request.crossed \/ request.members = {} THEN reused ELSE reused \ {request.target}
       /\ thinned \subseteq thinned' \cup {request.target}
       /\ request.members = {} => thinned \subseteq thinned'
       /\ request.target \in Keys => request.source \in thinned' /\ request.target \in untold'
       /\ untold \subseteq untold'
       /\ reused' \in SUBSET Keys /\ thinned' \in SUBSET Keys /\ untold' \in SUBSET Keys
  BY <1>1, <1>2, <1>15, <1>16
<1> QED BY <1>2, <1>3, <1>4, <1>7, <1>11, <1>12, <1>13, <1>14, <1>16, <1>17, <1>18 DEF Touched

---------------------------------------------------------------------------
(* Types, and what a pass holds                                            *)

Reasoned(k) == (cluster[k].state = "closed") <=> (cluster[k].reason # "none")

Linked(a) == alert[a].cluster # NoKey => alert[a].state = "stored" /\ Exists(alert[a].cluster)

LEMMA TypeOf ==
    ASSUME TypeInv
    PROVE  /\ now \in 0 .. TimeBound /\ alert \in [Alerts -> AlertRow] /\ cluster \in [Keys -> ClusterRow]
           /\ job \in Pass /\ cleanup \in SUBSET Keys /\ request \in Request /\ hands \in 0 .. HandBound
           /\ reused \in SUBSET Keys /\ thinned \in SUBSET Keys /\ untold \in SUBSET Keys
           /\ overtaken \in [job : SUBSET Keys, cleanup : SUBSET Keys]
           /\ \A k \in Keys : Reasoned(k)
           /\ \A a \in Alerts : Linked(a)
           /\ \A a \in Alerts : alert[a].cluster \in Keys \cup {NoKey}
BY TypesNow DEF TypeInv, RowInv, Reasoned, Linked, AlertRow

\* Types and rows after a step, and what is left to show of it.
LEMMA TypeFrom ==
    ASSUME now' \in 0 .. TimeBound, alert' \in [Alerts -> AlertRow], cluster' \in [Keys -> ClusterRow],
           job' \in Pass, cleanup' \in SUBSET Keys, request' \in Request, hands' \in 0 .. HandBound,
           reused' \in SUBSET Keys, thinned' \in SUBSET Keys, untold' \in SUBSET Keys,
           overtaken' \in [job : SUBSET Keys, cleanup : SUBSET Keys],
           \A k \in Keys : Reasoned(k)', \A a \in Alerts : Linked(a)', PassInv'
    PROVE  RowInv'
BY TypesNext DEF RowInv, Reasoned, Linked, Exists

LEMMA JobRows ==
    ASSUME TypeInv, JobStep
    PROVE  RowInv'
<1>0. TypeInv /\ PassInv
  BY DEF TypeInv, RowInv
<1>1. ASSUME TablesKept, job' \in Pass, PassInv', overtaken' \in [job : SUBSET Keys, cleanup : SUBSET Keys]
      PROVE  RowInv'
  <2>1. (\A k \in Keys : Reasoned(k)') /\ (\A a \in Alerts : Linked(a)')
    BY <1>0, <1>1, TypeOf DEF TablesKept, Reasoned, Linked, Exists
  <2> QED BY <1>0, <1>1, <2>1, TypeOf, TypeFrom DEF TablesKept
<1>2. CASE Read
  <2>1. PassInv'
    BY <1>2, ReadEffect DEF PassInv, TablesKept
  <2> QED BY <1>0, <1>1, <1>2, <2>1, ReadEffect, TypeOf
<1>3. ASSUME NEW k \in Keys, LookUp(k) PROVE RowInv'
  <2>1. PassInv'
    <3>1. \A l \in Keys : l \notin job'.todo /\ job'.group[l] # {} /\ job'.row[l].state = "none" => ~Exists(l)'
      <4>1. k \notin job'.todo /\ job'.row[k].state = "none" => ~Exists(k)'
        BY <1>3, LookUpEffect DEF TablesKept, Exists
      <4>2. ASSUME NEW l \in Keys, l # k, l \notin job'.todo, job'.group[l] # {}, job'.row[l].state = "none"
            PROVE  ~Exists(l)'
        BY <1>0, <1>3, <4>2, LookUpEffect DEF PassInv, TablesKept, Exists
      <4> QED BY <4>1, <4>2
    <3>2. \A l, m \in Keys : l # m => job'.group[l] \cap job'.group[m] = {}
      BY <1>0, <1>3, LookUpEffect DEF PassInv
    <3>3. \A l \in Keys : \A a \in job'.group[l] : alert'[a].cluster = NoKey
      BY <1>0, <1>3, LookUpEffect DEF PassInv, TablesKept
    <3> QED BY <1>3, <3>1, <3>2, <3>3, LookUpEffect DEF PassInv
  <2> QED BY <1>0, <1>1, <1>3, <2>1, LookUpEffect, TypeOf
<1>4. CASE RollBack
  <2>1. PassInv'
    BY <1>4, RollBackEffect, NoPassType DEF PassInv
  <2> QED BY <1>0, <1>1, <1>4, <2>1, RollBackEffect, NoPassType, TypeOf
<1>5. CASE FindInactive
  <2>1. PassInv'
    BY <1>5, FindInactiveEffect DEF PassInv
  <2> QED BY <1>0, <1>1, <1>5, <2>1, FindInactiveEffect, TypeOf
<1>6. CASE CloseInactive
  <2>1. PassInv'
    BY <1>6, CloseInactiveEffect, NoPassType DEF PassInv
  <2>2. \A k \in Keys : Reasoned(k)' /\ (Exists(k) => Exists(k)')
    BY <1>0, <1>6, CloseInactiveEffect, TypeOf DEF Reasoned, Exists
  <2>3. \A a \in Alerts : Linked(a)'
    BY <1>0, <1>6, <2>2, CloseInactiveEffect, TypeOf DEF Linked
  <2> QED BY <1>0, <1>6, <2>1, <2>2, <2>3, CloseInactiveEffect, NoPassType, TypeOf, TypeFrom
<1>7. CASE Commit
  <2>1. PassInv'
    BY <1>7, CommitEffect DEF PassInv
  <2>2. \A k \in Keys : Reasoned(k)' /\ (Exists(k) \/ job.group[k] # {} => Exists(k)')
    BY <1>0, <1>7, CommitEffect, TypeOf DEF Reasoned, Exists, Writes
  <2>3. ASSUME NEW a \in Alerts PROVE Linked(a)'
    <3>1. CASE \A k \in Keys : a \notin job.group[k]
      <4>1. alert'[a] = alert[a]
        BY <1>7, <3>1, CommitEffect
      <4> QED BY <1>0, <2>2, <4>1, TypeOf DEF Linked
    <3>2. ASSUME NEW k \in Keys, a \in job.group[k] PROVE Linked(a)'
      <4>1. job.group[k] # {} /\ NothingDeleted
        BY <1>7, <3>2, CommitEffect
      <4>2. alert[a].state = "stored"
        BY <3>2, <4>1 DEF NothingDeleted, Stored
      <4>3. alert'[a].cluster = k /\ alert'[a].state = "stored"
        BY <1>7, <3>2, <4>1, <4>2, CommitEffect DEF Links
      <4>4. Exists(k)'
        BY <2>2, <4>1
      <4> QED BY <4>3, <4>4 DEF Linked, Exists
    <3> QED BY <3>1, <3>2
  <2>4. request' \in Request
    <3> DEFINE c == request'.crossed
    <3>1. c \in BOOLEAN /\ request' = [request EXCEPT !.crossed = c] /\ request \in Request
      BY <1>0, <1>7, CommitEffect, TypeOf
    <3> HIDE DEF c
    <3> QED BY <3>1 DEF Request
  <2> QED BY <1>0, <1>7, <2>1, <2>2, <2>3, <2>4, CommitEffect, TypeOf, TypeFrom
<1> QED BY <1>2, <1>3, <1>4, <1>5, <1>6, <1>7 DEF JobStep

LEMMA CleanupRows ==
    ASSUME TypeInv, FindExpired \/ DeleteExpired
    PROVE  RowInv'
<1>0. TypeInv /\ PassInv
  BY DEF TypeInv, RowInv
<1>1. CASE FindExpired
  <2>1. PassInv' /\ (\A k \in Keys : Reasoned(k)') /\ (\A a \in Alerts : Linked(a)')
    BY <1>0, <1>1, FindExpiredEffect, TypeOf DEF PassInv, Reasoned, Linked, Exists
  <2> QED BY <1>0, <1>1, <2>1, FindExpiredEffect, TypeOf, TypeFrom
<1>2. CASE DeleteExpired
  <2>1. \A k \in Keys : Reasoned(k)' /\ (Exists(k)' <=> Exists(k) /\ k \notin cleanup)
    BY <1>0, <1>2, DeleteExpiredEffect, NoPassType, TypeOf DEF Reasoned, Exists
  <2>2. ASSUME NEW a \in Alerts PROVE Linked(a)' /\ (alert[a].cluster = NoKey => alert'[a].cluster = NoKey)
    <3>1. CASE alert[a].cluster \in cleanup
      BY <1>2, <3>1, DeleteExpiredEffect DEF Linked
    <3>2. CASE alert[a].cluster \notin cleanup
      <4>1. alert'[a] = alert[a] /\ Linked(a) /\ alert[a].cluster \in Keys \cup {NoKey}
        BY <1>0, <1>2, <3>2, DeleteExpiredEffect, TypeOf
      <4> QED BY <2>1, <3>2, <4>1 DEF Linked
    <3> QED BY <3>1, <3>2
  <2>3. PassInv'
    <3>1. job' = job /\ job.group \in [Keys -> SUBSET Alerts]
      BY <1>0, <1>2, DeleteExpiredEffect, TypeOf DEF Pass
    <3> QED BY <1>0, <2>1, <2>2, <3>1 DEF PassInv
  <2> QED BY <1>0, <1>2, <2>1, <2>2, <2>3, DeleteExpiredEffect, TypeOf, TypeFrom
<1> QED BY <1>1, <1>2

LEMMA HandRows ==
    ASSUME TypeInv, HandStep
    PROVE  RowInv'
<1>0. /\ TypeInv /\ PassInv /\ job \in Pass /\ job.group \in [Keys -> SUBSET Alerts] /\ NoKey \notin Keys
      /\ \A a \in Alerts : Linked(a)
  BY TypeOf, KeysAssumption DEF TypeInv, RowInv, Pass
<1>1. ASSUME job' = job, \A l \in Keys : Exists(l)' <=> Exists(l),
             \A b \in Alerts : alert[b].cluster = NoKey => alert'[b].cluster = NoKey
      PROVE  PassInv'
  BY <1>0, <1>1 DEF PassInv
<1>2. ASSUME AlertsOnly, \A b \in Alerts : Linked(b)' /\ alert'[b].cluster \in {alert[b].cluster, NoKey},
             reused' \in SUBSET Keys, thinned' \in SUBSET Keys, untold' \in SUBSET Keys
      PROVE  RowInv'
  <2>1. /\ \A l \in Keys : Reasoned(l)' /\ (Exists(l)' <=> Exists(l))
        /\ job' = job
    BY <1>0, <1>2, TypeOf DEF AlertsOnly, Reasoned, Exists
  <2>2. PassInv'
    BY <1>1, <1>2, <2>1
  <2> QED BY <1>0, <1>2, <2>1, <2>2, TypeOf, TypeFrom DEF AlertsOnly
<1>3. CASE SomeReceive
  <2>1. AlertsOnly /\ SomeReceived
    BY <1>3, ReceiveEffect
  <2>2. ASSUME NEW b \in Alerts PROVE Linked(b)' /\ alert'[b].cluster \in {alert[b].cluster, NoKey}
    <3>1. CASE alert'[b] = alert[b]
      BY <1>0, <2>1, <3>1 DEF AlertsOnly, Linked, Exists
    <3>2. CASE Received(b)
      BY <3>2 DEF Received, Linked
    <3> QED BY <2>1, <3>1, <3>2 DEF SomeReceived
  <2> QED BY <1>0, <1>2, <2>1, <2>2, TypeOf DEF SomeReceived
<1>4. ASSUME NEW a \in Alerts, AlertHand(a) PROVE RowInv'
  <2>1. AlertsOnly /\ OneAlert(a) /\ (StatusChanged(a) \/ Deleted(a))
    BY <1>4, AlertHands
  <2>2. Linked(a)' /\ alert'[a].cluster \in {alert[a].cluster, NoKey}
    <3>1. CASE StatusChanged(a)
      BY <1>0, <2>1, <3>1 DEF AlertsOnly, StatusChanged, Linked, Exists
    <3>2. CASE Deleted(a)
      BY <3>2, NoPassType DEF Deleted, Linked
    <3> QED BY <2>1, <3>1, <3>2
  <2>3. ASSUME NEW b \in Alerts, b # a PROVE Linked(b)' /\ alert'[b].cluster \in {alert[b].cluster, NoKey}
    BY <1>0, <2>1, <2>3 DEF AlertsOnly, OneAlert, Linked, Exists
  <2>4. reused' \in SUBSET Keys /\ thinned' \in SUBSET Keys /\ untold' \in SUBSET Keys
    <3>1. Home(a) \subseteq Keys
      BY <1>0, TypeOf DEF Home
    <3> QED BY <1>0, <2>1, <3>1, TypeOf DEF StatusChanged, Deleted
  <2> QED BY <1>2, <2>1, <2>2, <2>3, <2>4
<1>5. ASSUME Unseen, request' \in Request, hands' \in 0 .. HandBound PROVE RowInv'
  <2>1. /\ \A l \in Keys : Reasoned(l)' /\ (Exists(l)' <=> Exists(l))
        /\ \A b \in Alerts : Linked(b)'
    BY <1>0, <1>5, TypeOf DEF Unseen, Reasoned, Linked, Exists
  <2>2. PassInv'
    BY <1>1, <1>5, <2>1 DEF Unseen
  <2> QED BY <1>0, <1>5, <2>1, <2>2, TypeOf, TypeFrom DEF Unseen
<1>6. CASE Begins
  <2>1. ASSUME NEW k \in Keys, NEW reason \in {"manual", "timeout"}, Close(k, reason) PROVE RowInv'
    BY <1>0, <1>5, <2>1, CloseEffect
  <2>2. ASSUME NEW source \in Keys, NEW target \in Keys, Merge(source, target) PROVE RowInv'
    BY <1>0, <1>5, <2>2, MergeEffect
  <2> QED BY <1>6, <2>1, <2>2 DEF Begins
<1>7. CASE Prepares
  BY <1>0, <1>5, <1>7, PreparesEffect
<1>8. CASE CommitRequest
  <2>1. /\ request.source \in Keys /\ request.source \notin request.gone /\ SourceClosed /\ Moved
        /\ request.target \in Keys => TargetCounted
        /\ request.members # {} => request.target \in Keys /\ request.target \notin request.gone
        /\ \A l \in Keys \ {request.source, request.target} : cluster'[l] = cluster[l]
    BY <1>8, CommitRequestEffect
  <2>2. /\ \A k \in Keys : k \in {request.source, request.target} \ request.gone => Exists(k)
        /\ request.moved \subseteq request.members
        /\ \A b \in request.moved : alert[b].cluster = request.source
    BY <1>0, <1>8 DEF TypeInv, RequestInv, CommitRequest
  <2>3. ASSUME NEW l \in Keys PROVE Reasoned(l)' /\ (Exists(l)' <=> Exists(l))
    <3>1. Reasoned(l)
      BY <1>0, TypeOf
    <3>2. CASE l = request.source
      BY <2>1, <2>2, <3>2 DEF SourceClosed, Reasoned, Exists
    <3>3. CASE l = request.target
      BY <2>1, <3>1, <3>3 DEF TargetCounted, Reasoned, Exists
    <3>4. CASE l \notin {request.source, request.target}
      BY <2>1, <3>1, <3>4 DEF Reasoned, Exists
    <3> QED BY <3>2, <3>3, <3>4
  <2>4. ASSUME NEW b \in Alerts
        PROVE  Linked(b)' /\ (alert[b].cluster = NoKey => alert'[b].cluster = NoKey)
    <3>1. /\ alert'[b].state = alert[b].state
          /\ alert'[b].cluster = IF b \in request.moved THEN request.target ELSE alert[b].cluster
      BY <2>1 DEF Moved
    <3>2. CASE b \in request.moved
      <4>1. alert[b].cluster = request.source /\ request.target \in Keys /\ Exists(request.target)
        BY <2>1, <2>2, <3>2
      <4>2. alert[b].state = "stored" /\ alert[b].cluster # NoKey
        BY <1>0, <2>1, <4>1 DEF Linked
      <4> QED BY <2>3, <3>1, <3>2, <4>1, <4>2 DEF Linked
    <3>3. CASE b \notin request.moved
      <4>1. Linked(b) /\ alert[b].cluster \in Keys \cup {NoKey}
        BY <1>0, TypeOf
      <4> QED BY <2>3, <3>1, <3>3, <4>1 DEF Linked
    <3> QED BY <3>2, <3>3
  <2>5. PassInv'
    BY <1>1, <1>8, <2>3, <2>4, CommitRequestEffect
  <2>6. /\ request' \in Request /\ hands' \in 0 .. HandBound /\ now' \in 0 .. TimeBound
        /\ job' \in Pass /\ cleanup' \in SUBSET Keys
        /\ overtaken' \in [job : SUBSET Keys, cleanup : SUBSET Keys]
        /\ reused' \in SUBSET Keys /\ thinned' \in SUBSET Keys /\ untold' \in SUBSET Keys
        /\ alert' \in [Alerts -> AlertRow] /\ cluster' \in [Keys -> ClusterRow]
    BY <1>0, <1>8, CommitRequestEffect, NoPassType, TypeOf
  <2> QED BY <2>3, <2>4, <2>5, <2>6, TypeFrom
<1> QED BY <1>3, <1>4, <1>6, <1>7, <1>8, HandCases

---------------------------------------------------------------------------
(* What a request holds                                                    *)

LEMMA NothingAsked ==
    ASSUME request' = NoRequest
    PROVE  RequestInv'
BY NoPassType, KeysAssumption DEF RequestInv

LEMMA RequestJob ==
    ASSUME TypeInv, JobStep
    PROVE  RequestInv'
<1>0. /\ RequestInv /\ PassInv /\ request \in Request /\ NoKey \notin Keys
      /\ job.group \in [Keys -> SUBSET Alerts]
  BY TypeOf, KeysAssumption DEF TypeInv, RowInv, Pass
<1>1. ASSUME TablesKept PROVE RequestInv'
  BY <1>0, <1>1 DEF TablesKept, RequestInv, CountInv, Exists, Members
<1>2. CASE CloseInactive
  <2>1. /\ UNCHANGED <<alert, request, reused>>
        /\ \A k \in Keys : /\ Exists(k) => Exists(k)'
                           /\ cluster[k].state = "closed" => cluster'[k].state = "closed"
                           /\ cluster'[k].count = cluster[k].count
                           /\ cluster'[k].last_seen = cluster[k].last_seen
    BY <1>2, CloseInactiveEffect DEF Exists
  <2>2. request.source_row.reason # "none" => request.source \in Keys
    BY <1>0, NoPassType DEF RequestInv
  <2>3. request.target \in Keys /\ CountInv(request.target) => CountInv(request.target)'
    BY <2>1 DEF CountInv, Members
  <2> QED BY <1>0, <2>1, <2>2, <2>3 DEF RequestInv
<1>3. CASE Commit
  <2>1. /\ job.todo = {} /\ request' = [request EXCEPT !.crossed = request'.crossed]
        /\ \A a \in Alerts : (\A k \in Keys : a \notin job.group[k]) => alert'[a] = alert[a]
        /\ \A k \in Keys : IF job.group[k] = {} THEN cluster'[k] = cluster[k] ELSE Links(k) /\ Writes(k)
        /\ \A k \in Keys : request.target = k => (request'.crossed <=> request.crossed \/ job.group[k] # {})
        /\ \A k \in Keys : k \in reused \/ (job.group[k] # {} /\ job.row[k].state # "none") => k \in reused'
        /\ request'.crossed \in BOOLEAN
    BY <1>3, CommitEffect
  <2> DEFINE c == request'.crossed
  <2>2. request' = [request EXCEPT !.crossed = c]
    BY <2>1
  <2> HIDE DEF c
  <2>3. /\ request'.at = request.at /\ request'.source = request.source /\ request'.target = request.target
        /\ request'.source_row = request.source_row /\ request'.target_row = request.target_row
        /\ request'.reason = request.reason /\ request'.moved = request.moved
        /\ request'.members = request.members /\ request'.gone = request.gone
    BY <1>0, <2>2 DEF Request
  <2>4. ASSUME NEW k \in Keys, Exists(k)
        PROVE  /\ Exists(k)' /\ (cluster[k].state = "closed" => cluster'[k].state = "closed")
               /\ job.group[k] # {} => job.row[k].state # "none"
    <3>1. job.group[k] # {} => job.row[k].state # "none"
      BY <1>0, <2>1, <2>4 DEF PassInv
    <3> QED BY <2>1, <2>4, <3>1 DEF Writes, Exists
  <2>5. \A a \in Alerts : alert[a].cluster # NoKey => alert'[a] = alert[a]
    BY <1>0, <2>1 DEF PassInv
  <2>6. request.at = "idle" => request' = NoRequest
    <3> SUFFICES ASSUME request.at = "idle" PROVE request' = NoRequest
      OBVIOUS
    <3>1. request = NoRequest
      BY <1>0 DEF RequestInv
    <3>2. request'.crossed = FALSE
      <4>1. request' = [request EXCEPT !.crossed =
                           request.crossed \/ request.target \in {k \in Keys : job.group[k] # {}}]
        BY <1>3 DEF Commit
      <4>2. request.crossed = FALSE /\ request.target \notin Keys
        BY <1>0, <3>1, NoPassType
      <4>3. request'.crossed = (request.crossed \/ request.target \in {k \in Keys : job.group[k] # {}})
        BY <1>0, <4>1 DEF Request
      <4> QED BY <4>2, <4>3
    <3> QED BY <2>1, <3>1, <3>2 DEF NoRequest
  <2>7. CASE request.at = "idle"
    BY <2>6, <2>7, NothingAsked
  <2>8. CASE request.at # "idle"
    <3>1. request.source \in Keys /\ request.moved \in SUBSET Alerts
      BY <1>0, <2>8 DEF RequestInv, Request
    <3>2. \A a \in request.moved : alert'[a].cluster = request.source
      BY <1>0, <2>5, <3>1 DEF RequestInv
    <3>3. request.source \notin request.gone /\ request.source_row.reason # "none" =>
             cluster'[request.source].state = "closed"
      BY <1>0, <2>4, <3>1 DEF RequestInv
    <3>4. ASSUME request.target \in Keys, request.target \notin request.gone
          PROVE  CountInv(request.target)'
      <4> DEFINE k == request.target
      <4>1. k \in Keys /\ Exists(k) /\ CountInv(k)
        BY <1>0, <3>4 DEF RequestInv
      <4>2. CASE job.group[k] # {}
        <5>1. request'.crossed /\ k \in reused'
          BY <2>1, <2>4, <4>1, <4>2
        <5> QED BY <2>3, <5>1 DEF CountInv
      <4>3. CASE job.group[k] = {}
        <5>1. request'.crossed <=> request.crossed
          BY <2>1, <4>1, <4>3
        <5>2. cluster'[k] = cluster[k] /\ (k \in reused => k \in reused')
          BY <2>1, <4>1, <4>3
        <5>3. ASSUME NEW a \in Alerts PROVE alert'[a].cluster = k <=> alert[a].cluster = k
          <6>1. CASE \A l \in Keys : a \notin job.group[l]
            BY <2>1, <6>1
          <6>2. ASSUME NEW l \in Keys, a \in job.group[l]
                PROVE  alert'[a].cluster = l /\ alert[a].cluster = NoKey /\ k # l
            <7>1. Links(l)
              BY <2>1, <6>2
            <7> QED BY <1>0, <4>3, <6>2, <7>1 DEF Links, PassInv
          <6> QED BY <1>0, <4>1, <6>1, <6>2
        <5>4. Members(k)' = Members(k)
          BY <2>3, <5>3 DEF Members
        <5> QED BY <2>3, <4>1, <5>1, <5>2, <5>4 DEF CountInv
      <4> QED BY <4>2, <4>3
    <3> QED BY <1>0, <2>3, <2>4, <2>8, <3>1, <3>2, <3>3, <3>4 DEF RequestInv
  <2> QED BY <2>7, <2>8
<1>4. CASE Read
  BY <1>1, <1>4, ReadEffect
<1>5. ASSUME NEW k \in Keys, LookUp(k) PROVE RequestInv'
  BY <1>1, <1>5, LookUpEffect
<1>6. CASE RollBack \/ FindInactive
  BY <1>1, <1>6, RollBackEffect, FindInactiveEffect
<1> QED BY <1>2, <1>3, <1>4, <1>5, <1>6 DEF JobStep

LEMMA RequestCleanup ==
    ASSUME TypeInv, FindExpired \/ DeleteExpired
    PROVE  RequestInv'
<1>0. /\ RequestInv /\ request \in Request /\ NoKey \notin Keys /\ cleanup \in SUBSET Keys
  BY TypeOf, KeysAssumption DEF TypeInv, RowInv
<1>1. CASE FindExpired
  BY <1>0, <1>1, FindExpiredEffect DEF RequestInv, CountInv, Exists, Members
<1>2. CASE DeleteExpired
  <2> DEFINE g == request.gone \cup (cleanup \cap {request.source, request.target})
  <2>1. /\ \A k \in Keys : k \notin cleanup => cluster'[k] = cluster[k]
        /\ \A a \in Alerts : /\ alert[a].cluster \notin cleanup => alert'[a] = alert[a]
                             /\ alert[a].cluster \in cleanup => alert'[a].cluster = NoKey
        /\ reused' = reused \ cleanup
        /\ request.moved # {} => request.source \notin cleanup /\ request.target \notin cleanup
        /\ request' = [request EXCEPT !.gone = g]
    BY <1>2, DeleteExpiredEffect
  <2>2. /\ g \in SUBSET (Keys \cup {NoKey})
        /\ \A k : k \notin g => k \notin request.gone
        /\ \A k \in {request.source, request.target} : k \notin g => k \notin cleanup
        /\ \A k : k \in g => k \in request.gone \/ k \in cleanup
        /\ request.at = "idle" => g = {}
    BY <1>0, NoPassType DEF Request, RequestInv
  <2> HIDE DEF g
  <2>3. /\ request'.at = request.at /\ request'.source = request.source /\ request'.target = request.target
        /\ request'.source_row = request.source_row /\ request'.target_row = request.target_row
        /\ request'.reason = request.reason /\ request'.moved = request.moved
        /\ request'.members = request.members /\ request'.gone = g /\ request'.crossed = request.crossed
    BY <1>0, <2>1 DEF Request
  <2>4. CASE request.at = "idle"
    <3>1. request = NoRequest /\ g = {}
      BY <1>0, <2>2, <2>4 DEF RequestInv
    <3>2. request' = NoRequest
      BY <2>1, <3>1 DEF NoRequest
    <3> QED BY <3>2, NothingAsked
  <2>5. CASE request.at # "idle"
    <3>1. request.source \in Keys /\ request.moved \in SUBSET Alerts
      BY <1>0, <2>5 DEF RequestInv, Request
    <3>2. \A a \in request.moved : alert'[a].cluster = request.source
      BY <1>0, <2>1, <3>1 DEF RequestInv
    <3>3. \A k \in Keys : k \in {request.source, request.target} \ g => Exists(k)'
      BY <1>0, <2>1, <2>2 DEF RequestInv, Exists
    <3>4. request.source \notin g /\ request.source_row.reason # "none" =>
             cluster'[request.source].state = "closed"
      BY <1>0, <2>1, <2>2, <3>1 DEF RequestInv
    <3>5. request.moved # {} => request.source \notin g /\ request.target \notin g
      BY <1>0, <2>1, <2>2 DEF RequestInv
    <3>6. ASSUME request.target \in Keys, request.target \notin g
          PROVE  CountInv(request.target)'
      <4> DEFINE k == request.target
      <4>1. k \in Keys /\ k \notin cleanup /\ CountInv(k)
        BY <1>0, <2>2, <3>6 DEF RequestInv
      <4>2. cluster'[k] = cluster[k] /\ (k \in reused => k \in reused')
        BY <2>1, <4>1
      <4>3. \A a \in Alerts : alert'[a].cluster = k <=> alert[a].cluster = k
        BY <1>0, <2>1, <4>1
      <4>4. Members(k)' = Members(k)
        BY <2>3, <4>3 DEF Members
      <4> QED BY <2>3, <4>1, <4>2, <4>4 DEF CountInv
    <3> QED BY <1>0, <2>3, <2>5, <3>1, <3>2, <3>3, <3>4, <3>5, <3>6 DEF RequestInv
  <2> QED BY <2>4, <2>5
<1> QED BY <1>1, <1>2

LEMMA RequestHand ==
    ASSUME TypeInv, HandStep
    PROVE  RequestInv'
<1>0. /\ RequestInv /\ request \in Request /\ NoKey \notin Keys /\ \A k \in Keys : Reasoned(k)
  BY TypeOf, KeysAssumption DEF TypeInv
<1>1. CASE SomeReceive \/ \E a \in Alerts : AlertHand(a)
  BY <1>1, ReceiveEffect, AlertHands, NothingAsked DEF AlertsOnly
<1>2. ASSUME NEW k \in Keys, NEW reason \in {"manual", "timeout"}, Close(k, reason) PROVE RequestInv'
  <2>1. /\ Active(k)
        /\ request'.at = "committing" /\ request'.source = k /\ request'.target = NoKey
        /\ request'.source_row = cluster[k] /\ request'.reason # "none"
        /\ request'.moved = {} /\ request'.members = {} /\ request'.gone = {}
        /\ cluster' = cluster
    BY <1>2, CloseEffect DEF Unseen
  <2>2. cluster[k].reason # "none" => cluster'[k].state = "closed"
    BY <1>0, <2>1 DEF Reasoned
  <2> QED BY <1>0, <2>1, <2>2 DEF RequestInv, Exists, Active
<1>3. ASSUME NEW source \in Keys, NEW target \in Keys, Merge(source, target) PROVE RequestInv'
  <2>1. /\ Exists(source) /\ Exists(target) /\ source # target
        /\ request'.at = "read" /\ request'.source = source /\ request'.target = target
        /\ request'.source_row = cluster[source] /\ request'.target_row = cluster[target]
        /\ request'.reason # "none" /\ request'.crossed = FALSE
        /\ request'.moved = {} /\ request'.members = {} /\ request'.gone = {}
        /\ cluster' = cluster
    BY <1>3, MergeEffect DEF Unseen
  <2>2. cluster[source].reason # "none" => cluster'[source].state = "closed"
    BY <1>0, <2>1 DEF Reasoned
  <2>3. CountInv(request.target)'
    BY <2>1 DEF CountInv
  <2>4. Exists(source)' /\ Exists(target)'
    BY <2>1 DEF Exists
  <2> QED BY <1>0, <2>1, <2>2, <2>3, <2>4 DEF RequestInv
<1>4. CASE Move
  <2> DEFINE m == MembersOf(request.source)
  <2>1. /\ request.at = "read" /\ request' = [request EXCEPT !.at = "moved", !.moved = m]
        /\ request.target \in request.gone => m = {}
        /\ UNCHANGED <<alert, cluster, reused>>
    BY <1>4 DEF Move, blameVars
  <2>2. /\ \A a \in m : alert[a].cluster = request.source
        /\ m # {} => request.source \notin request.gone /\ request.target \notin request.gone
    BY <2>1 DEF MembersOf, Members
  <2> HIDE DEF m
  <2>3. /\ request'.at = "moved" /\ request'.source = request.source /\ request'.target = request.target
        /\ request'.source_row = request.source_row /\ request'.target_row = request.target_row
        /\ request'.reason = request.reason /\ request'.moved = m
        /\ request'.members = request.members /\ request'.gone = request.gone
        /\ request'.crossed = request.crossed
    BY <1>0, <2>1 DEF Request
  <2>4. request.target \in Keys /\ request.source \in Keys
    BY <1>0, <2>1 DEF RequestInv
  <2>5. CountInv(request.target) => CountInv(request.target)'
    BY <2>1, <2>3 DEF CountInv, Members
  <2> QED BY <1>0, <2>1, <2>2, <2>3, <2>4, <2>5 DEF RequestInv, Exists
<1>5. CASE Recount
  <2> DEFINE m == request.moved \cup MembersOf(request.target)
  <2>1. /\ request.at = "moved" /\ request' = [request EXCEPT !.at = "committing", !.members = m]
        /\ UNCHANGED <<alert, cluster, reused>>
    BY <1>5 DEF Recount, blameVars
  <2>2. /\ request.moved \subseteq m
        /\ request.target \notin request.gone => m = request.moved \cup Members(request.target)
    BY DEF MembersOf
  <2> HIDE DEF m
  <2>3. /\ request'.at = "committing" /\ request'.source = request.source
        /\ request'.target = request.target
        /\ request'.source_row = request.source_row /\ request'.target_row = request.target_row
        /\ request'.reason = request.reason /\ request'.moved = request.moved
        /\ request'.members = m /\ request'.gone = request.gone
        /\ request'.crossed = request.crossed
    BY <1>0, <2>1 DEF Request
  <2>4. request.target \in Keys /\ request.source \in Keys
    BY <1>0, <2>1 DEF RequestInv
  <2>5. request.target \notin request.gone /\ CountInv(request.target) => CountInv(request.target)'
    BY <2>1, <2>2, <2>3 DEF CountInv, Members
  <2> QED BY <1>0, <2>1, <2>2, <2>3, <2>4, <2>5 DEF RequestInv, Exists
<1>6. CASE LoseRequest \/ CommitRequest
  BY <1>6, NothingAsked DEF LoseRequest, CommitRequest
<1> QED BY <1>1, <1>2, <1>3, <1>4, <1>5, <1>6, HandCases DEF Begins, Prepares

LEMMA TypeInit ==
    ASSUME Init
    PROVE  TypeInv
<1>1. TypeOK
  <2>1. /\ alert \in [Alerts -> AlertRow] /\ cluster \in [Keys -> ClusterRow] /\ job \in Pass
        /\ now \in 0 .. TimeBound /\ hands \in 0 .. HandBound /\ request \in Request
    BY NoPassType, WindowsAssumption DEF Init
  <2> QED BY <2>1, NoPassType DEF Init, TypeOK
<1>2. PassInv
  BY NoPassType DEF Init, PassInv
<1>3. RequestInv
  BY NoPassType, KeysAssumption DEF Init, RequestInv
<1> QED BY <1>1, <1>2, <1>3 DEF TypeInv, RowInv

LEMMA TypeStep ==
    ASSUME TypeInv, [Next]_vars
    PROVE  TypeInv'
<1>1. CASE Tick
  <2>1. now' \in 0 .. TimeBound
    BY <1>1, TypeOf, WindowsAssumption DEF Tick
  <2>2. UNCHANGED <<alert, cluster, job, cleanup, request, hands, reused, thinned, untold, overtaken>>
    BY <1>1 DEF Tick, blameVars
  <2>3. PassInv' /\ (\A k \in Keys : Reasoned(k)') /\ (\A a \in Alerts : Linked(a)')
    BY <2>2, TypeOf DEF TypeInv, RowInv, PassInv, Reasoned, Linked, Exists
  <2>4. RequestInv'
    BY <1>1, NothingAsked DEF Tick
  <2> QED BY <2>1, <2>2, <2>3, <2>4, TypeOf, TypeFrom DEF TypeInv
<1>2. CASE UNCHANGED vars
  <2>1. RowInv'
    BY <1>2 DEF vars, TypeInv, RowInv, TypeOK, PassInv, Exists
  <2>2. RequestInv'
    BY <1>2 DEF vars, TypeInv, RequestInv, CountInv, Exists, Members
  <2> QED BY <2>1, <2>2 DEF TypeInv
<1> QED BY <1>1, <1>2, JobRows, CleanupRows, HandRows, RequestJob, RequestCleanup, RequestHand
        DEF Next, TypeInv

LEMMA TypeHolds == Spec => []TypeInv
BY TypeInit, TypeStep, PTL DEF Spec

\* Every row keeps its type, a closed cluster has a reason, and no alert is linked to a
\* cluster that is not there.
THEOREM TypeCorrect == Spec => []TypeOK
<1>1. TypeInv => TypeOK
  BY DEF TypeInv, RowInv
<1> QED BY <1>1, TypeHolds, PTL

---------------------------------------------------------------------------
(* Why a cluster closes, and when it goes                                  *)

LEMMA ChosenJob ==
    ASSUME TypeInv, ChosenInv, JobStep
    PROVE  ChosenInv'
<1>0. PassInv /\ cleanup \in SUBSET Keys /\ job \in Pass /\ NoPass.inactive = {} /\ NoPass.at = "idle"
  BY TypeOf, NoPassType DEF TypeInv, RowInv
<1>1. ASSUME job'.inactive = {}, UNCHANGED <<now, cleanup>>, overtaken'.cleanup = overtaken.cleanup,
             \A k \in cleanup : cluster'[k].state = cluster[k].state /\ cluster'[k].closed_at = cluster[k].closed_at
      PROVE  ChosenInv'
  BY <1>0, <1>1 DEF ChosenInv, Expired
<1>2. CASE Read
  BY <1>1, <1>2, ReadEffect DEF TablesKept
<1>3. ASSUME NEW k \in Keys, LookUp(k) PROVE ChosenInv'
  BY <1>1, <1>3, LookUpEffect DEF TablesKept
<1>4. CASE RollBack
  BY <1>0, <1>1, <1>4, RollBackEffect DEF TablesKept
<1>5. CASE Commit
  <2>1. ASSUME NEW k \in cleanup
        PROVE  cluster'[k].state = cluster[k].state /\ cluster'[k].closed_at = cluster[k].closed_at
    <3>1. k \in Keys /\ Exists(k)
      BY <1>0, <2>1 DEF ChosenInv, Exists
    <3>2. CASE job.group[k] = {}
      BY <1>5, <3>1, <3>2, CommitEffect
    <3>3. CASE job.group[k] # {}
      <4>1. job.todo = {} /\ Writes(k)
        BY <1>5, <3>1, <3>3, CommitEffect
      <4>2. job.row[k].state # "none"
        BY <1>0, <3>1, <3>3, <4>1 DEF PassInv
      <4> QED BY <4>1, <4>2 DEF Writes
    <3> QED BY <3>2, <3>3
  <2> QED BY <1>1, <1>5, <2>1, CommitEffect
<1>6. CASE FindInactive
  <2>1. /\ job'.inactive = {k \in Keys : Quiet(k)} /\ overtaken'.cleanup = overtaken.cleanup
        /\ UNCHANGED <<now, cluster, cleanup>>
    BY <1>6, FindInactiveEffect DEF TablesKept
  <2>2. \A k \in job'.inactive : Quiet(k) /\ Active(k)
    BY <2>1 DEF Quiet
  <2>3. \A k \in job'.inactive : Quiet(k)' /\ Active(k)'
    BY <2>1, <2>2 DEF Quiet, Active
  <2>4. \A k \in cleanup : cluster[k].state = "closed" /\ (Expired(k) \/ k \in overtaken.cleanup)
    BY DEF ChosenInv
  <2>5. \A k \in cleanup' : cluster'[k].state = "closed" /\ (Expired(k)' \/ k \in overtaken'.cleanup)
    BY <2>1, <2>4 DEF Expired
  <2>6. job'.inactive \cap cleanup' = {}
    BY <2>1, <2>2, <2>4 DEF Active
  <2> QED BY <2>3, <2>5, <2>6 DEF ChosenInv
<1>7. CASE CloseInactive
  <2>1. \A k \in cleanup : cluster'[k] = cluster[k]
    BY <1>0, <1>7, CloseInactiveEffect DEF ChosenInv
  <2> QED BY <1>0, <1>1, <1>7, <2>1, CloseInactiveEffect
<1> QED BY <1>2, <1>3, <1>4, <1>5, <1>6, <1>7 DEF JobStep

LEMMA ChosenCleanup ==
    ASSUME TypeInv, ChosenInv, FindExpired \/ DeleteExpired
    PROVE  ChosenInv'
<1>0. /\ job.inactive \in SUBSET Keys /\ Retention \in Nat /\ now \in Nat
  BY TypeOf, WindowsAssumption DEF Pass
<1>1. CASE FindExpired
  <2>1. /\ cleanup' = {k \in Keys : Expired(k)} /\ overtaken'.job = overtaken.job
        /\ UNCHANGED <<now, cluster, job>>
    BY <1>1, FindExpiredEffect
  <2>2. \A k \in cleanup' : cluster'[k].state = "closed" /\ Expired(k)'
    BY <2>1 DEF Expired
  <2>3. job'.inactive \cap cleanup' = {}
    <3>1. ASSUME NEW k \in job.inactive PROVE ~Expired(k)
      <4>1. Active(k) \/ cluster[k].closed_at = now
        BY DEF ChosenInv
      <4> QED BY <1>0, <4>1 DEF Active, Expired
    <3> QED BY <2>1, <3>1
  <2>4. \A k \in job'.inactive : /\ Quiet(k)' \/ k \in overtaken'.job
                                 /\ Active(k)' \/ (cluster'[k].state = "closed" /\ cluster'[k].closed_at = now')
    BY <2>1 DEF ChosenInv, Quiet, Active
  <2> QED BY <2>2, <2>3, <2>4 DEF ChosenInv
<1>2. CASE DeleteExpired
  <2>1. cleanup' = {} /\ UNCHANGED <<now, job>> /\ overtaken'.job = overtaken.job
    BY <1>2, DeleteExpiredEffect
  <2>2. \A k \in job.inactive : cluster'[k] = cluster[k]
    BY <1>0, <1>2, DeleteExpiredEffect DEF ChosenInv
  <2> QED BY <2>1, <2>2 DEF ChosenInv, Quiet, Active
<1> QED BY <1>1, <1>2

LEMMA ChosenHand ==
    ASSUME TypeInv, ChosenInv, HandStep
    PROVE  ChosenInv'
<1>0. job.inactive \in SUBSET Keys /\ cleanup \in SUBSET Keys
  BY TypeOf DEF Pass
<1>1. ASSUME UNCHANGED <<now, job, cleanup>>,
             overtaken.job \subseteq overtaken'.job, overtaken.cleanup \subseteq overtaken'.cleanup,
             \A k \in job.inactive :
                /\ cluster'[k] = cluster[k] \/ k \in overtaken'.job
                /\ \/ cluster'[k].state = cluster[k].state /\ cluster'[k].closed_at = cluster[k].closed_at
                   \/ cluster'[k].state = "closed" /\ cluster'[k].closed_at = now,
             \A k \in cleanup : /\ cluster'[k] = cluster[k] \/ k \in overtaken'.cleanup
                                /\ cluster'[k].state = "closed" \/ cluster'[k].state = cluster[k].state
      PROVE  ChosenInv'
  <2>1. \A k \in job.inactive : /\ Quiet(k)' \/ k \in overtaken'.job
                                /\ Active(k)' \/ (cluster'[k].state = "closed" /\ cluster'[k].closed_at = now)
    BY <1>1 DEF ChosenInv, Quiet, Active
  <2>2. \A k \in cleanup : cluster'[k].state = "closed" /\ (Expired(k)' \/ k \in overtaken'.cleanup)
    BY <1>1 DEF ChosenInv, Expired
  <2> QED BY <1>1, <2>1, <2>2 DEF ChosenInv
<1>2. CASE SomeReceive \/ \E a \in Alerts : AlertHand(a)
  <2>1. AlertsOnly
    BY <1>2, ReceiveEffect, AlertHands
  <2> QED BY <1>1, <2>1 DEF AlertsOnly
<1>3. CASE Begins \/ Prepares
  <2>1. Unseen
    BY <1>3, CloseEffect, MergeEffect, PreparesEffect DEF Begins
  <2> QED BY <1>1, <2>1 DEF Unseen
<1>4. CASE CommitRequest
  <2>1. /\ UNCHANGED <<now, job, cleanup>> /\ SourceClosed
        /\ request.target \in Keys => TargetCounted
        /\ \A k \in Keys \ {request.source, request.target} : cluster'[k] = cluster[k]
        /\ overtaken.job \subseteq overtaken'.job /\ overtaken.cleanup \subseteq overtaken'.cleanup
        /\ \A k \in {request.source} \cup (IF request.members = {} THEN {} ELSE {request.target}) :
              (k \in job.inactive => k \in overtaken'.job) /\ (k \in cleanup => k \in overtaken'.cleanup)
    BY <1>4, CommitRequestEffect
  <2>2. ASSUME NEW k \in Keys
        PROVE  /\ \/ cluster'[k] = cluster[k]
                  \/ (k \in job.inactive => k \in overtaken'.job) /\ (k \in cleanup => k \in overtaken'.cleanup)
               /\ \/ cluster'[k].state = cluster[k].state /\ cluster'[k].closed_at = cluster[k].closed_at
                  \/ cluster'[k].state = "closed" /\ cluster'[k].closed_at = now
    <3>1. CASE k = request.source
      BY <2>1, <3>1 DEF SourceClosed
    <3>2. CASE k = request.target
      BY <2>1, <3>2 DEF TargetCounted
    <3>3. CASE k \notin {request.source, request.target}
      BY <2>1, <3>3
    <3> QED BY <3>1, <3>2, <3>3
  <2> QED BY <1>0, <1>1, <2>1, <2>2
<1> QED BY <1>2, <1>3, <1>4, HandCases

LEMMA ChosenStep ==
    ASSUME TypeInv, ChosenInv, [Next]_vars
    PROVE  ChosenInv'
<1>1. CASE Tick
  BY <1>1, NoPassType DEF Tick, ChosenInv
<1>2. CASE UNCHANGED vars
  BY <1>2 DEF vars, ChosenInv, Quiet, Active, Expired
<1> QED BY <1>1, <1>2, ChosenJob, ChosenCleanup, ChosenHand DEF Next

LEMMA ChosenHolds == Spec => []ChosenInv
<1>1. Init => ChosenInv
  BY NoPassType DEF Init, ChosenInv
<1>2. TypeInv /\ ChosenInv /\ [Next]_vars => ChosenInv'
  BY ChosenStep
<1> QED BY <1>1, <1>2, TypeHolds, PTL DEF Spec

\* A handler leaves the pass and the cleanup alone, and deletes no cluster.
LEMMA HandKeeps ==
    ASSUME TypeInv, HandStep
    PROVE  /\ UNCHANGED <<job, cleanup>>
           /\ \A k \in Keys : Exists(k) => Exists(k)'
<1>1. CASE SomeReceive \/ \E a \in Alerts : AlertHand(a)
  BY <1>1, ReceiveEffect, AlertHands DEF AlertsOnly, Exists
<1>2. CASE Begins \/ Prepares
  <2>1. Unseen
    BY <1>2, CloseEffect, MergeEffect, PreparesEffect DEF Begins
  <2> QED BY <2>1 DEF Unseen, Exists
<1>3. CASE CommitRequest
  <2>1. /\ UNCHANGED <<job, cleanup>> /\ SourceClosed
        /\ request.target \in Keys => TargetCounted
        /\ \A k \in Keys \ {request.source, request.target} : cluster'[k] = cluster[k]
    BY <1>3, CommitRequestEffect
  <2>2. ASSUME NEW k \in Keys, Exists(k) PROVE Exists(k)'
    BY <2>1, <2>2 DEF SourceClosed, TargetCounted, Exists
  <2> QED BY <2>1, <2>2
<1> QED BY <1>1, <1>2, <1>3, HandCases

\* How a step of the job can write the row of a cluster.
LEMMA JobSteps ==
    ASSUME TypeInv, [Next]_vars, job'.at # job.at, NEW k \in Keys
    PROVE  cluster'[k].reason \in {cluster[k].reason, "none"} \/ (CloseInactive /\ k \in job.inactive)
<1>1. JobStep
  <2>1. FindExpired \/ DeleteExpired => job' = job
    BY FindExpiredEffect, DeleteExpiredEffect
  <2>2. HandStep => job' = job
    BY HandKeeps
  <2>3. Tick \/ UNCHANGED vars => job' = job
    BY DEF Tick, vars
  <2> QED BY <2>1, <2>2, <2>3 DEF Next
<1>2. CASE Commit
  BY <1>2, CommitEffect DEF Writes
<1>3. CASE CloseInactive
  BY <1>3, CloseInactiveEffect
<1>4. ASSUME NEW l \in Keys, LookUp(l) PROVE cluster' = cluster
  BY <1>4 DEF LookUp
<1> QED BY <1>1, <1>2, <1>3, <1>4 DEF JobStep, Read, RollBack, FindInactive

\* The job times out a cluster only when it is active and quiet, or a handler wrote it
\* between the two steps of close_inactive_clusters.
THEOREM TimeoutIsQuiet == Spec => TimesOutWhenQuiet
<1>1. ASSUME TypeInv, ChosenInv, [Next]_vars
      PROVE  \A k \in Keys :
                job'.at # job.at /\ cluster'[k].reason = "timeout" /\ cluster[k].reason # "timeout" =>
                   Quiet(k) \/ k \in overtaken.job
  <2> SUFFICES ASSUME NEW k \in Keys, job'.at # job.at,
                      cluster'[k].reason = "timeout", cluster[k].reason # "timeout"
               PROVE  Quiet(k) \/ k \in overtaken.job
    OBVIOUS
  <2>1. k \in job.inactive
    BY <1>1, JobSteps
  <2> QED BY <1>1, <2>1 DEF ChosenInv
<1>2. TypeInv /\ ChosenInv /\ [Next]_vars =>
        [\A k \in Keys :
            job'.at # job.at /\ cluster'[k].reason = "timeout" /\ cluster[k].reason # "timeout" =>
               Quiet(k) \/ k \in overtaken.job]_vars
  BY <1>1
<1> QED BY <1>2, TypeHolds, ChosenHolds, PTL DEF Spec, TimesOutWhenQuiet

\* A cluster is deleted after its retention only, or a merge wrote it after the cleanup
\* had chosen it.
THEOREM RetentionIsKept == Spec => KeptForItsTime
<1>1. ASSUME TypeInv, ChosenInv, [Next]_vars
      PROVE  \A k \in Keys : Exists(k) /\ cluster'[k].state = "none" =>
                Expired(k) \/ k \in overtaken.cleanup
  <2> SUFFICES ASSUME NEW k \in Keys, Exists(k), cluster'[k].state = "none"
               PROVE  Expired(k) \/ k \in overtaken.cleanup
    OBVIOUS
  <2>1. DeleteExpired
    <3>1. CASE JobStep
      <4>1. CASE Commit
        BY <1>1, <4>1, CommitEffect DEF Writes, Exists
      <4>2. CASE CloseInactive
        BY <1>1, <4>2, CloseInactiveEffect DEF Exists
      <4>3. ASSUME NEW l \in Keys, LookUp(l) PROVE cluster' = cluster
        BY <4>3 DEF LookUp
      <4> QED BY <3>1, <4>1, <4>2, <4>3 DEF JobStep, Read, RollBack, FindInactive, Exists
    <3>2. CASE FindExpired
      BY <1>1, <3>2, FindExpiredEffect DEF Exists
    <3>3. CASE HandStep
      BY <1>1, <3>3, HandKeeps DEF Exists
    <3>4. CASE Tick \/ UNCHANGED vars
      BY <3>4 DEF Tick, vars, Exists
    <3> QED BY <1>1, <3>1, <3>2, <3>3, <3>4 DEF Next
  <2>2. k \in cleanup
    BY <1>1, <2>1, DeleteExpiredEffect DEF Exists
  <2> QED BY <1>1, <2>2 DEF ChosenInv
<1>2. TypeInv /\ ChosenInv /\ [Next]_vars =>
        [\A k \in Keys : Exists(k) /\ cluster'[k].state = "none" =>
            Expired(k) \/ k \in overtaken.cleanup]_vars
  BY <1>1
<1> QED BY <1>2, TypeHolds, ChosenHolds, PTL DEF Spec, KeptForItsTime

---------------------------------------------------------------------------
(* Alerts and their clusters                                               *)

\* Only these steps change alerts or clusters.
LEMMA TableSteps ==
    ASSUME TypeInv, [Next]_vars
    PROVE  \/ Commit \/ CloseInactive \/ DeleteExpired
           \/ SomeReceive \/ (\E a \in Alerts : AlertHand(a)) \/ CommitRequest
           \/ UNCHANGED <<alert, cluster, reused, thinned, untold>>
<1>1. CASE JobStep
  BY <1>1 DEF JobStep, Read, LookUp, RollBack, FindInactive, blameVars
<1>2. CASE FindExpired \/ Tick \/ UNCHANGED vars
  BY <1>2 DEF FindExpired, Tick, vars, blameVars
<1>3. Begins \/ Prepares => UNCHANGED <<alert, cluster, reused, thinned, untold>>
  <2>1. Begins \/ Prepares => Unseen
    BY CloseEffect, MergeEffect, PreparesEffect DEF Begins
  <2> QED BY <2>1 DEF Unseen
<1> QED BY <1>1, <1>2, <1>3, HandCases DEF Next

\* The cluster of an alert after a step that took it from the one it had.
Rehomed(a) ==
    IF alert'[a].cluster = NoKey THEN cluster'[alert[a].cluster].state = "none"
    ELSE /\ alert[a].cluster = request.source /\ alert'[a].cluster = request.target
         /\ cluster'[request.source].state = "closed"
         /\ Exists(request.target)

LEMMA HomeStep ==
    ASSUME TypeInv, [Next]_vars, NEW a \in Alerts,
           alert'[a].state = "stored", alert[a].cluster \notin {NoKey, alert'[a].cluster}
    PROVE  Rehomed(a)
<1> DEFINE k == alert[a].cluster
<1>0. k \in Keys /\ k # NoKey /\ alert[a].state = "stored"
  BY TypeOf, KeysAssumption DEF Linked
<1>1. CASE Commit
  <2>1. \A l \in Keys : a \notin job.group[l]
    BY <1>0 DEF TypeInv, RowInv, PassInv
  <2>2. alert'[a] = alert[a]
    BY <1>0, <1>1, <2>1, CommitEffect
  <2> QED BY <1>0, <2>2
<1>2. CASE CloseInactive
  BY <1>0, <1>2, CloseInactiveEffect
<1>3. CASE DeleteExpired
  <2>1. k \in cleanup /\ alert'[a].cluster = NoKey
    BY <1>0, <1>3, DeleteExpiredEffect
  <2>2. cluster'[k] = NoCluster
    BY <1>0, <1>3, <2>1, DeleteExpiredEffect
  <2> QED BY <2>1, <2>2, NoPassType DEF Rehomed
<1>4. CASE SomeReceive
  <2>1. alert'[a] = alert[a] \/ Received(a)
    BY <1>4, ReceiveEffect DEF SomeReceived
  <2> QED BY <1>0, <2>1 DEF Received, Stored
<1>5. ASSUME NEW b \in Alerts, AlertHand(b) PROVE alert'[a].cluster = k \/ alert'[a].state # "stored"
  <2>1. OneAlert(b) /\ (StatusChanged(b) \/ Deleted(b))
    BY <1>5, AlertHands
  <2>2. CASE a = b
    BY <1>0, <2>1, <2>2, NoPassType DEF StatusChanged, Deleted
  <2>3. CASE a # b
    BY <1>0, <2>1, <2>3 DEF OneAlert
  <2> QED BY <2>2, <2>3
<1>6. CASE CommitRequest
  <2>1. Moved /\ SourceClosed /\ (request.members # {} => request.target \in Keys)
    BY <1>6, CommitRequestEffect
  <2>2. a \in request.moved
    BY <2>1 DEF Moved
  <2>3. /\ alert[a].cluster = request.source /\ request.moved \subseteq request.members
        /\ request.target \notin request.gone
        /\ \A l \in Keys : l \in {request.source, request.target} \ request.gone => Exists(l)
    BY <1>6, <2>2 DEF TypeInv, RequestInv, CommitRequest
  <2>4. alert'[a].cluster = request.target /\ request.target \in Keys /\ Exists(request.target)
    BY <2>1, <2>2, <2>3 DEF Moved
  <2>5. cluster'[request.source].state = "closed"
    BY <2>1 DEF SourceClosed
  <2> QED BY <2>3, <2>4, <2>5, KeysAssumption DEF Rehomed
<1>7. CASE UNCHANGED <<alert, cluster, reused, thinned, untold>>
  BY <1>0, <1>7
<1> QED BY <1>0, <1>1, <1>2, <1>3, <1>4, <1>5, <1>6, <1>7, TableSteps

\* An alert loses its cluster only with the cluster, and changes it only by the merge that
\* closes it, for a cluster that is there.
THEOREM AlertsKeepTheirHome == Spec => HomeIsKept
<1>1. ASSUME TypeInv, [Next]_vars
      PROVE  \A a \in Alerts :
                alert'[a].state = "stored" /\ alert[a].cluster \notin {NoKey, alert'[a].cluster} =>
                   IF alert'[a].cluster = NoKey THEN cluster'[alert[a].cluster].state = "none"
                   ELSE /\ alert[a].cluster = request.source /\ alert'[a].cluster = request.target
                        /\ cluster'[request.source].state = "closed"
                        /\ Exists(request.target)
  <2> SUFFICES ASSUME NEW a \in Alerts, alert'[a].state = "stored",
                      alert[a].cluster \notin {NoKey, alert'[a].cluster}
               PROVE  Rehomed(a)
    BY DEF Rehomed
  <2> QED BY <1>1, HomeStep
<1>2. TypeInv /\ [Next]_vars =>
        [\A a \in Alerts :
            alert'[a].state = "stored" /\ alert[a].cluster \notin {NoKey, alert'[a].cluster} =>
               IF alert'[a].cluster = NoKey THEN cluster'[alert[a].cluster].state = "none"
               ELSE /\ alert[a].cluster = request.source /\ alert'[a].cluster = request.target
                    /\ cluster'[request.source].state = "closed"
                    /\ Exists(request.target)]_vars
  BY <1>1
<1> QED BY <1>2, TypeHolds, PTL DEF Spec, HomeIsKept

---------------------------------------------------------------------------
(* The figures of a cluster                                                *)

Told(k) ==
    /\ cluster[k].count = Cardinality(Members(k))
    /\ Members(k) # {}
    /\ cluster[k].last_seen = Latest(Members(k))

LEMMA ToldNext ==
    ASSUME NEW k \in Keys, NEW S \in SUBSET Alerts, S # {}, Members(k)' = S,
           alert \in [Alerts -> AlertRow], alert' \in [Alerts -> AlertRow],
           \A a \in S : alert'[a].timestamp = alert[a].timestamp,
           cluster'[k].count = Cardinality(S), cluster'[k].last_seen = Latest(S)
    PROVE  Told(k)'
<1>1. LatestIn(alert', S) = LatestIn(alert, S)
  BY SameLatest
<1>2. Latest(S) = LatestIn(alert, S) /\ Latest(Members(k))' = LatestIn(alert', S)
  BY DEF Latest, LatestIn
<1> QED BY <1>1, <1>2 DEF Told

\* Neither the row of a cluster nor its alerts changed in what the figures are made of.
LEMMA ToldKept ==
    ASSUME NEW k \in Keys, Told(k), Members(k)' = Members(k),
           alert \in [Alerts -> AlertRow], alert' \in [Alerts -> AlertRow],
           \A a \in Members(k) : alert'[a].timestamp = alert[a].timestamp,
           cluster'[k].count = cluster[k].count, cluster'[k].last_seen = cluster[k].last_seen
    PROVE  Told(k)'
<1>1. PICK S \in SUBSET Alerts : S = Members(k)
  BY DEF Members
<1> QED BY <1>1, ToldNext DEF Told

LEMMA StatsStep ==
    ASSUME TypeInv, ChosenInv, StatsTellMembers, [Next]_vars
    PROVE  StatsTellMembers'
<1> SUFFICES ASSUME NEW k \in Keys, Exists(k)', k \notin reused', k \notin thinned'
             PROVE  Told(k)'
  BY DEF StatsTellMembers, Told
<1>0. /\ alert \in [Alerts -> AlertRow] /\ cluster \in [Keys -> ClusterRow] /\ NoKey \notin Keys
      /\ \A a \in Alerts : Linked(a) /\ alert[a].cluster \in Keys \cup {NoKey}
      /\ Exists(k) /\ k \notin reused /\ k \notin thinned => Told(k)
      /\ job.group \in [Keys -> SUBSET Alerts] /\ job.inactive \in SUBSET Keys
  BY TypeOf, KeysAssumption DEF StatsTellMembers, Told, Pass
<1>1. CASE Commit
  <2>0. /\ alert' \in [Alerts -> AlertRow] /\ job.todo = {}
        /\ \A a \in Alerts : alert'[a].timestamp = alert[a].timestamp
    BY <1>1, CommitEffect
  <2>1. ASSUME NEW a \in Alerts
        PROVE  alert'[a].cluster = k <=> alert[a].cluster = k \/ a \in job.group[k]
    <3>1. CASE \A l \in Keys : a \notin job.group[l]
      BY <1>1, <3>1, CommitEffect
    <3>2. ASSUME NEW l \in Keys, a \in job.group[l]
          PROVE  alert'[a].cluster = l /\ alert[a].cluster = NoKey /\ (a \in job.group[k] <=> k = l)
      <4>1. Links(l)
        BY <1>1, <3>2, CommitEffect
      <4>2. alert[a].cluster = NoKey /\ (k # l => job.group[k] \cap job.group[l] = {})
        BY <3>2 DEF TypeInv, RowInv, PassInv
      <4> QED BY <3>2, <4>1, <4>2 DEF Links
    <3> QED BY <1>0, <3>1, <3>2
  <2>2. Members(k)' = Members(k) \cup job.group[k]
    BY <1>0, <2>1 DEF Members
  <2>3. CASE job.group[k] = {}
    <3>1. Members(k)' = Members(k) /\ cluster'[k] = cluster[k] /\ k \notin reused /\ k \notin thinned
      BY <1>1, <2>2, <2>3, CommitEffect
    <3>2. Told(k)
      BY <1>0, <3>1 DEF Exists
    <3> QED BY <1>0, <2>0, <3>1, <3>2, ToldKept DEF Members
  <2>4. CASE job.group[k] # {}
    <3>1. job.row[k].state = "none" /\ Writes(k)
      BY <1>1, <2>4, CommitEffect
    <3>2. ~Exists(k)
      BY <2>0, <2>4, <3>1 DEF TypeInv, RowInv, PassInv
    <3>3. Members(k)' = job.group[k]
      BY <1>0, <2>2, <3>2 DEF Members, Linked
    <3>4. cluster'[k].count = Cardinality(job.group[k]) /\ cluster'[k].last_seen = Latest(job.group[k])
      BY <3>1 DEF Writes
    <3>5. PICK S \in SUBSET Alerts : S = job.group[k]
      BY <1>0
    <3> QED BY <1>0, <2>0, <2>4, <3>3, <3>4, <3>5, ToldNext
  <2> QED BY <2>3, <2>4
<1>2. CASE CloseInactive
  <2>1. /\ UNCHANGED <<alert, reused, thinned>>
        /\ cluster'[k].count = cluster[k].count /\ cluster'[k].last_seen = cluster[k].last_seen
    BY <1>2, CloseInactiveEffect
  <2>2. Exists(k)
    BY <1>2, CloseInactiveEffect DEF ChosenInv, Exists, Active
  <2> QED BY <1>0, <2>1, <2>2, ToldKept DEF Members
<1>3. CASE DeleteExpired
  <2>1. k \notin cleanup /\ cluster'[k] = cluster[k]
    BY <1>3, DeleteExpiredEffect, NoPassType DEF Exists
  <2>2. k \notin reused /\ k \notin thinned /\ alert' \in [Alerts -> AlertRow]
    BY <1>3, <2>1, DeleteExpiredEffect
  <2>3. Members(k)' = Members(k) /\ \A a \in Members(k) : alert'[a] = alert[a]
    BY <1>0, <1>3, <2>1, DeleteExpiredEffect DEF Members
  <2> QED BY <1>0, <2>1, <2>2, <2>3, ToldKept DEF Exists
<1>4. ASSUME NEW a \in Alerts, AlertHand(a) PROVE Told(k)'
  <2>1. AlertsOnly /\ OneAlert(a) /\ (StatusChanged(a) \/ Deleted(a))
    BY <1>4, AlertHands
  <2>2. k \notin reused /\ k \notin thinned /\ Exists(k)
    BY <2>1 DEF StatusChanged, Deleted, AlertsOnly, Exists
  <2>3. \A b \in Alerts : b # a => alert'[b] = alert[b]
    BY <2>1 DEF OneAlert
  <2>4. (alert[a].cluster = k <=> alert'[a].cluster = k)
        /\ (alert[a].cluster = k => alert'[a].timestamp = alert[a].timestamp)
    <3>1. CASE StatusChanged(a)
      BY <3>1 DEF StatusChanged
    <3>2. CASE Deleted(a)
      <4>1. alert[a].cluster # k
        BY <1>0, <3>2 DEF Deleted, Home
      <4> QED BY <1>0, <3>2, <4>1, NoPassType DEF Deleted
    <3> QED BY <2>1, <3>1, <3>2
  <2>5. Members(k)' = Members(k)
    BY <2>3, <2>4 DEF Members
  <2>6. \A b \in Members(k) : alert'[b].timestamp = alert[b].timestamp
    BY <2>3, <2>4 DEF Members
  <2> QED BY <1>0, <2>1, <2>2, <2>5, <2>6, ToldKept DEF AlertsOnly
<1>5. CASE CommitRequest
  <2>1. /\ alert' \in [Alerts -> AlertRow] /\ request.at = "committing"
        /\ request.source \in Keys /\ request.source \notin request.gone /\ request.source # request.target
        /\ request.members # {} => request.target \in Keys /\ request.target \notin request.gone
        /\ reused' = IF request.crossed \/ request.members = {} THEN reused ELSE reused \ {request.target}
        /\ thinned \subseteq thinned' \cup {request.target}
        /\ request.members = {} => thinned \subseteq thinned'
        /\ request.target \in Keys => request.source \in thinned'
    BY <1>5, CommitRequestEffect
  <2>2. /\ Moved /\ SourceClosed /\ (request.target \in Keys => TargetCounted)
        /\ \A l \in Keys \ {request.source, request.target} : cluster'[l] = cluster[l]
    BY <1>5, CommitRequestEffect
  <2>3. /\ \A l \in Keys : l \in {request.source, request.target} \ request.gone => Exists(l)
        /\ request.moved \subseteq request.members /\ request.members \in SUBSET Alerts
        /\ request.moved \in SUBSET Alerts /\ request.target \in Keys \cup {NoKey}
        /\ \A a \in request.moved : alert[a].cluster = request.source
        /\ request.target = NoKey => request.moved = {} /\ request.members = {}
        /\ request.target \in Keys /\ request.target \notin request.gone => CountInv(request.target)
    BY <2>1, TypeOf DEF TypeInv, RequestInv, Request
  <2>4. \A a \in Alerts : /\ alert'[a].timestamp = alert[a].timestamp
                          /\ alert'[a].cluster = IF a \in request.moved THEN request.target ELSE alert[a].cluster
    BY <2>2 DEF Moved
  <2>5. CASE k = request.source
    <3>1. request.target = NoKey /\ request.moved = {} /\ request.members = {}
      BY <2>1, <2>3, <2>5
    <3>2. k \notin reused /\ k \notin thinned /\ Exists(k)
      BY <2>1, <2>3, <2>5, <3>1
    <3>3. Members(k)' = Members(k)
      BY <2>4, <3>1 DEF Members
    <3>4. cluster'[k].count = cluster[k].count /\ cluster'[k].last_seen = cluster[k].last_seen
      BY <2>2, <2>5 DEF SourceClosed
    <3> QED BY <1>0, <2>1, <2>4, <3>2, <3>3, <3>4, ToldKept DEF Members
  <2>6. CASE k = request.target /\ request.members = {}
    <3>1. request.moved = {} /\ cluster'[k] = cluster[k]
      BY <2>2, <2>3, <2>6 DEF TargetCounted
    <3>2. k \notin reused /\ k \notin thinned /\ Exists(k)
      BY <2>1, <2>6, <3>1 DEF Exists
    <3>3. Members(k)' = Members(k)
      BY <2>4, <3>1 DEF Members
    <3> QED BY <1>0, <2>1, <2>4, <3>1, <3>2, <3>3, ToldKept DEF Members
  <2>7. CASE k = request.target /\ request.members # {}
    <3>1. CountInv(k) /\ TargetCounted
      BY <2>1, <2>2, <2>3, <2>7
    <3>2. ~request.crossed
      BY <2>1, <3>1 DEF CountInv
    <3>3. /\ cluster[k].count = request.target_row.count
          /\ cluster[k].last_seen = request.target_row.last_seen
          /\ request.members = request.moved \cup Members(k)
      BY <2>1, <3>1, <3>2 DEF CountInv
    <3>4. PICK S \in SUBSET Alerts : S = request.members
      BY <2>3
    <3>5. /\ cluster'[k].count = Written(request.target_row.count, Cardinality(S), cluster[k].count)
          /\ cluster'[k].last_seen = Written(request.target_row.last_seen, Latest(S), cluster[k].last_seen)
      BY <2>7, <3>1, <3>4 DEF TargetCounted
    <3>6. cluster'[k].count = Cardinality(S) /\ cluster'[k].last_seen = Latest(S)
      BY <3>3, <3>5 DEF Written
    <3>7. Members(k)' = S
      BY <2>3, <2>4, <2>7, <3>3, <3>4 DEF Members
    <3> QED BY <1>0, <2>1, <2>4, <2>7, <3>4, <3>6, <3>7, ToldNext
  <2>8. CASE k \notin {request.source, request.target}
    <3>1. cluster'[k] = cluster[k] /\ k \notin reused /\ k \notin thinned
      BY <2>1, <2>2, <2>8
    <3>2. Members(k)' = Members(k)
      BY <2>3, <2>4, <2>8 DEF Members
    <3> QED BY <1>0, <2>1, <2>4, <3>1, <3>2, ToldKept DEF Members, Exists
  <2> QED BY <2>5, <2>6, <2>7, <2>8
<1>6. CASE SomeReceive
  <2>1. AlertsOnly /\ SomeReceived
    BY <1>6, ReceiveEffect
  <2>2. \A b \in Alerts : alert[b].cluster # NoKey \/ alert'[b].cluster # NoKey => alert'[b] = alert[b]
    BY <1>0, <2>1 DEF SomeReceived, Received, Linked, Stored
  <2>3. Members(k)' = Members(k) /\ \A b \in Members(k) : alert'[b] = alert[b]
    BY <1>0, <2>2 DEF Members
  <2>4. k \notin reused /\ k \notin thinned /\ Exists(k) /\ cluster' = cluster
    BY <2>1 DEF AlertsOnly, SomeReceived, Exists
  <2> QED BY <1>0, <2>1, <2>3, <2>4, ToldKept DEF AlertsOnly
<1>7. CASE UNCHANGED <<alert, cluster, reused, thinned, untold>>
  BY <1>0, <1>7, ToldKept DEF Members, Exists
<1> QED BY <1>1, <1>2, <1>3, <1>4, <1>5, <1>6, <1>7, TableSteps

\* The figures a cluster shows are those of its alerts, unless the job wrote those of one
\* batch over it or alerts left it and nobody counted again.
THEOREM FiguresAreTrue == Spec => []StatsTellMembers
<1>1. Init => StatsTellMembers
  BY NoPassType DEF Init, StatsTellMembers, Exists
<1>2. TypeInv /\ ChosenInv /\ StatsTellMembers /\ [Next]_vars => StatsTellMembers'
  BY StatsStep
<1> QED BY <1>1, <1>2, TypeHolds, ChosenHolds, PTL DEF Spec

---------------------------------------------------------------------------
(* Open alerts of an active cluster                                        *)

Open(k) == \E a \in Members(k) : alert[a].status # "resolved"

LEMMA OpenStep ==
    ASSUME TypeInv, ChosenInv, OneStaysOpen, [Next]_vars
    PROVE  OneStaysOpen'
<1> SUFFICES ASSUME NEW k \in Keys, Active(k)', Members(k)' # {}, k \notin untold'
             PROVE  Open(k)'
  BY DEF OneStaysOpen, Open
<1>0. /\ NoKey \notin Keys
      /\ \A a \in Alerts : Linked(a) /\ alert[a].cluster \in Keys \cup {NoKey}
      /\ Active(k) /\ Members(k) # {} /\ k \notin untold => Open(k)
      /\ job.group \in [Keys -> SUBSET Alerts]
  BY TypeOf, KeysAssumption DEF OneStaysOpen, Open, Pass
<1>1. CASE Commit
  <2>0. \A a \in Alerts : alert'[a].status = alert[a].status
    BY <1>1, CommitEffect
  <2>1. CASE job.group[k] # {}
    <3>1. PICK a \in job.group[k] : TRUE
      BY <2>1
    <3>2. Links(k) /\ alert[a].status # "resolved"
      BY <1>1, <2>1, <3>1, CommitEffect
    <3>3. a \in Alerts /\ alert'[a].cluster = k /\ alert'[a].status # "resolved"
      BY <1>0, <2>0, <3>1, <3>2 DEF Links
    <3> QED BY <3>3 DEF Open, Members
  <2>2. CASE job.group[k] = {}
    <3>1. cluster'[k] = cluster[k] /\ k \notin untold
      BY <1>1, <2>2, CommitEffect
    <3>2. ASSUME NEW a \in Alerts PROVE alert'[a].cluster = k <=> alert[a].cluster = k
      <4>1. CASE \A l \in Keys : a \notin job.group[l]
        BY <1>1, <4>1, CommitEffect
      <4>2. ASSUME NEW l \in Keys, a \in job.group[l]
            PROVE  alert'[a].cluster = l /\ alert[a].cluster = NoKey /\ k # l
        <5>1. Links(l)
          BY <1>1, <4>2, CommitEffect
        <5> QED BY <2>2, <4>2, <5>1 DEF Links, TypeInv, RowInv, PassInv
      <4> QED BY <1>0, <4>1, <4>2
    <3>3. Members(k)' = Members(k)
      BY <3>2 DEF Members
    <3>4. Open(k)
      BY <1>0, <3>1, <3>3 DEF Active
    <3> QED BY <2>0, <3>3, <3>4 DEF Open, Members
  <2> QED BY <2>1, <2>2
<1>2. CASE CloseInactive
  <2>1. UNCHANGED <<alert, untold>> /\ cluster'[k] = cluster[k]
    BY <1>2, CloseInactiveEffect DEF Active
  <2> QED BY <1>0, <2>1 DEF Active, Members, Open
<1>3. CASE DeleteExpired
  <2>1. k \notin cleanup /\ cluster'[k] = cluster[k]
    BY <1>3, DeleteExpiredEffect, NoPassType DEF Active
  <2>2. k \notin untold
    BY <1>3, <2>1, DeleteExpiredEffect
  <2>3. Members(k)' = Members(k) /\ \A a \in Members(k) : alert'[a] = alert[a]
    BY <1>0, <1>3, <2>1, DeleteExpiredEffect DEF Members
  <2> QED BY <1>0, <2>1, <2>2, <2>3 DEF Active, Open
<1>4. ASSUME NEW a \in Alerts, AlertHand(a) PROVE Open(k)'
  <2>1. AlertsOnly /\ OneAlert(a) /\ (StatusChanged(a) \/ Deleted(a))
    BY <1>4, AlertHands
  <2>2. cluster'[k] = cluster[k] /\ \A b \in Alerts : b # a => alert'[b] = alert[b]
    BY <2>1 DEF AlertsOnly, OneAlert
  <2>3. CASE StatusChanged(a)
    <3>1. Members(k)' = Members(k) /\ k \notin untold
      BY <2>2, <2>3 DEF Members, StatusChanged
    <3>2. PICK b \in Members(k) : alert[b].status # "resolved"
      BY <1>0, <2>2, <3>1 DEF Active, Open
    <3>3. CASE b # a \/ alert'[a].status # "resolved"
      BY <2>2, <3>1, <3>2, <3>3 DEF Open, Members
    <3>4. CASE b = a /\ alert'[a].status = "resolved"
      <4>1. alert[a].cluster = k /\ Home(a) = {k}
        BY <1>0, <3>2, <3>4 DEF Members, Home
      <4>2. ~LastOpen(a)
        BY <2>3, <3>2, <3>4, <4>1 DEF StatusChanged
      <4>3. PICK c \in Members(k) \ {a} : alert[c].status # "resolved"
        BY <1>0, <2>2, <4>1, <4>2 DEF LastOpen, Active
      <4> QED BY <2>2, <3>1, <4>3 DEF Open, Members
    <3> QED BY <3>3, <3>4
  <2>4. CASE Deleted(a)
    <3>1. alert[a].cluster # k /\ alert'[a].cluster = NoKey /\ k \notin untold
      BY <1>0, <2>4, NoPassType DEF Deleted, Home
    <3>2. Members(k)' = Members(k)
      BY <1>0, <2>2, <3>1 DEF Members
    <3>3. \A b \in Members(k) : alert'[b] = alert[b]
      BY <2>2, <3>1 DEF Members
    <3> QED BY <1>0, <2>2, <3>1, <3>2, <3>3 DEF Active, Open
  <2> QED BY <2>1, <2>3, <2>4
<1>5. CASE CommitRequest
  <2>1. /\ Moved /\ SourceClosed
        /\ \A l \in Keys \ {request.source, request.target} : cluster'[l] = cluster[l]
        /\ request.target \in Keys => request.target \in untold'
        /\ untold \subseteq untold'
    BY <1>5, CommitRequestEffect
  <2>2. k # request.source /\ k # request.target /\ k \notin untold
    BY <2>1 DEF SourceClosed, Active
  <2>3. cluster'[k] = cluster[k]
    BY <2>1, <2>2
  <2>4. \A a \in request.moved : alert[a].cluster = request.source
    BY DEF TypeInv, RequestInv
  <2>5. Members(k)' = Members(k)
    BY <2>1, <2>2, <2>4 DEF Moved, Members
  <2>6. \A a \in Members(k) : alert'[a].status = alert[a].status
    BY <2>1 DEF Moved, Members
  <2> QED BY <1>0, <2>2, <2>3, <2>5, <2>6 DEF Active, Open
<1>6. CASE SomeReceive
  <2>1. AlertsOnly /\ SomeReceived
    BY <1>6, ReceiveEffect
  <2>2. \A b \in Alerts : alert[b].cluster # NoKey \/ alert'[b].cluster # NoKey => alert'[b] = alert[b]
    BY <1>0, <2>1 DEF SomeReceived, Received, Linked, Stored
  <2>3. Members(k)' = Members(k) /\ \A b \in Members(k) : alert'[b] = alert[b]
    BY <1>0, <2>2 DEF Members
  <2>4. k \notin untold /\ cluster' = cluster
    BY <2>1 DEF AlertsOnly, SomeReceived
  <2> QED BY <1>0, <2>3, <2>4 DEF Active, Open
<1>7. CASE UNCHANGED <<alert, cluster, reused, thinned, untold>>
  BY <1>0, <1>7 DEF Active, Members, Open
<1> QED BY <1>1, <1>2, <1>3, <1>4, <1>5, <1>6, <1>7, TableSteps

\* Nobody resolves the last open alert of an active cluster by hand: resolve_alert fails
\* there, and whatever else leaves a cluster without an open alert is told.
THEOREM LastAlertStaysOpen == Spec => []OneStaysOpen
<1>1. Init => OneStaysOpen
  BY NoPassType DEF Init, OneStaysOpen, Active
<1>2. TypeInv /\ ChosenInv /\ OneStaysOpen /\ [Next]_vars => OneStaysOpen'
  BY OpenStep
<1> QED BY <1>1, <1>2, TypeHolds, ChosenHolds, PTL DEF Spec

=============================================================================
