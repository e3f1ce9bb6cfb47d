------------------------------ MODULE TrendScout ------------------------------
(***************************************************************************)
(* The trend rows of one brand and their trigger requests (trends/scout.py,*)
(* trends/repo.py): scans that detect, refresh, propose and monitor; the   *)
(* perishability sweep; editors who add, trigger, approve, decline, close  *)
(* and dismiss.  A scan is ONE transaction over all its searches and LLM   *)
(* calls; it loads the trends first and writes from those copies at the    *)
(* end.  A web request loads, validates what it loaded and commits soon    *)
(* after.  As in ContentPipeline a write goes out as the changed columns   *)
(* and carries no condition on their old values.                           *)
(*                                                                         *)
(* A cluster is its key; whether its score clears the threshold and        *)
(* whether a trend's activity fades are facts of the world, chosen freely. *)
(* What an approved request goes through is ContentPipeline; here it is    *)
(* generating until it fails, is published or is closed.                   *)
(***************************************************************************)
EXTENDS Lifecycle, Naturals, FiniteSets, Sequences

CONSTANTS
  Clusters,      \* cluster keys
  Scans,         \* processes that run a scan or the hourly expiry
  Editors,       \* concurrent web requests
  MaxTrends, MaxRequests,  \* bounds: rows that may be inserted
  MaxOpen,       \* TREND_MAX_OPEN_PIPELINES
  MaxProposals,  \* _MAX_NEW_PROPOSALS_PER_SCAN
  MaxTogether    \* how many transactions may be open at once

ASSUME ScoutAssumption ==
  /\ Scans \cap Editors = {}
  /\ Absent \notin Clusters
  /\ MaxTrends \in Nat
  /\ MaxRequests \in Nat
  /\ MaxOpen \in Nat
  /\ MaxProposals \in Nat
  /\ MaxTogether \in Nat

VARIABLES
  trends,      \* the trend rows
  requests,    \* the content_pipeline rows
  tx,          \* the transaction each process has open
  seen,        \* trends last seen within the dedup window
  perished,    \* trends past their expires_at
  ids,         \* the two id sequences: the last trend and request id given out
  overlapped   \* history: two transactions have been open at once

scoutVars == <<trends, requests, tx, seen, perished, ids, overlapped>>

Processes == Scans \cup Editors

\* Rows get their ids from a sequence each.
TrendIds   == 1 .. MaxTrends
RequestIds == 1 .. MaxRequests
NoTrend   == 0
NoRequest == 0

TrendRow == [status : TrendStatus \cup {Absent}, key : Clusters \cup {Absent},
             suppressed : BOOLEAN]
NoTrendRow == [status |-> Absent, key |-> Absent, suppressed |-> FALSE]

RequestRow == [status : PipelineStatus \cup {Absent}, trend : TrendIds \cup {NoTrend},
               by : {"scout", "editor"}]
NoRequestRow == [status |-> Absent, trend |-> NoTrend, by |-> "editor"]

Rows == [trends : [TrendIds -> TrendRow], requests : [RequestIds -> RequestRow]]

NoRows == [trends |-> [t \in TrendIds |-> NoTrendRow],
           requests |-> [p \in RequestIds |-> NoRequestRow]]

ScoutOps == {"none", "scan", "expire", "manual", "trigger", "trigger_now", "approve",
             "decline", "close", "dismiss", "work"}

\* left: proposals this scan may still make.  todo: clusters it has not looked at.
\* touched: trends it has seen (last_seen_at) and so updated.
Tx == [op : ScoutOps, step : {"idle", "open", "sweep", "clusters", "dossier"},
       trend : TrendIds \cup {NoTrend}, request : RequestIds \cup {NoRequest},
       key : Clusters \cup {Absent}, left : 0 .. MaxProposals, todo : SUBSET Clusters,
       touched : SUBSET TrendIds, loaded : Rows, mine : Rows]

NoTx == [op |-> "none", step |-> "idle", trend |-> NoTrend, request |-> NoRequest,
         key |-> Absent, left |-> 0, todo |-> {}, touched |-> {},
         loaded |-> NoRows, mine |-> NoRows]

ScoutInit ==
  /\ trends = NoRows.trends
  /\ requests = NoRows.requests
  /\ tx = [s \in Processes |-> NoTx]
  /\ seen = {}
  /\ perished = {}
  /\ ids = [trend |-> 0, request |-> 0]
  /\ overlapped = FALSE

--------------------------------------------------------------------------------
(***************************************************************************)
(* Transactions                                                            *)
(***************************************************************************)
Busy == {s \in Processes : tx[s].op # "none"}

\* Everything committed is loaded.  (A request loads fewer rows; it writes only those of its
\* own trend and request, which it does load.)
Committed == [trends |-> trends, requests |-> requests]

Opened(op, step) ==
  [NoTx EXCEPT !.op = op, !.step = step, !.loaded = Committed, !.mine = Committed]

BeginTx(s, record) ==
  /\ tx[s].op = "none"
  /\ Cardinality(Busy) < MaxTogether
  /\ tx' = [tx EXCEPT ![s] = record]
  /\ overlapped' = (overlapped \/ Busy # {})
  /\ UNCHANGED <<trends, requests, seen, perished, ids>>

\* Rows that a transaction has updated and holds until it ends.
DirtyTrends(r)   == r.touched \cup {t \in TrendIds : r.mine.trends[t] # r.loaded.trends[t]}
DirtyRequests(r) == {p \in RequestIds : r.mine.requests[p] # r.loaded.requests[p]}

HeldTrends(s)   == UNION {DirtyTrends(tx[u]) : u \in Processes \ {s}}
HeldRequests(s) == UNION {DirtyRequests(tx[u]) : u \in Processes \ {s}}

\* s now stands at record r: its changed rows must not be held by another.
MoveTx(s, r) ==
  /\ DirtyTrends(r) \cap HeldTrends(s) = {}
  /\ DirtyRequests(r) \cap HeldRequests(s) = {}
  /\ tx' = [tx EXCEPT ![s] = r]

\* An UPDATE sets the columns whose value differs from the loaded one.
Set(now, loaded, mine) == IF mine # loaded THEN mine ELSE now

StoredTrend(now, loaded, mine) ==
  [status     |-> Set(now.status, loaded.status, mine.status),
   key        |-> Set(now.key, loaded.key, mine.key),
   suppressed |-> Set(now.suppressed, loaded.suppressed, mine.suppressed)]

StoredRequest(now, loaded, mine) ==
  [status |-> Set(now.status, loaded.status, mine.status),
   trend  |-> Set(now.trend, loaded.trend, mine.trend),
   by     |-> Set(now.by, loaded.by, mine.by)]

\* What queries of transaction r match: the committed rows under its own writes.
Matched(r) ==
  [trends   |-> [t \in TrendIds |->
                  StoredTrend(trends[t], r.loaded.trends[t], r.mine.trends[t])],
   requests |-> [p \in RequestIds |->
                  StoredRequest(requests[p], r.loaded.requests[p], r.mine.requests[p])]]

\* The object such a query returns: the copy in the identity map, if there is one.
Copy(r, t) == IF r.mine.trends[t].status = Absent THEN Matched(r).trends[t]
                                                  ELSE r.mine.trends[t]

\* r with its copy of trend t replaced; a trend met for the first time is loaded.
WithTrend(r, t, row) ==
  [r EXCEPT !.mine.trends[t] = row,
            !.loaded.trends[t] = IF @.status = Absent THEN trends[t] ELSE @]

WithRequest(r, p, row) ==
  [r EXCEPT !.mine.requests[p] = row,
            !.loaded.requests[p] = IF @.status = Absent THEN requests[p] ELSE @]

StoreAs(s, r) ==
  /\ DirtyTrends(r) \cap HeldTrends(s) = {}
  /\ DirtyRequests(r) \cap HeldRequests(s) = {}
  /\ trends' = Matched(r).trends
  /\ requests' = Matched(r).requests
  /\ seen' = seen \cup r.touched
  /\ tx' = [tx EXCEPT ![s] = NoTx]

CommitAs(s, r) == StoreAs(s, r) /\ UNCHANGED <<perished, ids, overlapped>>

\* The process ends without a commit: an error, or a request that was refused.
Rollback(s) ==
  /\ tx[s].op # "none"
  /\ tx' = [tx EXCEPT ![s] = NoTx]
  /\ UNCHANGED <<trends, requests, seen, perished, ids, overlapped>>

--------------------------------------------------------------------------------
(***************************************************************************)
(* Repository operations                                                   *)
(***************************************************************************)

\* find_by_cluster_key: the newest trend of the cluster, NoTrend if there is none.
Newest(r, k) ==
  LET T == {t \in TrendIds : Matched(r).trends[t].key = k}
  IN  IF T = {} THEN NoTrend ELSE CHOOSE t \in T : \A u \in T : u <= t

DedupSkip == {"dismissed", "declined", "expired", "completed"}

\* A twin that suppresses the cluster; days: the caller has a dedup window.
Twin(r, k, days) ==
  LET t == Newest(r, k)
  IN  t # NoTrend /\ Copy(r, t).status \in DedupSkip /\ days /\ t \in seen

\* (mutant: only the trends still waiting for a decision are refreshed)
RefreshableUnapproved(r, k) ==
  LET t == Newest(r, k)
  IN  IF t # NoTrend /\ Copy(r, t).status \in TrendOpen \ {"approved"} THEN t ELSE NoTrend

\* The open trend that an upsert refreshes in place.
Refreshable(r, k) ==
  LET t == Newest(r, k)
  IN  IF t # NoTrend /\ Copy(r, t).status \in TrendOpen THEN t ELSE NoTrend

\* upsert, when it finds no twin, is about this trend: the open one, or the next id.
Upserted(r, k) == IF Refreshable(r, k) # NoTrend THEN Refreshable(r, k) ELSE ids.trend + 1

\* Its row afterwards: scores and evidence, which are not modelled, or a new row.
UpsertedRow(r, k) ==
  IF Refreshable(r, k) # NoTrend THEN Copy(r, Refreshable(r, k))
  ELSE [status |-> "detected", key |-> k, suppressed |-> FALSE]

OpenOf(r, t) == {p \in RequestIds : /\ Matched(r).requests[p].trend = t
                                    /\ Matched(r).requests[p].status \in PipelineOpen}

\* (mutant: only requests that wait for approval count towards the cap)
BelowCapPending(r) ==
  Cardinality({p \in RequestIds : Matched(r).requests[p].status = "pending_approval"}) < MaxOpen

OpenCount(rows) == Cardinality({p \in DOMAIN rows : rows[p].status \in PipelineOpen})

\* Is there room for one more open request?
BelowCap(r) == OpenCount(Matched(r).requests) < MaxOpen

\* PipelineRepo.create is refused while the trend has an open request.
CanCreate(r, t) == ids.request + 1 \in RequestIds /\ OpenOf(r, t) = {}

Create(r, t, by) ==
  WithRequest(r, ids.request + 1, [status |-> "pending_approval", trend |-> t, by |-> by])

--------------------------------------------------------------------------------
(***************************************************************************)
(* A scan                                                                  *)
(***************************************************************************)

\* Sources are pulled, memory is read, the brand's trends are loaded (_neighborhood_trends);
\* hot are the clusters with enough sources.
StartScan(s) ==
  \E hot \in SUBSET Clusters :
    BeginTx(s, [Opened("scan", "sweep") EXCEPT !.todo = hot, !.left = MaxProposals])

\* (mutant: an approved trend still counts as waiting for a decision)
UnactionedOpen == {"detected", "dossier_building", "proposed", "approved"}

Unactioned == {"detected", "dossier_building", "proposed"}

\* (mutant: the sweep writes a status of its own)
StaleTrends(r, T) ==
  [r EXCEPT !.mine.trends = [t \in TrendIds |->
               IF t \in T THEN [Copy(r, t) EXCEPT !.status = "stale"] ELSE @[t]],
            !.loaded.trends = [t \in TrendIds |-> IF t \in T THEN trends[t] ELSE @[t]]]

\* r after an UPDATE by id that sets the status of the trends T to expired; copies it has
\* of them follow.
ExpiredTrends(r, T) ==
  [r EXCEPT !.mine.trends = [t \in TrendIds |->
               IF t \in T THEN [Copy(r, t) EXCEPT !.status = "expired"] ELSE @[t]],
            !.loaded.trends = [t \in TrendIds |->
               IF t \notin T THEN @[t]
               ELSE IF @[t].status = Absent THEN trends[t]
               ELSE [@[t] EXCEPT !.status = trends[t].status]]]

Stale(r) == {t \in perished : Matched(r).trends[t].status \in Unactioned}

\* (mutant: the requests of the expired trends are left alone)
ExpiredOnlyTrends(r) == ExpiredTrends(r, Stale(r))

\* TrendRepo.expire_stale: the stale ids, one UPDATE of them, then their pending requests.
Expired(r) ==
  LET P == {p \in RequestIds : /\ Matched(r).requests[p].trend \in Stale(r)
                               /\ Matched(r).requests[p].status = "pending_approval"}
  IN  [ExpiredTrends(r, Stale(r)) EXCEPT
        !.mine.requests = [p \in RequestIds |->
           IF p \in P THEN [Matched(r).requests[p] EXCEPT !.status = "expired"] ELSE @[p]],
        !.loaded.requests = [p \in RequestIds |-> IF p \in P THEN requests[p] ELSE @[p]]]

SweepScan(s) ==
  /\ tx[s].step = "sweep"
  /\ MoveTx(s, [Expired(tx[s]) EXCEPT !.step = "clusters"])
  /\ UNCHANGED <<trends, requests, seen, perished, ids, overlapped>>

\* A cluster whose recent twin was acted on, or died, is left alone.
SkipCluster(s, k) ==
  /\ tx[s].step = "clusters" /\ k \in tx[s].todo
  /\ Twin(tx[s], k, TRUE)
  /\ tx' = [tx EXCEPT ![s].todo = @ \ {k}]
  /\ UNCHANGED <<trends, requests, seen, perished, ids, overlapped>>

Proposable(r, row) == row.status = "detected" /\ ~row.suppressed /\ r.left > 0

\* Any other cluster is upserted.  If its score clears the threshold and the trend may be
\* proposed, _propose begins: at the cap it only writes a flag, otherwise the dossier is
\* collected first, under the status dossier_building.
ScanCluster(s, k) ==
  LET r == tx[s]
      t == Upserted(r, k)
      row == UpsertedRow(r, k)
      done == [WithTrend(r, t, row) EXCEPT !.todo = @ \ {k}, !.touched = @ \cup {t}]
  IN  /\ r.step = "clusters" /\ k \in r.todo
      /\ ~Twin(r, k, TRUE)
      /\ t \in TrendIds
      /\ \/ MoveTx(s, done)
         \/ /\ Proposable(r, row)
            /\ BelowCap(r)
            /\ MoveTx(s, [WithTrend(done, t, [row EXCEPT !.status = "dossier_building"])
                            EXCEPT !.step = "dossier", !.trend = t])
      /\ ids' = [ids EXCEPT !.trend = IF t > @ THEN t ELSE @]
      /\ UNCHANGED <<trends, requests, seen, perished, overlapped>>

\* The dossier is collected (or failed); the request is created, and the trend is proposed
\* whether or not create refused.
Propose(s) ==
  LET r == tx[s]
      onward(v) ==
        [WithTrend(v, r.trend, [r.mine.trends[r.trend] EXCEPT !.status = "proposed"])
           EXCEPT !.step = "clusters", !.trend = NoTrend]
  IN  /\ r.op = "scan" /\ r.step = "dossier"
      /\ \/ /\ CanCreate(r, r.trend)
            /\ MoveTx(s, [onward(Create(r, r.trend, "scout")) EXCEPT !.left = @ - 1])
            /\ ids' = [ids EXCEPT !.request = @ + 1]
         \/ /\ OpenOf(r, r.trend) # {}
            /\ MoveTx(s, onward(r))
            /\ UNCHANGED ids
      /\ UNCHANGED <<trends, requests, seen, perished, overlapped>>

Monitored == Unactioned \cup {"approved", "completed"}

\* r after _update_lifecycle: of the monitored trends exactly the fading ones are suppressed
\* (no code sets suppressed_by or evergreen).
Monitor(r, fading) ==
  LET T == {t \in TrendIds : Matched(r).trends[t].status \in Monitored}
  IN  [r EXCEPT !.mine.trends = [t \in TrendIds |->
                   IF t \in T THEN [Copy(r, t) EXCEPT !.suppressed = (t \in fading)] ELSE @[t]],
                !.loaded.trends = [t \in TrendIds |->
                   IF t \in T /\ r.mine.trends[t].status = Absent THEN trends[t] ELSE @[t]]]

FinishScan(s) ==
  /\ tx[s].step = "clusters" /\ tx[s].todo = {}
  /\ \E fading \in SUBSET TrendIds : CommitAs(s, Monitor(tx[s], fading))

\* What a scheduled scan raises is caught inside the session, which then commits what it has
\* flushed.  (A dossier that fails is caught earlier, in Propose.)
Abandon(s) == tx[s].op = "scan" /\ tx[s].step \in {"sweep", "clusters"} /\ CommitAs(s, tx[s])

\* The hourly expiry, in a session of its own.
StartExpiry(s) == BeginTx(s, Opened("expire", "open"))

FinishExpiry(s) == tx[s].op = "expire" /\ CommitAs(s, Expired(tx[s]))

--------------------------------------------------------------------------------
(***************************************************************************)
(* Editors                                                                 *)
(***************************************************************************)

\* trends_manual: the topic is looked up ...
StartManual(e, k) == BeginTx(e, [Opened("manual", "open") EXCEPT !.key = k])

\* ... and upserted without a dedup window.  The dossier is collected; a trend that was
\* acted on before keeps its status.
AddManual(e) ==
  LET r == tx[e]
      t == Upserted(r, r.key)
      row == UpsertedRow(r, r.key)
      building == [row EXCEPT !.status = IF @ \in Unactioned THEN "dossier_building" ELSE @]
  IN  /\ r.op = "manual" /\ r.step = "open"
      /\ t \in TrendIds
      /\ MoveTx(e, [WithTrend(r, t, building)
                      EXCEPT !.step = "dossier", !.trend = t, !.touched = {t}])
      /\ ids' = [ids EXCEPT !.trend = IF t > @ THEN t ELSE @]
      /\ UNCHANGED <<trends, requests, seen, perished, overlapped>>

FinishManual(e) ==
  LET r == tx[e]
      row == r.mine.trends[r.trend]
  IN  /\ r.op = "manual" /\ r.step = "dossier"
      /\ CommitAs(e, WithTrend(r, r.trend,
            [row EXCEPT !.status = IF @ = "dossier_building" THEN "proposed" ELSE @]))

Triggerable(t) == trends[t].status \in Unactioned

\* trend_trigger, with or without approve_now; create has looked for an open request.
StartTrigger(e, op, t) ==
  LET r == Opened(op, "open")
  IN  /\ op \in {"trigger", "trigger_now"}
      /\ Triggerable(t)
      /\ CanCreate(r, t)
      /\ BeginTx(e, [r EXCEPT !.trend = t])

\* approve_and_start looks at the trend first: it must be open and not suppressed.
MayStart(row) == row.status \in TrendOpen /\ ~row.suppressed

\* r with request p approved and its jobs queued; the trend follows if the table allows it.
Started(r, p, t) ==
  LET row == r.mine.trends[t]
  IN  WithTrend(WithRequest(r, p, [r.mine.requests[p] EXCEPT !.status = "generating"]), t,
                [row EXCEPT !.status = IF TrendMay(@, "approved") THEN "approved" ELSE @])

\* The request created, its trend proposed.
Triggered(r) ==
  WithTrend(Create(r, r.trend, "editor"), r.trend,
            [r.mine.trends[r.trend] EXCEPT !.status = "proposed"])

StoreTriggered(e, r) ==
  /\ ids.request + 1 \in RequestIds
  /\ ids' = [ids EXCEPT !.request = @ + 1]
  /\ StoreAs(e, r)
  /\ UNCHANGED <<perished, overlapped>>

StartRefused(e) == tx[e].op = "trigger_now" /\ ~MayStart(Triggered(tx[e]).mine.trends[tx[e].trend])

TriggerGranted(e) ==
  \/ tx[e].op = "trigger" /\ StoreTriggered(e, Triggered(tx[e]))
  \/ /\ tx[e].op = "trigger_now" /\ ~StartRefused(e)
     /\ StoreTriggered(e, Started(Triggered(tx[e]), ids.request + 1, tx[e].trend))

\* The HTML route: if the start is refused it returns the error inside the session, which
\* then commits what was created.
TriggerForm(e) ==
  TriggerGranted(e) \/ (StartRefused(e) /\ StoreTriggered(e, Triggered(tx[e])))

\* The JSON route: if the start is refused it raises, and all is rolled back.
TriggerApi(e) ==
  \/ TriggerGranted(e)
  \/ /\ StartRefused(e)
     /\ tx' = [tx EXCEPT ![e] = NoTx]
     /\ ids' = [ids EXCEPT !.request = IF @ < MaxRequests THEN @ + 1 ELSE @]
     /\ UNCHANGED <<trends, requests, seen, perished, overlapped>>

\* What may be done to a request as loaded.
MayOn(op, p) ==
  LET row == requests[p]
  IN  CASE op = "approve" -> row.status = "pending_approval" /\ MayStart(trends[row.trend])
        [] op = "decline" -> row.status = "pending_approval"
        [] op = "close"   -> "closed" \in PipelineNext[row.status]
        [] op = "work"    -> row.status \in {"generating", "failed"}

StartOn(e, op, p) ==
  /\ requests[p].status # Absent
  /\ MayOn(op, p)
  /\ BeginTx(e, [Opened(op, "open") EXCEPT !.request = p, !.trend = requests[p].trend])

\* (mutant: closing a request hands its trend back to the scout)
CloseReopensTrend(e) ==
  LET r == tx[e]
  IN  /\ r.op = "close"
      /\ CommitAs(e, WithTrend(
            WithRequest(r, r.request, [r.mine.requests[r.request] EXCEPT !.status = "closed"]),
            r.trend, [r.mine.trends[r.trend] EXCEPT !.status = "detected"]))

CloseRequest(e) ==
  LET r == tx[e]
  IN  /\ r.op = "close"
      /\ CommitAs(e,
            WithRequest(r, r.request, [r.mine.requests[r.request] EXCEPT !.status = "closed"]))

ApproveRequest(e) ==
  tx[e].op = "approve" /\ CommitAs(e, Started(tx[e], tx[e].request, tx[e].trend))

\* A trend that is still proposed is declined with its request.
DeclineRequest(e) ==
  LET r == tx[e]
      v == WithRequest(r, r.request,
                       [r.mine.requests[r.request] EXCEPT !.status = "declined"])
  IN  /\ r.op = "decline"
      /\ CommitAs(e, WithTrend(v, r.trend,
            [r.mine.trends[r.trend] EXCEPT !.status = IF @ = "proposed" THEN "declined" ELSE @]))

\* Jobs run (ContentPipeline): they all fail, are regenerated, or the last one is
\* published, which completes the trend or is rolled back.
Work(e) ==
  LET r == tx[e]
      now == r.mine.requests[r.request].status
      to(st) == WithRequest(r, r.request, [r.mine.requests[r.request] EXCEPT !.status = st])
  IN  /\ r.op = "work"
      /\ \/ now = "generating" /\ CommitAs(e, to("failed"))
         \/ now = "failed" /\ CommitAs(e, to("generating"))
         \/ /\ now = "generating" /\ TrendMay(r.mine.trends[r.trend].status, "completed")
            /\ CommitAs(e, WithTrend(to("published"), r.trend,
                            [r.mine.trends[r.trend] EXCEPT !.status = "completed"]))

StartDismiss(e, t) ==
  /\ trends[t].status # Absent
  /\ TrendMay(trends[t].status, "dismissed")
  /\ BeginTx(e, [Opened("dismiss", "open") EXCEPT !.trend = t])

DismissTrend(e) ==
  LET r == tx[e]
  IN  /\ r.op = "dismiss"
      /\ CommitAs(e, [WithTrend(r, r.trend,
            [r.mine.trends[r.trend] EXCEPT !.status = "dismissed"]) EXCEPT !.touched = {r.trend}])

--------------------------------------------------------------------------------
\* Time: an unactioned trend passes its expires_at, which nothing moves; a cluster has not
\* been seen, nor any trend of it dismissed, for dedup_days.
Perish(t) ==
  /\ trends[t].status # Absent /\ t \notin perished
  /\ perished' = perished \cup {t}
  /\ UNCHANGED <<trends, requests, tx, seen, ids, overlapped>>

WindowPasses(k) ==
  /\ \E t \in seen : trends[t].key = k
  /\ seen' = {t \in seen : trends[t].key # k}
  /\ UNCHANGED <<trends, requests, tx, perished, ids, overlapped>>

ScanStep(s) ==
  \/ StartScan(s) \/ SweepScan(s)
  \/ \E k \in Clusters : SkipCluster(s, k) \/ ScanCluster(s, k)
  \/ Propose(s) \/ FinishScan(s) \/ Abandon(s)
  \/ StartExpiry(s) \/ FinishExpiry(s)

EditorStep(e) ==
  \/ \E k \in Clusters : StartManual(e, k)
  \/ AddManual(e) \/ FinishManual(e)
  \/ \E op \in {"trigger", "trigger_now"}, t \in TrendIds : StartTrigger(e, op, t)
  \/ TriggerForm(e) \/ TriggerApi(e)
  \/ \E op \in {"approve", "decline", "close", "work"}, p \in RequestIds : StartOn(e, op, p)
  \/ ApproveRequest(e) \/ DeclineRequest(e) \/ CloseRequest(e) \/ Work(e)
  \/ \E t \in TrendIds : StartDismiss(e, t)
  \/ DismissTrend(e)

ScoutNext ==
  \/ \E s \in Scans : ScanStep(s)
  \/ \E e \in Editors : EditorStep(e)
  \/ \E s \in Processes : Rollback(s)
  \/ \E t \in TrendIds : Perish(t)
  \/ \E k \in Clusters : WindowPasses(k)

ScoutSpec == ScoutInit /\ [][ScoutNext]_scoutVars

--------------------------------------------------------------------------------
(***************************************************************************)
(* Properties.  All but the type invariant speak of behaviours in which no *)
(* two transactions have overlapped: there is no constraint in the         *)
(* database behind any of them.                                            *)
(***************************************************************************)

\* Type invariant.
ScoutTypeOK ==
  /\ trends \in [TrendIds -> TrendRow]
  /\ requests \in [RequestIds -> RequestRow]
  /\ tx \in [Processes -> Tx]
  /\ seen \subseteq TrendIds
  /\ perished \subseteq TrendIds
  /\ ids \in [trend : TrendIds \cup {0}, request : RequestIds \cup {0}]
  /\ overlapped \in BOOLEAN

\* A cluster is one open trend however often it is detected, added by hand, dismissed, and
\* detected again (upsert); and a trend has one open request (create).
OneOpenEach ==
  ~overlapped =>
    /\ \A t, u \in TrendIds :
         t # u /\ trends[t].key = trends[u].key
           => ~(trends[t].status \in TrendOpen /\ trends[u].status \in TrendOpen)
    /\ \A p, q \in RequestIds :
         p # q /\ requests[p].trend = requests[q].trend
           => ~(requests[p].status \in PipelineOpen /\ requests[q].status \in PipelineOpen)

\* A request that waits for approval can be approved: its trend is proposed.  The one way to
\* leave a dead request behind, which the cap goes on counting, is to dismiss the trend.
PendingIsAlive ==
  ~overlapped =>
    \A p \in RequestIds : requests[p].status = "pending_approval"
                            => trends[requests[p].trend].status \in {"proposed", "dismissed"}

\* Work in progress has a trend that somebody approved, and that did not expire under it.
WorkIsWanted ==
  ~overlapped =>
    \A p \in RequestIds :
      requests[p].status = "generating"
        => trends[requests[p].trend].status \in {"approved", "dismissed"}

Proposed(p) == requests[p].status = Absent /\ requests'[p].status # Absent
                 /\ requests'[p].by = "scout"

\* What the scout proposes: within the cap on open requests, and only trends that nobody has
\* acted on and that were not suppressed.
ScoutHoldsBack ==
  [][~overlapped' => \A p \in RequestIds : Proposed(p) =>
       LET t == requests'[p].trend
       IN  /\ OpenCount(requests') <= MaxOpen
           /\ trends[t].status \in {Absent, "detected"}
           /\ ~trends[t].suppressed]_scoutVars

\* Dismissed, declined, expired and completed are final for a trend, declined, expired and
\* closed for its request: a scan that finds the topic again starts a new one.
FinalIsFinal ==
  [][~overlapped' =>
       /\ \A t \in TrendIds : trends[t].status \in DedupSkip
                                => trends'[t].status = trends[t].status
       /\ \A p \in RequestIds : requests[p].status \in PipelineTerminal
                                => requests'[p].status = requests[p].status]_scoutVars

\* "nothing is created if the request will be refused" (routes.py:1496): a trigger that asks
\* to approve at once leaves no request waiting for approval.
RefusedCreatesNothing ==
  [][\A e \in Editors : tx[e].op = "trigger_now" /\ tx'[e].op = "none"
       => \A p \in RequestIds :
            requests[p].status = Absent => requests'[p].status # "pending_approval"]_scoutVars

================================================================================
