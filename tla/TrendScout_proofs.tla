--------------------------- MODULE TrendScout_proofs ---------------------------
(***************************************************************************)
(* Theorems about TrendScout, for any number of clusters, scans, editors,  *)
(* trends and requests.                                                    *)
(***************************************************************************)
EXTENDS TrendScout, FiniteSetTheorems, TLAPS

--------------------------------------------------------------------------------
(***************************************************************************)
(* Types                                                                   *)
(***************************************************************************)

\* What an open transaction is about.
Kind(r) ==
  /\ r.op = "scan" => r.step \in {"sweep", "clusters", "dossier"}
  /\ r.step \in {"sweep", "clusters"} => r.op = "scan"
  /\ r.op = "none" => r = NoTx
  /\ r.step = "dossier" => r.trend \in TrendIds
  /\ r.op = "scan" /\ r.step = "dossier" => r.left # 0
  /\ r.op = "manual" => r.key \in Clusters
  /\ r.op \notin {"none", "scan", "manual"} => r.step = "open"
  /\ r.op \in {"trigger", "trigger_now", "dismiss"} => r.trend \in TrendIds
  /\ r.op \in {"approve", "decline", "close", "work"} => r.request \in RequestIds

TypeInv == ScoutTypeOK /\ \A s \in Processes : Kind(tx[s])

\* v is r but for its rows.
SameTask(v, r) ==
  /\ v.op = r.op /\ v.step = r.step /\ v.trend = r.trend /\ v.request = r.request
  /\ v.key = r.key /\ v.left = r.left /\ v.todo = r.todo /\ v.touched = r.touched

LEMMA NoTxTyped == NoRows \in Rows /\ NoTx \in Tx /\ Kind(NoTx) /\ NoTx.op = "none"
  <1>1. NoTrendRow \in TrendRow /\ NoRequestRow \in RequestRow
    BY DEF NoTrendRow, TrendRow, NoRequestRow, RequestRow
  <1>2. NoRows \in Rows
    BY <1>1 DEF NoRows, Rows
  <1>3. NoTx \in Tx
    BY <1>2, ScoutAssumption DEF NoTx, Tx, ScoutOps
  <1>. QED  BY <1>2, <1>3 DEF Kind, NoTx

LEMMA TxFields ==
  ASSUME NEW r \in Tx
  PROVE  /\ r.loaded \in Rows /\ r.mine \in Rows
         /\ r.loaded.trends \in [TrendIds -> TrendRow] /\ r.mine.trends \in [TrendIds -> TrendRow]
         /\ r.loaded.requests \in [RequestIds -> RequestRow]
         /\ r.mine.requests \in [RequestIds -> RequestRow]
         /\ r.trend \in TrendIds \cup {NoTrend} /\ r.request \in RequestIds \cup {NoRequest}
         /\ r.left \in 0 .. MaxProposals /\ r.todo \subseteq Clusters /\ r.touched \subseteq TrendIds
         /\ r.op \in ScoutOps /\ r.key \in Clusters \cup {Absent}
  BY DEF Tx, Rows

LEMMA CommittedTyped == ScoutTypeOK => Committed \in Rows
  BY DEF ScoutTypeOK, Committed, Rows

LEMMA WithTrendFields ==
  ASSUME ScoutTypeOK, NEW r \in Tx, NEW t, NEW row, t \in TrendIds => row \in TrendRow
  PROVE  LET v == WithTrend(r, t, row)
         IN  /\ v \in Tx /\ SameTask(v, r) /\ v.mine.requests = r.mine.requests
             /\ \A u \in TrendIds : v.mine.trends[u] = IF u = t THEN row ELSE r.mine.trends[u]
             /\ r.loaded = Committed => v.loaded = Committed
  <1>. DEFINE v == WithTrend(r, t, row)
              was(u) == r.loaded.trends[u]
  <1>1. /\ v \in Tx /\ SameTask(v, r)
        /\ v.mine.trends = [r.mine.trends EXCEPT ![t] = row]
        /\ v.mine.requests = r.mine.requests /\ v.loaded.requests = r.loaded.requests
        /\ v.loaded.trends = [r.loaded.trends EXCEPT ![t] = IF @.status = Absent THEN trends[t] ELSE @]
    BY DEF ScoutTypeOK, WithTrend, SameTask, Tx, Rows
  <1>. HIDE DEF v
  <1>2. \A u \in TrendIds : v.mine.trends[u] = IF u = t THEN row ELSE r.mine.trends[u]
    BY <1>1, TxFields
  <1>3. \A u \in TrendIds : v.loaded.trends[u] =
          IF u = t /\ was(u).status = Absent THEN trends[u] ELSE was(u)
    BY <1>1, TxFields
  <1>4. ASSUME r.loaded = Committed PROVE v.loaded = Committed
    <2>1. v.loaded \in Rows /\ r.loaded \in Rows
      BY <1>1, TxFields
    <2>2. \A u \in TrendIds : v.loaded.trends[u] = r.loaded.trends[u]
      BY <1>3, <1>4 DEF Committed
    <2>3. v.loaded.trends = r.loaded.trends
      BY <2>1, <2>2 DEF Rows
    <2>. QED  BY <1>1, <1>4, <2>1, <2>3 DEF Rows
  <1>5. v \in Tx /\ SameTask(v, r) /\ v.mine.requests = r.mine.requests
    BY <1>1
  <1>. QED  BY <1>2, <1>4, <1>5, Zenon DEF v

LEMMA WithRequestFields ==
  ASSUME ScoutTypeOK, NEW r \in Tx, NEW p, NEW row, p \in RequestIds => row \in RequestRow
  PROVE  LET v == WithRequest(r, p, row)
         IN  /\ v \in Tx /\ SameTask(v, r) /\ v.mine.trends = r.mine.trends
             /\ \A q \in RequestIds : v.mine.requests[q] = IF q = p THEN row ELSE r.mine.requests[q]
             /\ r.loaded = Committed => v.loaded = Committed
  <1>. DEFINE v == WithRequest(r, p, row)
              was(q) == r.loaded.requests[q]
  <1>1. /\ v \in Tx /\ SameTask(v, r)
        /\ v.mine.requests = [r.mine.requests EXCEPT ![p] = row]
        /\ v.mine.trends = r.mine.trends /\ v.loaded.trends = r.loaded.trends
        /\ v.loaded.requests = [r.loaded.requests EXCEPT ![p] = IF @.status = Absent THEN requests[p] ELSE @]
    BY DEF ScoutTypeOK, WithRequest, SameTask, Tx, Rows
  <1>. HIDE DEF v
  <1>2. \A q \in RequestIds : v.mine.requests[q] = IF q = p THEN row ELSE r.mine.requests[q]
    BY <1>1, TxFields
  <1>3. \A q \in RequestIds : v.loaded.requests[q] =
          IF q = p /\ was(q).status = Absent THEN requests[q] ELSE was(q)
    BY <1>1, TxFields
  <1>4. ASSUME r.loaded = Committed PROVE v.loaded = Committed
    <2>1. v.loaded \in Rows /\ r.loaded \in Rows
      BY <1>1, TxFields
    <2>2. \A q \in RequestIds : v.loaded.requests[q] = r.loaded.requests[q]
      BY <1>3, <1>4 DEF Committed
    <2>3. v.loaded.requests = r.loaded.requests
      BY <2>1, <2>2 DEF Rows
    <2>. QED  BY <1>1, <1>4, <2>1, <2>3 DEF Rows
  <1>5. v \in Tx /\ SameTask(v, r) /\ v.mine.trends = r.mine.trends
    BY <1>1
  <1>. QED  BY <1>2, <1>4, <1>5, Zenon DEF v

LEMMA MatchedTyped ==
  ASSUME ScoutTypeOK, NEW r \in Tx
  PROVE  /\ Matched(r) \in Rows
         /\ \A t \in TrendIds : Copy(r, t) \in TrendRow
  <1>1. \A t \in TrendIds : StoredTrend(trends[t], r.loaded.trends[t], r.mine.trends[t]) \in TrendRow
    BY TxFields DEF ScoutTypeOK, StoredTrend, Set, TrendRow
  <1>2. \A p \in RequestIds :
           StoredRequest(requests[p], r.loaded.requests[p], r.mine.requests[p]) \in RequestRow
    BY TxFields DEF ScoutTypeOK, StoredRequest, Set, RequestRow
  <1>3. Matched(r) \in Rows
    BY <1>1, <1>2 DEF Matched, Rows
  <1>. QED  BY <1>3, TxFields DEF Copy, Rows

LEMMA ExpiredFields ==
  ASSUME ScoutTypeOK, NEW r \in Tx
  PROVE  LET v == Expired(r)
             P == {p \in RequestIds : /\ Matched(r).requests[p].trend \in Stale(r)
                                      /\ Matched(r).requests[p].status = "pending_approval"}
         IN  /\ v \in Tx /\ SameTask(v, r)
             /\ \A t \in TrendIds :
                  /\ v.mine.trends[t] = IF t \in Stale(r) THEN [Copy(r, t) EXCEPT !.status = "expired"]
                                        ELSE r.mine.trends[t]
                  /\ v.loaded.trends[t] =
                       IF t \notin Stale(r) THEN r.loaded.trends[t]
                       ELSE IF r.loaded.trends[t].status = Absent THEN trends[t]
                       ELSE [r.loaded.trends[t] EXCEPT !.status = trends[t].status]
             /\ \A p \in RequestIds :
                  /\ v.mine.requests[p] = IF p \in P THEN [Matched(r).requests[p] EXCEPT !.status = "expired"]
                                          ELSE r.mine.requests[p]
                  /\ v.loaded.requests[p] = IF p \in P THEN requests[p] ELSE r.loaded.requests[p]
  <1>. DEFINE P == {p \in RequestIds : /\ Matched(r).requests[p].trend \in Stale(r)
                                       /\ Matched(r).requests[p].status = "pending_approval"}
              e == ExpiredTrends(r, Stale(r))
              v == Expired(r)
              mt == [t \in TrendIds |->
                  IF t \in Stale(r) THEN [Copy(r, t) EXCEPT !.status = "expired"] ELSE r.mine.trends[t]]
              lt == [t \in TrendIds |->
                  IF t \notin Stale(r) THEN r.loaded.trends[t]
                  ELSE IF r.loaded.trends[t].status = Absent THEN trends[t]
                  ELSE [r.loaded.trends[t] EXCEPT !.status = trends[t].status]]
              mr == [p \in RequestIds |->
                  IF p \in P THEN [Matched(r).requests[p] EXCEPT !.status = "expired"]
                  ELSE r.mine.requests[p]]
              lr == [p \in RequestIds |-> IF p \in P THEN requests[p] ELSE r.loaded.requests[p]]
  <1>1. "expired" \in TrendStatus /\ "expired" \in PipelineStatus
    BY DEF TrendStatus, TrendNext, PipelineStatus, PipelineNext
  <1>2. mt \in [TrendIds -> TrendRow]
    <2>1. \A t \in TrendIds : [Copy(r, t) EXCEPT !.status = "expired"] \in TrendRow
      BY <1>1, MatchedTyped DEF TrendRow
    <2>. QED  BY <2>1, TxFields
  <1>3. lt \in [TrendIds -> TrendRow]
    BY TxFields DEF ScoutTypeOK, TrendRow
  <1>4. mr \in [RequestIds -> RequestRow]
    <2>1. \A p \in RequestIds : [Matched(r).requests[p] EXCEPT !.status = "expired"] \in RequestRow
      BY <1>1, MatchedTyped DEF RequestRow, Rows
    <2>. QED  BY <2>1, TxFields
  <1>5. lr \in [RequestIds -> RequestRow]
    BY TxFields DEF ScoutTypeOK
  <1>6. e.mine.trends = mt /\ e.loaded.trends = lt /\ SameTask(e, r)
        /\ e.mine.requests = r.mine.requests /\ e.loaded.requests = r.loaded.requests
    BY TxFields DEF ExpiredTrends, SameTask, Tx, Rows
  <1>7. e \in Tx
    BY <1>2, <1>3, TxFields DEF ExpiredTrends, Tx, Rows
  <1>8. v = [e EXCEPT !.mine.requests = mr, !.loaded.requests = lr]
    BY <1>6, <1>7 DEF Expired, Tx, Rows
  <1>. HIDE DEF e, mt, lt, mr, lr, v
  <1>9. v \in Tx /\ SameTask(v, e) /\ v.mine.trends = e.mine.trends /\ v.loaded.trends = e.loaded.trends
        /\ v.mine.requests = mr /\ v.loaded.requests = lr
    BY <1>4, <1>5, <1>7, <1>8 DEF SameTask, Tx, Rows
  <1>10. SameTask(v, r)
    BY <1>6, <1>9 DEF SameTask
  <1>11. v.mine.trends = mt /\ v.loaded.trends = lt /\ v.mine.requests = mr /\ v.loaded.requests = lr
    BY <1>6, <1>9
  <1>12. \A t \in TrendIds :
           /\ mt[t] = IF t \in Stale(r) THEN [Copy(r, t) EXCEPT !.status = "expired"]
                      ELSE r.mine.trends[t]
           /\ lt[t] = IF t \notin Stale(r) THEN r.loaded.trends[t]
                      ELSE IF r.loaded.trends[t].status = Absent THEN trends[t]
                      ELSE [r.loaded.trends[t] EXCEPT !.status = trends[t].status]
    BY DEF mt, lt
  <1>13. \A p \in RequestIds :
           /\ mr[p] = IF p \in P THEN [Matched(r).requests[p] EXCEPT !.status = "expired"]
                      ELSE r.mine.requests[p]
           /\ lr[p] = IF p \in P THEN requests[p] ELSE r.loaded.requests[p]
    BY DEF mr, lr
  <1>. QED  BY <1>9, <1>10, <1>11, <1>12, <1>13, Zenon DEF v

LEMMA MonitorFields ==
  ASSUME ScoutTypeOK, NEW r \in Tx, NEW fading
  PROVE  LET v == Monitor(r, fading)
             T == {t \in TrendIds : Matched(r).trends[t].status \in Monitored}
         IN  /\ v \in Tx /\ SameTask(v, r)
             /\ \A t \in TrendIds :
                  /\ v.mine.trends[t] = IF t \in T THEN [Copy(r, t) EXCEPT !.suppressed = (t \in fading)]
                                        ELSE r.mine.trends[t]
                  /\ v.loaded.trends[t] = IF t \in T /\ r.mine.trends[t].status = Absent THEN trends[t]
                                          ELSE r.loaded.trends[t]
             /\ v.mine.requests = r.mine.requests /\ v.loaded.requests = r.loaded.requests
  <1>. DEFINE T == {t \in TrendIds : Matched(r).trends[t].status \in Monitored}
              mt == [t \in TrendIds |->
                  IF t \in T THEN [Copy(r, t) EXCEPT !.suppressed = (t \in fading)]
                  ELSE r.mine.trends[t]]
              lt == [t \in TrendIds |->
                  IF t \in T /\ r.mine.trends[t].status = Absent THEN trends[t]
                  ELSE r.loaded.trends[t]]
              v == Monitor(r, fading)
  <1>1. mt \in [TrendIds -> TrendRow]
    <2>1. \A t \in TrendIds : [Copy(r, t) EXCEPT !.suppressed = (t \in fading)] \in TrendRow
      <3>1. \A t \in TrendIds, b \in BOOLEAN : [Copy(r, t) EXCEPT !.suppressed = b] \in TrendRow
        BY MatchedTyped DEF TrendRow
      <3>2. \A t \in TrendIds : (t \in fading) \in BOOLEAN
        OBVIOUS
      <3>. QED  BY <3>1, <3>2, Zenon
    <2>. QED  BY <2>1, TxFields
  <1>2. lt \in [TrendIds -> TrendRow]
    BY TxFields DEF ScoutTypeOK
  <1>3. v = [r EXCEPT !.mine.trends = mt, !.loaded.trends = lt]
    BY TxFields DEF Monitor, Tx, Rows
  <1>. HIDE DEF mt, lt, v
  <1>4. v \in Tx /\ SameTask(v, r) /\ v.mine.trends = mt /\ v.loaded.trends = lt
        /\ v.mine.requests = r.mine.requests /\ v.loaded.requests = r.loaded.requests
    BY <1>1, <1>2, <1>3 DEF SameTask, Tx, Rows
  <1>5. \A t \in TrendIds :
          /\ mt[t] = IF t \in T THEN [Copy(r, t) EXCEPT !.suppressed = (t \in fading)]
                     ELSE r.mine.trends[t]
          /\ lt[t] = IF t \in T /\ r.mine.trends[t].status = Absent THEN trends[t]
                     ELSE r.loaded.trends[t]
    BY DEF mt, lt
  <1>. QED  BY <1>4, <1>5, Zenon DEF v

Ids == [trend : TrendIds \cup {0}, request : RequestIds \cup {0}]

LEMMA Moves ==
  ASSUME TypeInv, NEW s \in Processes, NEW r \in Tx, Kind(r), tx' = [tx EXCEPT ![s] = r],
         ids' \in Ids, UNCHANGED <<trends, requests, seen, perished, overlapped>>
  PROVE  TypeInv'
  BY DEF TypeInv, ScoutTypeOK, Ids

LEMMA Begins ==
  ASSUME TypeInv, NEW s \in Processes, NEW r \in Tx, Kind(r), BeginTx(s, r)
  PROVE  TypeInv'
  <1>1. overlapped' \in BOOLEAN
    BY DEF BeginTx, TypeInv, ScoutTypeOK
  <1>. QED  BY <1>1 DEF BeginTx, TypeInv, ScoutTypeOK

LEMMA Stores ==
  ASSUME TypeInv, NEW s \in Processes, NEW r \in Tx, StoreAs(s, r), ids' \in Ids,
         UNCHANGED <<perished, overlapped>>
  PROVE  TypeInv'
  <1>1. trends' \in [TrendIds -> TrendRow] /\ requests' \in [RequestIds -> RequestRow]
    BY MatchedTyped DEF TypeInv, StoreAs, Rows
  <1>2. tx' = [tx EXCEPT ![s] = NoTx] /\ seen' = seen \cup r.touched /\ r.touched \subseteq TrendIds
    BY TxFields DEF StoreAs
  <1>. QED  BY <1>1, <1>2, NoTxTyped DEF TypeInv, ScoutTypeOK, Ids

LEMMA Commits ==
  ASSUME TypeInv, NEW s \in Processes, NEW r \in Tx, CommitAs(s, r)
  PROVE  TypeInv'
  BY Stores DEF CommitAs, TypeInv, ScoutTypeOK, Ids

\* A transaction that has just been opened.
LEMMA OpenedFields ==
  ASSUME ScoutTypeOK, NEW op \in ScoutOps, NEW step \in {"open", "sweep"}
  PROVE  LET r == Opened(op, step)
         IN  /\ r \in Tx /\ r.op = op /\ r.step = step /\ r.mine = Committed /\ r.loaded = Committed
             /\ r.trend = NoTrend /\ r.request = NoRequest /\ r.key = Absent /\ r.left = 0
             /\ r.todo = {} /\ r.touched = {}
  BY CommittedTyped, NoTxTyped DEF Opened, NoTx, Tx

LEMMA IdsTyped ==
  ASSUME TypeInv
  PROVE  /\ ids \in Ids /\ ids.trend \in Nat /\ ids.request \in Nat
         /\ \A t \in TrendIds : [ids EXCEPT !.trend = IF t > @ THEN t ELSE @] \in Ids
         /\ ids.request + 1 \in RequestIds => [ids EXCEPT !.request = @ + 1] \in Ids
  BY ScoutAssumption DEF TypeInv, ScoutTypeOK, Ids, TrendIds, RequestIds

--------------------------------------------------------------------------------
\* The newest trend of a cluster is well defined.
LEMMA HasGreatest ==
  ASSUME NEW N \in Nat, NEW T \in SUBSET (1 .. N), T # {}
  PROVE  \E t \in T : \A u \in T : u <= t
  <1>. DEFINE From(t) == {u \in T : t <= u}
              F == {From(t) : t \in T}
  <1>1. IsFiniteSet(T)
    <2>1. IsFiniteSet(1 .. N)
      BY FS_Interval
    <2>. QED  BY <2>1, FS_Subset
  <1>2. F \subseteq FiniteSubsetsOf(T) /\ F # {}
    <2>1. \A t \in T : From(t) \in SUBSET T /\ IsFiniteSet(From(t))
      BY <1>1, FS_Subset
    <2>. QED  BY <2>1 DEF FiniteSubsetsOf
  <1>3. PICK X \in F : \A Y \in F : ~(<<Y, X>> \in StrictSubsetOrdering(T))
    <2>. HIDE DEF F
    <2>1. IsWellFoundedOn(StrictSubsetOrdering(T), FiniteSubsetsOf(T))
      BY FS_StrictSubsetOrderingWellFounded
    <2>. QED  BY <1>2, <2>1, WFMin
  <1>4. PICK t \in T : X = From(t)
    BY <1>3
  <1>5. ASSUME NEW u \in T, u > t PROVE FALSE
    <2>1. From(u) \in F /\ From(u) \subseteq X /\ t \in X /\ t \notin From(u)
      <3>1. t \in Int /\ u \in Int /\ \A x \in T : x \in Int
        OBVIOUS
      <3>2. t \in From(t) /\ t \notin From(u)
        BY <1>5, <3>1
      <3>3. From(u) \subseteq From(t)
        <4>. SUFFICES ASSUME NEW y \in T, u <= y PROVE t <= y
          OBVIOUS
        <4>. QED  BY <1>5, <3>1
      <3>. HIDE DEF From
      <3>4. From(u) \in F
        OBVIOUS
      <3>. QED  BY <1>4, <3>2, <3>3, <3>4
    <2>2. <<From(u), X>> \in StrictSubsetOrdering(T)
      <3>1. From(u) \in SUBSET T /\ X \in SUBSET T /\ From(u) # X
        BY <2>1, <1>4
      <3>. HIDE DEF From
      <3>2. <<From(u), X>> \in (SUBSET T) \X (SUBSET T)
        BY <3>1
      <3>. QED  BY <2>1, <3>1, <3>2 DEF StrictSubsetOrdering
    <2>. QED  BY <1>3, <2>1, <2>2
  <1>. QED  BY <1>5

LEMMA NewestIs ==
  ASSUME ScoutTypeOK, NEW r \in Tx, NEW k
  PROVE  LET T == {t \in TrendIds : Matched(r).trends[t].key = k}
         IN  \/ T = {} /\ Newest(r, k) = NoTrend
             \/ Newest(r, k) \in T /\ \A u \in T : u <= Newest(r, k)
  <1>. DEFINE T == {t \in TrendIds : Matched(r).trends[t].key = k}
  <1>1. T = {} \/ \E t \in T : \A u \in T : u <= t
    BY HasGreatest, ScoutAssumption DEF TrendIds
  <1>. QED  BY <1>1 DEF Newest

LEMMA RefreshableIs ==
  ASSUME ScoutTypeOK, NEW r \in Tx, NEW k
  PROVE  /\ Refreshable(r, k) \in TrendIds \cup {NoTrend}
         /\ Refreshable(r, k) # NoTrend => /\ Refreshable(r, k) = Newest(r, k)
                                           /\ Copy(r, Newest(r, k)).status \in TrendOpen
         /\ Refreshable(r, k) = NoTrend =>
              Newest(r, k) = NoTrend \/ Copy(r, Newest(r, k)).status \notin TrendOpen
  BY NewestIs DEF Refreshable

LEMMA UpsertTyped ==
  ASSUME ScoutTypeOK, NEW r \in Tx, NEW k \in Clusters
  PROVE  UpsertedRow(r, k) \in TrendRow
  <1>1. "detected" \in TrendStatus
    BY DEF TrendStatus, TrendNext
  <1>2. Refreshable(r, k) # NoTrend => Copy(r, Refreshable(r, k)) \in TrendRow
    BY RefreshableIs, MatchedTyped
  <1>. QED  BY <1>1, <1>2 DEF UpsertedRow, TrendRow

LEMMA CreateFields ==
  ASSUME ScoutTypeOK, NEW r \in Tx, NEW by \in {"scout", "editor"}, NEW t \in TrendIds
  PROVE  LET v == Create(r, t, by)
             p == ids.request + 1
         IN  /\ v \in Tx /\ SameTask(v, r) /\ v.mine.trends = r.mine.trends
             /\ p \in RequestIds => /\ v.mine.requests[p].status = "pending_approval"
                                    /\ v.mine.requests[p].trend = t
                                    /\ v.mine.requests[p].by = by
             /\ \A q \in RequestIds : q # p => v.mine.requests[q] = r.mine.requests[q]
             /\ r.loaded = Committed => v.loaded = Committed
  <1>. DEFINE row == [status |-> "pending_approval", trend |-> t, by |-> by]
              p == ids.request + 1
              v == Create(r, t, by)
  <1>1. row \in RequestRow /\ row.status = "pending_approval" /\ row.trend = t /\ row.by = by
    BY DEF RequestRow, PipelineStatus, PipelineNext
  <1>2. v = WithRequest(r, p, row)
    BY DEF Create
  <1>. HIDE DEF row, p, v
  <1>3. /\ v \in Tx /\ SameTask(v, r) /\ v.mine.trends = r.mine.trends
        /\ \A q \in RequestIds : v.mine.requests[q] = IF q = p THEN row ELSE r.mine.requests[q]
        /\ r.loaded = Committed => v.loaded = Committed
    BY <1>1, <1>2, WithRequestFields
  <1>4. p \in RequestIds => /\ v.mine.requests[p].status = "pending_approval"
                            /\ v.mine.requests[p].trend = t
                            /\ v.mine.requests[p].by = by
    BY <1>1, <1>3
  <1>5. \A q \in RequestIds : q # p => v.mine.requests[q] = r.mine.requests[q]
    BY <1>3
  <1>. QED  BY <1>3, <1>4, <1>5, Zenon DEF p, v

LEMMA TrendStatusTyped ==
  ASSUME NEW row \in TrendRow, NEW st \in TrendStatus
  PROVE  LET v == [row EXCEPT !.status = st]
         IN  v \in TrendRow /\ v.status = st /\ v.key = row.key /\ v.suppressed = row.suppressed
  BY DEF TrendRow

LEMMA RequestStatusTyped ==
  ASSUME NEW row \in RequestRow, NEW st \in PipelineStatus
  PROVE  LET v == [row EXCEPT !.status = st]
         IN  v \in RequestRow /\ v.status = st /\ v.trend = row.trend /\ v.by = row.by
  BY DEF RequestRow

LEMMA Statuses ==
  /\ TrendStatus = {"detected", "dossier_building", "proposed", "approved", "dismissed",
                    "declined", "expired", "completed"}
  /\ PipelineStatus = {"pending_approval", "approved", "generating", "previews_ready",
                       "partially_published", "published", "failed", "declined", "expired",
                       "closed"}
  BY DEF TrendStatus, TrendNext, PipelineStatus, PipelineNext

\* A new status of a trend, and of a request, in a transaction's copies.
SetTrend(r, t, st)   == WithTrend(r, t, [r.mine.trends[t] EXCEPT !.status = st])
SetRequest(r, p, st) == WithRequest(r, p, [r.mine.requests[p] EXCEPT !.status = st])

LEMMA SetTrendFields ==
  ASSUME ScoutTypeOK, NEW r \in Tx, NEW t, NEW st \in TrendStatus
  PROVE  LET v == SetTrend(r, t, st)
         IN  /\ v \in Tx /\ SameTask(v, r) /\ v.mine.requests = r.mine.requests
             /\ \A u \in TrendIds :
                  /\ v.mine.trends[u].status = IF u = t THEN st ELSE r.mine.trends[u].status
                  /\ v.mine.trends[u].key = r.mine.trends[u].key
                  /\ v.mine.trends[u].suppressed = r.mine.trends[u].suppressed
                  /\ u # t => v.mine.trends[u] = r.mine.trends[u]
             /\ r.loaded = Committed => v.loaded = Committed
  <1>. DEFINE row == [r.mine.trends[t] EXCEPT !.status = st]
  <1>1. t \in TrendIds => /\ row \in TrendRow /\ row.status = st /\ row.key = r.mine.trends[t].key
                          /\ row.suppressed = r.mine.trends[t].suppressed
    BY TrendStatusTyped, TxFields
  <1>2. SetTrend(r, t, st) = WithTrend(r, t, row)
    BY DEF SetTrend
  <1>. HIDE DEF row
  <1>. QED  BY <1>1, <1>2, WithTrendFields

LEMMA SetRequestFields ==
  ASSUME ScoutTypeOK, NEW r \in Tx, NEW p \in RequestIds, NEW st \in PipelineStatus
  PROVE  LET v == SetRequest(r, p, st)
         IN  /\ v \in Tx /\ SameTask(v, r) /\ v.mine.trends = r.mine.trends
             /\ \A q \in RequestIds :
                  /\ v.mine.requests[q].status = IF q = p THEN st ELSE r.mine.requests[q].status
                  /\ v.mine.requests[q].trend = r.mine.requests[q].trend
                  /\ v.mine.requests[q].by = r.mine.requests[q].by
                  /\ q # p => v.mine.requests[q] = r.mine.requests[q]
             /\ r.loaded = Committed => v.loaded = Committed
  <1>. DEFINE row == [r.mine.requests[p] EXCEPT !.status = st]
  <1>1. row \in RequestRow /\ row.status = st /\ row.trend = r.mine.requests[p].trend
        /\ row.by = r.mine.requests[p].by
    BY RequestStatusTyped, TxFields
  <1>2. SetRequest(r, p, st) = WithRequest(r, p, row)
    BY DEF SetRequest
  <1>. HIDE DEF row
  <1>. QED  BY <1>1, <1>2, WithRequestFields

--------------------------------------------------------------------------------
(***************************************************************************)
(* What the operations do to a transaction, as records of the type Tx.     *)
(***************************************************************************)
LEMMA StartedTyped ==
  ASSUME ScoutTypeOK, NEW r \in Tx, NEW p \in RequestIds, NEW t
  PROVE  Started(r, p, t) \in Tx
  <1>. DEFINE a == SetRequest(r, p, "generating")
              st == IF TrendMay(r.mine.trends[t].status, "approved") THEN "approved"
                    ELSE r.mine.trends[t].status
  <1>1. a \in Tx /\ a.mine.trends = r.mine.trends
    BY SetRequestFields, Statuses
  <1>2. ASSUME t \in TrendIds
        PROVE  [r.mine.trends[t] EXCEPT !.status = st] \in TrendRow
    BY <1>2, TxFields, Statuses DEF TrendRow
  <1>3. Started(r, p, t) = WithTrend(a, t, [r.mine.trends[t] EXCEPT !.status = st])
    BY DEF Started, SetRequest
  <1>. HIDE DEF a, st
  <1>. QED  BY <1>1, <1>2, <1>3, WithTrendFields

LEMMA TriggeredTyped ==
  ASSUME ScoutTypeOK, NEW r \in Tx, r.trend \in TrendIds
  PROVE  Triggered(r) \in Tx /\ SameTask(Triggered(r), r)
  <1>. DEFINE c == Create(r, r.trend, "editor")
  <1>1. c \in Tx /\ SameTask(c, r)
    BY CreateFields
  <1>2. [r.mine.trends[r.trend] EXCEPT !.status = "proposed"] \in TrendRow
    BY TxFields, Statuses DEF TrendRow
  <1>3. Triggered(r) = WithTrend(c, r.trend, [r.mine.trends[r.trend] EXCEPT !.status = "proposed"])
    BY DEF Triggered
  <1>. HIDE DEF c
  <1>. QED  BY <1>1, <1>2, <1>3, WithTrendFields DEF SameTask

LEMMA ScanStepTyped ==
  ASSUME TypeInv, NEW s \in Scans, ScanStep(s)
  PROVE  TypeInv'
  <1>. DEFINE r == tx[s]
  <1>. s \in Processes /\ r \in Tx /\ Kind(r) /\ ScoutTypeOK
    BY DEF Processes, TypeInv, ScoutTypeOK
  <1>1. CASE StartScan(s)
    <2>1. PICK hot \in SUBSET Clusters :
            BeginTx(s, [Opened("scan", "sweep") EXCEPT !.todo = hot, !.left = MaxProposals])
      BY <1>1 DEF StartScan
    <2>2. "scan" \in ScoutOps
      BY DEF ScoutOps
    <2>3. Opened("scan", "sweep") \in Tx /\ Opened("scan", "sweep").op = "scan"
          /\ Opened("scan", "sweep").step = "sweep"
      BY <2>2, OpenedFields
    <2>. DEFINE o == Opened("scan", "sweep")
                v == [o EXCEPT !.todo = hot, !.left = MaxProposals]
    <2>. HIDE DEF o
    <2>4. MaxProposals \in 0 .. MaxProposals
      BY ScoutAssumption
    <2>5. v \in Tx /\ v.op = "scan" /\ v.step = "sweep"
      BY <2>3, <2>4 DEF o, Tx
    <2>6. Kind(v)
      BY <2>5 DEF Kind
    <2>. HIDE DEF v
    <2>. QED  BY <2>1, <2>5, <2>6, Begins DEF v, o
  <1>2. CASE SweepScan(s)
    <2>. DEFINE v == [Expired(r) EXCEPT !.step = "clusters"]
    <2>1. Expired(r) \in Tx /\ SameTask(Expired(r), r)
      BY ExpiredFields
    <2>2. r.op = "scan"
      BY <1>2 DEF SweepScan, Kind
    <2>3. v \in Tx /\ Kind(v)
      BY <2>1, <2>2 DEF Tx, Kind, SameTask
    <2>. HIDE DEF v
    <2>4. tx' = [tx EXCEPT ![s] = v] /\ UNCHANGED <<trends, requests, seen, perished, ids, overlapped>>
      BY <1>2 DEF SweepScan, MoveTx, v
    <2>. QED  BY <2>3, <2>4, Moves, IdsTyped
  <1>3. ASSUME NEW k \in Clusters, SkipCluster(s, k) PROVE TypeInv'
    <2>. DEFINE v == [r EXCEPT !.todo = @ \ {k}]
    <2>1. v \in Tx /\ Kind(v)
      BY <1>3 DEF Tx, Kind, SkipCluster
    <2>2. tx' = [tx EXCEPT ![s] = v] /\ UNCHANGED <<trends, requests, seen, perished, ids, overlapped>>
      BY <1>3 DEF SkipCluster
    <2>. HIDE DEF v
    <2>. QED  BY <2>1, <2>2, Moves, IdsTyped
  <1>4. ASSUME NEW k \in Clusters, ScanCluster(s, k) PROVE TypeInv'
    <2>. DEFINE t == Upserted(r, k)
                row == UpsertedRow(r, k)
                done == [WithTrend(r, t, row) EXCEPT !.todo = @ \ {k}, !.touched = @ \cup {t}]
                build == [row EXCEPT !.status = "dossier_building"]
                next == [WithTrend(done, t, build) EXCEPT !.step = "dossier", !.trend = t]
    <2>1. t \in TrendIds /\ row \in TrendRow /\ build \in TrendRow
      BY <1>4, UpsertTyped, Statuses, TrendStatusTyped DEF ScanCluster
    <2>2. r.op = "scan" /\ r.step = "clusters"
      BY <1>4 DEF ScanCluster, Kind
    <2>3. WithTrend(r, t, row) \in Tx /\ SameTask(WithTrend(r, t, row), r)
      BY <2>1, WithTrendFields
    <2>4. done \in Tx /\ done.op = "scan" /\ done.step = "clusters" /\ done.left = r.left
      BY <2>1, <2>2, <2>3 DEF Tx, SameTask
    <2>. HIDE DEF t, row, done, build
    <2>5. WithTrend(done, t, build) \in Tx /\ SameTask(WithTrend(done, t, build), done)
      BY <2>1, <2>4, WithTrendFields
    <2>6. next \in Tx /\ next.op = "scan" /\ next.step = "dossier" /\ next.left = r.left /\ next.trend = t
      BY <2>1, <2>4, <2>5 DEF Tx, SameTask
    <2>. HIDE DEF next
    <2>7. PICK v \in {done, next} : tx' = [tx EXCEPT ![s] = v] /\ (v = next => r.left > 0)
      <3>1. \/ MoveTx(s, done)
            \/ Proposable(r, row) /\ MoveTx(s, next)
        BY <1>4, Zenon DEF ScanCluster, t, row, done, build, next
      <3>2. done # next
        BY <2>4, <2>6
      <3>. QED  BY <3>1, <3>2 DEF MoveTx, Proposable
    <2>8. Kind(v) /\ v \in Tx
      BY <2>1, <2>4, <2>6, <2>7, TxFields, ScoutAssumption DEF Kind
    <2>9. ids' \in Ids /\ UNCHANGED <<trends, requests, seen, perished, overlapped>>
      <3>1. ids' = [ids EXCEPT !.trend = IF t > @ THEN t ELSE @]
        BY <1>4 DEF ScanCluster, t
      <3>. QED  BY <1>4, <2>1, <3>1, IdsTyped DEF ScanCluster
    <2>. QED  BY <2>7, <2>8, <2>9, Moves
  <1>5. CASE Propose(s)
    <2>1. r.op = "scan" /\ r.step = "dossier" /\ r.trend \in TrendIds /\ r.left # 0
      BY <1>5 DEF Propose, Kind
    <2>. DEFINE c == Create(r, r.trend, "scout")
                row == [r.mine.trends[r.trend] EXCEPT !.status = "proposed"]
                on(v) == [WithTrend(v, r.trend, row) EXCEPT !.step = "clusters", !.trend = NoTrend]
    <2>2. c \in Tx /\ c.op = "scan" /\ c.left = r.left
      BY <2>1, CreateFields DEF SameTask
    <2>3. row \in TrendRow
      BY <2>1, TxFields, Statuses DEF TrendRow
    <2>. HIDE DEF c, row
    <2>4. \A v \in {c, r} : on(v) \in Tx /\ Kind(on(v)) /\ on(v).op = "scan" /\ on(v).step = "clusters"
                            /\ on(v).left = r.left
      <3>. TAKE v \in {c, r}
      <3>1. v \in Tx /\ v.op = "scan" /\ v.left = r.left
        BY <2>1, <2>2
      <3>2. WithTrend(v, r.trend, row) \in Tx /\ SameTask(WithTrend(v, r.trend, row), v)
        BY <2>1, <2>3, <3>1, WithTrendFields
      <3>. QED  BY <3>1, <3>2 DEF Tx, Kind, SameTask
    <2>5. [on(c) EXCEPT !.left = @ - 1] \in Tx /\ Kind([on(c) EXCEPT !.left = @ - 1])
      <3>1. r.left \in 1 .. MaxProposals /\ r.left - 1 \in 0 .. MaxProposals
        BY <2>1, TxFields, ScoutAssumption
      <3>2. on(c) \in Tx /\ on(c).op = "scan" /\ on(c).step = "clusters" /\ on(c).left = r.left
        BY <2>4
      <3>. HIDE DEF on
      <3>. QED  BY <3>1, <3>2 DEF Tx, Kind
    <2>6. CASE MoveTx(s, [on(c) EXCEPT !.left = @ - 1]) /\ ids' = [ids EXCEPT !.request = @ + 1]
                 /\ CanCreate(r, r.trend)
      <3>1. tx' = [tx EXCEPT ![s] = [on(c) EXCEPT !.left = @ - 1]] /\ ids' \in Ids
        BY <2>6, IdsTyped DEF MoveTx, CanCreate
      <3>. HIDE DEF on
      <3>. QED  BY <1>5, <2>5, <3>1, Moves DEF Propose
    <2>7. CASE MoveTx(s, on(r)) /\ UNCHANGED ids
      <3>1. tx' = [tx EXCEPT ![s] = on(r)] /\ ids' \in Ids /\ on(r) \in Tx /\ Kind(on(r))
        BY <2>4, <2>7, IdsTyped DEF MoveTx
      <3>. HIDE DEF on
      <3>. QED  BY <1>5, <3>1, Moves DEF Propose
    <2>. QED  BY <1>5, <2>6, <2>7 DEF Propose, c, row
  <1>6. CASE FinishScan(s)
    <2>1. PICK fading \in SUBSET TrendIds : CommitAs(s, Monitor(r, fading))
      BY <1>6 DEF FinishScan
    <2>2. Monitor(r, fading) \in Tx
      BY MonitorFields
    <2>. QED  BY <2>1, <2>2, Commits
  <1>7. CASE Abandon(s)
    BY <1>7, Commits DEF Abandon
  <1>8. CASE StartExpiry(s)
    <2>1. "expire" \in ScoutOps
      BY DEF ScoutOps
    <2>2. Opened("expire", "open") \in Tx /\ Kind(Opened("expire", "open"))
      BY <2>1, OpenedFields DEF Kind
    <2>. QED  BY <1>8, <2>2, Begins DEF StartExpiry
  <1>9. CASE FinishExpiry(s)
    BY <1>9, ExpiredFields, Commits DEF FinishExpiry
  <1>. QED  BY <1>1, <1>2, <1>3, <1>4, <1>5, <1>6, <1>7, <1>8, <1>9 DEF ScanStep

LEMMA StoreTriggeredTyped ==
  ASSUME TypeInv, NEW e \in Processes, NEW r \in Tx, StoreTriggered(e, r)
  PROVE  TypeInv'
  <1>1. ids' \in Ids
    BY IdsTyped DEF StoreTriggered
  <1>. QED  BY <1>1, Stores DEF StoreTriggered

LEMMA EditorStepTyped ==
  ASSUME TypeInv, NEW e \in Editors, EditorStep(e)
  PROVE  TypeInv'
  <1>. DEFINE r == tx[e]
  <1>. e \in Processes /\ r \in Tx /\ Kind(r) /\ ScoutTypeOK
    BY DEF Processes, TypeInv, ScoutTypeOK
  <1>1. ASSUME NEW k \in Clusters, StartManual(e, k) PROVE TypeInv'
    <2>. DEFINE o == Opened("manual", "open")
                v == [o EXCEPT !.key = k]
    <2>1. "manual" \in ScoutOps
      BY DEF ScoutOps
    <2>2. o \in Tx /\ o.op = "manual" /\ o.step = "open"
      BY <2>1, OpenedFields
    <2>. HIDE DEF o
    <2>3. v \in Tx /\ Kind(v)
      BY <2>2 DEF Tx, Kind
    <2>. HIDE DEF v
    <2>. QED  BY <1>1, <2>3, Begins DEF StartManual, v, o
  <1>2. CASE AddManual(e)
    <2>. DEFINE t == Upserted(r, r.key)
                row == UpsertedRow(r, r.key)
                building == [row EXCEPT !.status = IF @ \in Unactioned THEN "dossier_building" ELSE @]
                w == WithTrend(r, t, building)
                v == [w EXCEPT !.step = "dossier", !.trend = t, !.touched = {t}]
    <2>1. t \in TrendIds /\ r.op = "manual" /\ r.step = "open"
      BY <1>2 DEF AddManual
    <2>2. building \in TrendRow
      <3>1. row \in TrendRow
        BY <2>1, UpsertTyped DEF Kind
      <3>. HIDE DEF row
      <3>. QED  BY <3>1, Statuses DEF TrendRow
    <2>. HIDE DEF t, building
    <2>3. w \in Tx /\ w.op = "manual" /\ w.key \in Clusters
      BY <2>1, <2>2, WithTrendFields DEF SameTask, Kind
    <2>. HIDE DEF w
    <2>4. v \in Tx /\ v.op = "manual" /\ v.step = "dossier" /\ v.trend = t /\ v.key \in Clusters
      BY <2>1, <2>3 DEF Tx
    <2>5. Kind(v)
      BY <2>1, <2>4 DEF Kind
    <2>6. ids' \in Ids /\ tx' = [tx EXCEPT ![e] = v]
      <3>1. ids' = [ids EXCEPT !.trend = IF t > @ THEN t ELSE @]
        BY <1>2 DEF AddManual, t
      <3>. QED  BY <1>2, <2>1, <3>1, IdsTyped DEF AddManual, MoveTx, v, w, building, t
    <2>. HIDE DEF v
    <2>. QED  BY <1>2, <2>4, <2>5, <2>6, Moves DEF AddManual
  <1>3. CASE FinishManual(e)
    <2>. DEFINE row == r.mine.trends[r.trend]
                done == [row EXCEPT !.status = IF @ = "dossier_building" THEN "proposed" ELSE @]
    <2>1. r.trend \in TrendIds
      BY <1>3 DEF FinishManual, Kind
    <2>2. done \in TrendRow
      <3>1. row \in TrendRow
        BY <2>1, TxFields
      <3>. HIDE DEF row
      <3>. QED  BY <3>1, Statuses DEF TrendRow
    <2>3. CommitAs(e, WithTrend(r, r.trend, done))
      BY <1>3 DEF FinishManual
    <2>. HIDE DEF done
    <2>. QED  BY <2>1, <2>2, <2>3, WithTrendFields, Commits
  <1>4. ASSUME NEW op \in {"trigger", "trigger_now"}, NEW t \in TrendIds, StartTrigger(e, op, t)
        PROVE  TypeInv'
    <2>. DEFINE o == Opened(op, "open")
                v == [o EXCEPT !.trend = t]
    <2>1. op \in ScoutOps
      BY DEF ScoutOps
    <2>2. o \in Tx /\ o.op = op /\ o.step = "open"
      BY <2>1, OpenedFields
    <2>. HIDE DEF o
    <2>3. v \in Tx /\ v.op = op /\ v.step = "open" /\ v.trend = t
      BY <2>2 DEF Tx
    <2>4. Kind(v)
      BY <2>3 DEF Kind
    <2>. HIDE DEF v
    <2>. QED  BY <1>4, <2>3, <2>4, Begins DEF StartTrigger, v, o
  <1>5. ASSUME r.op \in {"trigger", "trigger_now"}
        PROVE  /\ Triggered(r) \in Tx
               /\ Started(Triggered(r), ids.request + 1, r.trend) \in Tx
                  \/ ids.request + 1 \notin RequestIds
    <2>1. Triggered(r) \in Tx
      BY <1>5, TriggeredTyped DEF Kind
    <2>. QED  BY <2>1, StartedTyped
  <1>6. CASE TriggerGranted(e)
    <2>1. PICK v : StoreTriggered(e, v) /\ v \in Tx
      BY <1>5, <1>6 DEF TriggerGranted, StoreTriggered
    <2>. QED  BY <2>1, StoreTriggeredTyped
  <1>7. CASE TriggerForm(e)
    <2>1. CASE StartRefused(e) /\ StoreTriggered(e, Triggered(r))
      BY <1>5, <2>1, StoreTriggeredTyped DEF StartRefused
    <2>. QED  BY <1>6, <1>7, <2>1 DEF TriggerForm
  <1>8. CASE TriggerApi(e)
    <2>1. CASE ~TriggerGranted(e)
      <3>1. ids' \in Ids
        BY <1>8, <2>1, IdsTyped, ScoutAssumption DEF TriggerApi, Ids, RequestIds
      <3>. QED  BY <1>8, <2>1, <3>1, NoTxTyped, Moves DEF TriggerApi
    <2>. QED  BY <1>6, <2>1
  <1>9. ASSUME NEW op \in {"approve", "decline", "close", "work"}, NEW p \in RequestIds,
               StartOn(e, op, p)
        PROVE  TypeInv'
    <2>. DEFINE o == Opened(op, "open")
                v == [o EXCEPT !.request = p, !.trend = requests[p].trend]
    <2>1. op \in ScoutOps
      BY DEF ScoutOps
    <2>2. o \in Tx /\ o.op = op /\ o.step = "open"
      BY <2>1, OpenedFields
    <2>3. requests[p].trend \in TrendIds \cup {NoTrend}
      BY DEF ScoutTypeOK, RequestRow
    <2>. HIDE DEF o
    <2>4. v \in Tx /\ v.op = op /\ v.step = "open" /\ v.request = p
      BY <2>2, <2>3 DEF Tx
    <2>5. Kind(v)
      BY <2>4 DEF Kind
    <2>. HIDE DEF v
    <2>. QED  BY <1>9, <2>4, <2>5, Begins DEF StartOn, v, o
  <1>10. CASE ApproveRequest(e)
    <2>1. Started(r, r.request, r.trend) \in Tx
      BY <1>10, StartedTyped DEF ApproveRequest, Kind
    <2>. QED  BY <1>10, <2>1, Commits DEF ApproveRequest
  <1>11. CASE DeclineRequest(e)
    <2>. DEFINE d == SetRequest(r, r.request, "declined")
                row == r.mine.trends[r.trend]
                done == [row EXCEPT !.status = IF @ = "proposed" THEN "declined" ELSE @]
    <2>1. d \in Tx
      BY <1>11, SetRequestFields, Statuses DEF DeclineRequest, Kind
    <2>2. r.trend \in TrendIds => done \in TrendRow
      <3>1. r.trend \in TrendIds => row \in TrendRow
        BY TxFields
      <3>. HIDE DEF row
      <3>. QED  BY <3>1, Statuses DEF TrendRow
    <2>3. CommitAs(e, WithTrend(d, r.trend, done))
      BY <1>11 DEF DeclineRequest, SetRequest
    <2>. HIDE DEF d, done
    <2>. QED  BY <2>1, <2>2, <2>3, WithTrendFields, Commits
  <1>12. CASE CloseRequest(e)
    <2>1. SetRequest(r, r.request, "closed") \in Tx
      BY <1>12, SetRequestFields, Statuses DEF CloseRequest, Kind
    <2>. QED  BY <1>12, <2>1, Commits DEF CloseRequest, SetRequest
  <1>13. CASE Work(e)
    <2>1. r.request \in RequestIds
      BY <1>13 DEF Work, Kind
    <2>2. \A st \in {"failed", "generating", "published"} : SetRequest(r, r.request, st) \in Tx
      <3>. TAKE st \in {"failed", "generating", "published"}
      <3>1. st \in PipelineStatus
        BY Statuses
      <3>. QED  BY <2>1, <3>1, SetRequestFields
    <2>3. CASE \E st \in {"failed", "generating"} : CommitAs(e, SetRequest(r, r.request, st))
      BY <2>2, <2>3, Commits
    <2>4. CASE CommitAs(e, WithTrend(SetRequest(r, r.request, "published"), r.trend,
                             [r.mine.trends[r.trend] EXCEPT !.status = "completed"]))
      <3>1. r.trend \in TrendIds => [r.mine.trends[r.trend] EXCEPT !.status = "completed"] \in TrendRow
        BY TxFields, Statuses DEF TrendRow
      <3>. QED  BY <2>2, <2>4, <3>1, WithTrendFields, Commits
    <2>. QED  BY <1>13, <2>3, <2>4 DEF Work, SetRequest
  <1>14. ASSUME NEW t \in TrendIds, StartDismiss(e, t) PROVE TypeInv'
    <2>. DEFINE o == Opened("dismiss", "open")
                v == [o EXCEPT !.trend = t]
    <2>1. "dismiss" \in ScoutOps
      BY DEF ScoutOps
    <2>2. o \in Tx /\ o.op = "dismiss" /\ o.step = "open"
      BY <2>1, OpenedFields
    <2>. HIDE DEF o
    <2>3. v \in Tx /\ v.op = "dismiss" /\ v.step = "open" /\ v.trend = t
      BY <2>2 DEF Tx
    <2>4. Kind(v)
      BY <2>3 DEF Kind
    <2>. HIDE DEF v
    <2>. QED  BY <1>14, <2>3, <2>4, Begins DEF StartDismiss, v, o
  <1>15. CASE DismissTrend(e)
    <2>. DEFINE w == SetTrend(r, r.trend, "dismissed")
                v == [w EXCEPT !.touched = {r.trend}]
    <2>1. w \in Tx /\ r.trend \in TrendIds
      BY <1>15, SetTrendFields, Statuses DEF DismissTrend, Kind
    <2>. HIDE DEF w
    <2>2. v \in Tx
      BY <2>1 DEF Tx
    <2>. HIDE DEF v
    <2>. QED  BY <1>15, <2>2, Commits DEF DismissTrend, SetTrend, w, v
  <1>. QED
    BY <1>1, <1>2, <1>3, <1>4, <1>7, <1>8, <1>9, <1>10, <1>11, <1>12, <1>13, <1>14, <1>15
    DEF EditorStep

LEMMA ScoutTypeStep == TypeInv /\ [ScoutNext]_scoutVars => TypeInv'
  <1>. SUFFICES ASSUME TypeInv, [ScoutNext]_scoutVars PROVE TypeInv'
    OBVIOUS
  <1>1. CASE UNCHANGED scoutVars
    BY <1>1 DEF scoutVars, TypeInv, ScoutTypeOK
  <1>2. ASSUME NEW s \in Processes, Rollback(s) PROVE TypeInv'
    BY <1>2, NoTxTyped, Moves, IdsTyped DEF Rollback
  <1>3. ASSUME NEW t \in TrendIds, Perish(t) PROVE TypeInv'
    BY <1>3 DEF Perish, TypeInv, ScoutTypeOK
  <1>4. ASSUME NEW k \in Clusters, WindowPasses(k) PROVE TypeInv'
    BY <1>4 DEF WindowPasses, TypeInv, ScoutTypeOK
  <1>. QED  BY <1>1, <1>2, <1>3, <1>4, ScanStepTyped, EditorStepTyped DEF ScoutNext

LEMMA ScoutTypeInvariant == ScoutSpec => []TypeInv
  <1>1. ScoutInit => TypeInv
    <2>. SUFFICES ASSUME ScoutInit PROVE TypeInv
      OBVIOUS
    <2>1. trends \in [TrendIds -> TrendRow] /\ requests \in [RequestIds -> RequestRow]
      BY NoTxTyped DEF ScoutInit, Rows
    <2>2. ids \in [trend : TrendIds \cup {0}, request : RequestIds \cup {0}]
      BY DEF ScoutInit
    <2>. QED  BY <2>1, <2>2, NoTxTyped DEF ScoutInit, TypeInv, ScoutTypeOK
  <1>. QED  BY <1>1, ScoutTypeStep, PTL DEF ScoutSpec

\* The rows, the transactions and the id sequences keep their types.
THEOREM ScoutTypeCorrect == ScoutSpec => []ScoutTypeOK
  <1>1. TypeInv => ScoutTypeOK
    BY DEF TypeInv
  <1>. QED  BY <1>1, ScoutTypeInvariant, PTL

--------------------------------------------------------------------------------
(***************************************************************************)
(* The invariant of the behaviours in which no two transactions overlap.   *)
(***************************************************************************)
LiveRequest == {"pending_approval", "generating", "failed"}

\* Statuses a request of this module can have.
Reached == {Absent, "pending_approval", "generating", "failed", "published", "closed",
            "declined", "expired"}

\* A row that no transaction has inserted is the empty one; a row that exists has a key.
Keyed(W) ==
  \A t \in TrendIds : /\ W.trends[t].status = Absent => W.trends[t] = NoTrendRow
                      /\ W.trends[t].status # Absent => W.trends[t].key \in Clusters

\* Of the trends of a cluster all but the newest are done with.
OnlyNewestOpen(W) ==
  \A t, u \in TrendIds : /\ t < u /\ W.trends[u].status # Absent
                         /\ W.trends[t].key = W.trends[u].key
                         => W.trends[t].status \in DedupSkip

\* A request that exists is about a trend that exists.
Owned(W) ==
  \A p \in RequestIds : /\ W.requests[p].status \in Reached
                        /\ W.requests[p].status # Absent =>
                             /\ W.requests[p].trend \in TrendIds
                             /\ W.trends[W.requests[p].trend].status # Absent

\* A trend has one live request.
OneLive(W) ==
  \A p, q \in RequestIds : /\ W.requests[p].status \in LiveRequest
                           /\ W.requests[q].status \in LiveRequest
                           /\ W.requests[p].trend = W.requests[q].trend
                           => p = q

\* What the status of a request says about its trend.
Aligned(W) ==
  \A p \in RequestIds :
    /\ W.requests[p].status = "pending_approval" =>
         W.trends[W.requests[p].trend].status \in {"dossier_building", "proposed", "dismissed"}
    /\ W.requests[p].status \in {"generating", "failed"} =>
         W.trends[W.requests[p].trend].status \in {"approved", "dismissed"}

RowsOK(W) == Keyed(W) /\ OnlyNewestOpen(W) /\ Owned(W) /\ OneLive(W) /\ Aligned(W)

\* Only trend b may be collecting its dossier.
BuildsOnly(W, b) == \A t \in TrendIds : W.trends[t].status = "dossier_building" => t = b

\* Ids that were not given out yet have no row.
Numbered(W, i) ==
  /\ \A t \in TrendIds : t > i.trend => W.trends[t].status = Absent
  /\ \A p \in RequestIds : p > i.request => W.requests[p].status = Absent

\* V is final where W is.
KeepsFinal(W, V) ==
  /\ \A t \in TrendIds : W.trends[t].status \in DedupSkip => V.trends[t].status = W.trends[t].status
  /\ \A p \in RequestIds : W.requests[p].status \in PipelineTerminal
                             => V.requests[p].status = W.requests[p].status

\* A trend as the scout may propose it.
Free(row) == row.status \in {Absent, "detected"} /\ ~row.suppressed

\* What the scout has proposed in V, since W, it was free to propose.
HeldBack(W, V) ==
  \A p \in RequestIds :
    W.requests[p].status = Absent /\ V.requests[p].status # Absent /\ V.requests[p].by = "scout"
      => OpenCount(V.requests) <= MaxOpen /\ Free(W.trends[V.requests[p].trend])

\* A trend that a scan still finds detected was so, and as suppressed, when it began.
FreshlyRead(W, V) ==
  \A t \in TrendIds : V.trends[t].status = "detected" =>
    /\ W.trends[t].status \in {Absent, "detected"}
    /\ W.trends[t].suppressed = V.trends[t].suppressed

\* What may be committed by a transaction that loaded W.
MayCommit(W, V) == RowsOK(V) /\ KeepsFinal(W, V) /\ HeldBack(W, V)

\* What a scan knows of its copies.
ScanKnows(r) ==
  r.op = "scan" =>
    /\ FreshlyRead(r.loaded, r.mine)
    /\ r.step = "dossier" => /\ r.mine.trends[r.trend].status = "dossier_building"
                             /\ OpenCount(r.mine.requests) < MaxOpen
                             /\ Free(r.loaded.trends[r.trend])

\* What an editor's transaction found in the rows it loaded.
EditorKnows(r) ==
  LET row == r.mine.requests[r.request]
  IN  /\ r.op \in {"trigger", "trigger_now"} =>
           /\ r.mine.trends[r.trend].status \in Unactioned
           /\ \A p \in RequestIds : r.mine.requests[p].trend = r.trend
                                      => r.mine.requests[p].status \notin PipelineOpen
      /\ r.op \in {"approve", "decline", "close", "work"} =>
           row.status # Absent /\ r.trend = row.trend
      /\ r.op = "approve" => row.status = "pending_approval" /\ MayStart(r.mine.trends[r.trend])
      /\ r.op = "decline" => row.status = "pending_approval"
      /\ r.op = "close" => "closed" \in PipelineNext[row.status]
      /\ r.op = "work" => row.status \in {"generating", "failed"}
      /\ r.op = "dismiss" => /\ r.mine.trends[r.trend].status # Absent
                             /\ TrendMay(r.mine.trends[r.trend].status, "dismissed")

SessionOK(r) ==
  /\ MayCommit(r.loaded, r.mine)
  /\ BuildsOnly(r.mine, IF r.step = "dossier" THEN r.trend ELSE NoTrend)
  /\ r.step \in {"open", "sweep"} => r.mine = r.loaded
  /\ ScanKnows(r)
  /\ EditorKnows(r)

Alone ==
  /\ \A s, u \in Busy : s = u
  /\ \A s \in Busy : /\ tx[s].loaded = Committed
                     /\ Numbered(tx[s].mine, ids)
                     /\ SessionOK(tx[s])

DeskInv ==
  ~overlapped => /\ RowsOK(Committed) /\ BuildsOnly(Committed, NoTrend) /\ Numbered(Committed, ids)
                 /\ Alone

--------------------------------------------------------------------------------
(***************************************************************************)
(* Rows as a transaction changes them.                                     *)
(***************************************************************************)

\* V is W with some rows moved on: none is new, none that was final has moved, no request has
\* come alive.
Follows(W, V) ==
  /\ \A t \in TrendIds :
       /\ V.trends[t].key = W.trends[t].key
       /\ W.trends[t].status = Absent => V.trends[t] = W.trends[t]
       /\ W.trends[t].status # Absent => V.trends[t].status # Absent
       /\ W.trends[t].status \in DedupSkip => V.trends[t].status = W.trends[t].status
  /\ \A p \in RequestIds :
       /\ V.requests[p].trend = W.requests[p].trend
       /\ V.requests[p].status = Absent <=> W.requests[p].status = Absent
       /\ V.requests[p].status \in LiveRequest => W.requests[p].status \in LiveRequest
       /\ V.requests[p].status \in Reached
       /\ W.requests[p].status \in PipelineTerminal
            => V.requests[p].status = W.requests[p].status
  /\ Aligned(V)

LEMMA RowsFields ==
  ASSUME NEW W \in Rows
  PROVE  /\ W.trends \in [TrendIds -> TrendRow] /\ W.requests \in [RequestIds -> RequestRow]
         /\ \A t \in TrendIds : /\ W.trends[t].status \in TrendStatus \cup {Absent}
                                /\ W.trends[t].key \in Clusters \cup {Absent}
                                /\ W.trends[t].suppressed \in BOOLEAN
         /\ \A p \in RequestIds : /\ W.requests[p].status \in PipelineStatus \cup {Absent}
                                  /\ W.requests[p].trend \in TrendIds \cup {NoTrend}
  BY DEF Rows, TrendRow, RequestRow

LEMMA FollowsRows ==
  ASSUME NEW W \in Rows, NEW V \in Rows, RowsOK(W), Follows(W, V)
  PROVE  RowsOK(V) /\ KeepsFinal(W, V) /\ \A i : Numbered(W, i) => Numbered(V, i)
  <1>1. Keyed(V)
    BY DEF RowsOK, Keyed, Follows
  <1>2. OnlyNewestOpen(V)
    BY DEF RowsOK, OnlyNewestOpen, Follows
  <1>3. Owned(V)
    BY DEF RowsOK, Owned, Follows
  <1>4. OneLive(V)
    BY DEF RowsOK, OneLive, Follows
  <1>5. Aligned(V) /\ KeepsFinal(W, V)
    BY DEF Follows, KeepsFinal
  <1>6. ASSUME NEW i, Numbered(W, i) PROVE Numbered(V, i)
    BY <1>6 DEF Numbered, Follows
  <1>. QED  BY <1>1, <1>2, <1>3, <1>4, <1>5, <1>6 DEF RowsOK

LEMMA FollowsCommit ==
  ASSUME NEW L \in Rows, NEW W \in Rows, NEW V \in Rows, MayCommit(L, W), Follows(W, V),
         W = L \/ V.requests = W.requests
  PROVE  MayCommit(L, V)
  <1>1. RowsOK(V) /\ KeepsFinal(W, V)
    BY FollowsRows DEF MayCommit
  <1>2. KeepsFinal(L, V)
    BY <1>1 DEF MayCommit, KeepsFinal
  <1>3. HeldBack(L, V)
    BY DEF MayCommit, HeldBack, Follows
  <1>. QED  BY <1>1, <1>2, <1>3 DEF MayCommit

LEMMA NothingNew ==
  ASSUME NEW W \in Rows, RowsOK(W)
  PROVE  MayCommit(W, W) /\ FreshlyRead(W, W)
  BY DEF MayCommit, KeepsFinal, HeldBack, FreshlyRead

LEMMA MatchedAlone ==
  ASSUME ScoutTypeOK, NEW r \in Tx, r.loaded = Committed
  PROVE  Matched(r) = r.mine /\ \A t \in TrendIds : Copy(r, t) = r.mine.trends[t]
  <1>1. \A t \in TrendIds :
           StoredTrend(trends[t], r.loaded.trends[t], r.mine.trends[t]) = r.mine.trends[t]
    BY TxFields DEF Committed, StoredTrend, Set, TrendRow
  <1>2. \A p \in RequestIds :
           StoredRequest(requests[p], r.loaded.requests[p], r.mine.requests[p]) = r.mine.requests[p]
    BY TxFields DEF Committed, StoredRequest, Set, RequestRow
  <1>3. Matched(r).trends = r.mine.trends
    BY <1>1, TxFields DEF Matched
  <1>4. Matched(r).requests = r.mine.requests
    BY <1>2, TxFields DEF Matched
  <1>5. Matched(r) = r.mine
    BY <1>3, <1>4, MatchedTyped, TxFields DEF Rows
  <1>. QED  BY <1>5 DEF Copy

LEMMA ExpiredIs ==
  ASSUME ScoutTypeOK, NEW r \in Tx, r.loaded = Committed
  PROVE  LET v == Expired(r)
             S == {t \in perished : r.mine.trends[t].status \in Unactioned}
         IN  /\ v \in Tx /\ SameTask(v, r) /\ v.loaded = Committed
             /\ \A t \in TrendIds :
                  /\ v.mine.trends[t].status = IF t \in S THEN "expired" ELSE r.mine.trends[t].status
                  /\ v.mine.trends[t].key = r.mine.trends[t].key
                  /\ t \notin S => v.mine.trends[t] = r.mine.trends[t]
             /\ \A p \in RequestIds :
                  /\ v.mine.requests[p].trend = r.mine.requests[p].trend
                  /\ v.mine.requests[p].status =
                       IF r.mine.requests[p].trend \in S
                          /\ r.mine.requests[p].status = "pending_approval"
                       THEN "expired" ELSE r.mine.requests[p].status
  <1>. DEFINE v == Expired(r)
              S == {t \in perished : r.mine.trends[t].status \in Unactioned}
  <1>1. Stale(r) = S
    BY MatchedAlone DEF Stale
  <1>2. Matched(r) = r.mine /\ \A t \in TrendIds : Copy(r, t) = r.mine.trends[t]
    BY MatchedAlone
  <1>3. S \subseteq TrendIds
    BY DEF ScoutTypeOK
  <1>. HIDE DEF S, v
  <1>4. v \in Tx /\ SameTask(v, r)
    BY ExpiredFields DEF v
  <1>5. \A t \in TrendIds : v.mine.trends[t] =
          IF t \in S THEN [r.mine.trends[t] EXCEPT !.status = "expired"] ELSE r.mine.trends[t]
    BY <1>1, <1>2, ExpiredFields DEF v
  <1>6. \A p \in RequestIds : v.mine.requests[p] =
          IF r.mine.requests[p].trend \in S /\ r.mine.requests[p].status = "pending_approval"
          THEN [r.mine.requests[p] EXCEPT !.status = "expired"] ELSE r.mine.requests[p]
    BY <1>1, <1>2, ExpiredFields DEF v
  <1>7. v.loaded.trends = r.loaded.trends
    <2>1. \A t \in TrendIds : v.loaded.trends[t] = r.loaded.trends[t]
      <3>. TAKE t \in TrendIds
      <3>1. r.loaded.trends[t] = trends[t] /\ trends[t] \in TrendRow
        BY DEF Committed, ScoutTypeOK
      <3>2. [trends[t] EXCEPT !.status = trends[t].status] = trends[t]
        BY <3>1 DEF TrendRow
      <3>3. \/ v.loaded.trends[t] = r.loaded.trends[t]
            \/ v.loaded.trends[t] = trends[t]
            \/ v.loaded.trends[t] = [r.loaded.trends[t] EXCEPT !.status = trends[t].status]
        BY ExpiredFields, Zenon DEF v
      <3>. QED  BY <3>1, <3>2, <3>3
    <2>. QED  BY <1>4, <2>1, TxFields
  <1>8. v.loaded.requests = r.loaded.requests
    <2>1. \A p \in RequestIds : v.loaded.requests[p] = r.loaded.requests[p]
      <3>. TAKE p \in RequestIds
      <3>1. v.loaded.requests[p] = requests[p] \/ v.loaded.requests[p] = r.loaded.requests[p]
        BY ExpiredFields DEF v
      <3>2. r.loaded.requests[p] = requests[p]
        BY DEF Committed
      <3>. QED  BY <3>1, <3>2
    <2>. QED  BY <1>4, <2>1, TxFields
  <1>9. v.loaded = Committed
    BY <1>4, <1>7, <1>8, TxFields DEF Rows
  <1>10. ASSUME NEW t \in TrendIds
         PROVE  /\ v.mine.trends[t].status = IF t \in S THEN "expired" ELSE r.mine.trends[t].status
                /\ v.mine.trends[t].key = r.mine.trends[t].key
                /\ t \notin S => v.mine.trends[t] = r.mine.trends[t]
    <2>1. CASE t \in S
      <3>1. v.mine.trends[t] = [r.mine.trends[t] EXCEPT !.status = "expired"] /\ r.mine.trends[t] \in TrendRow
        BY <1>5, <2>1, TxFields
      <3>. QED  BY <2>1, <3>1 DEF TrendRow
    <2>. QED  BY <1>5, <2>1
  <1>11. ASSUME NEW p \in RequestIds
         PROVE  /\ v.mine.requests[p].trend = r.mine.requests[p].trend
                /\ v.mine.requests[p].status =
                     IF r.mine.requests[p].trend \in S
                        /\ r.mine.requests[p].status = "pending_approval"
                     THEN "expired" ELSE r.mine.requests[p].status
    <2>. DEFINE hit == r.mine.requests[p].trend \in S /\ r.mine.requests[p].status = "pending_approval"
    <2>1. CASE hit
      <3>1. v.mine.requests[p] = [r.mine.requests[p] EXCEPT !.status = "expired"]
            /\ r.mine.requests[p] \in RequestRow
        BY <1>6, <2>1, TxFields
      <3>. QED  BY <2>1, <3>1 DEF RequestRow
    <2>2. CASE ~hit
      BY <1>6, <2>2
    <2>. QED  BY <2>1, <2>2
  <1>. QED  BY <1>4, <1>9, <1>10, <1>11 DEF v, S

LEMMA MonitorIs ==
  ASSUME ScoutTypeOK, NEW r \in Tx, r.loaded = Committed, NEW fading
  PROVE  LET v == Monitor(r, fading)
         IN  /\ v \in Tx /\ SameTask(v, r) /\ v.loaded = Committed
             /\ \A t \in TrendIds :
                  /\ v.mine.trends[t].status = r.mine.trends[t].status
                  /\ v.mine.trends[t].key = r.mine.trends[t].key
                  /\ r.mine.trends[t].status = Absent => v.mine.trends[t] = r.mine.trends[t]
             /\ v.mine.requests = r.mine.requests
  <1>. DEFINE v == Monitor(r, fading)
              on(t) == r.mine.trends[t].status \in Monitored
  <1>1. Matched(r) = r.mine /\ \A t \in TrendIds : Copy(r, t) = r.mine.trends[t]
    BY MatchedAlone
  <1>. HIDE DEF v
  <1>2. v \in Tx /\ SameTask(v, r) /\ v.mine.requests = r.mine.requests
        /\ v.loaded.requests = r.loaded.requests
    BY MonitorFields DEF v
  <1>3. \A t \in TrendIds : v.mine.trends[t] =
          IF on(t) THEN [r.mine.trends[t] EXCEPT !.suppressed = (t \in fading)] ELSE r.mine.trends[t]
    BY <1>1, MonitorFields DEF v
  <1>4. \A t \in TrendIds : v.loaded.trends[t] = r.loaded.trends[t]
    <2>. TAKE t \in TrendIds
    <2>1. v.loaded.trends[t] = trends[t] \/ v.loaded.trends[t] = r.loaded.trends[t]
      BY MonitorFields DEF v
    <2>2. r.loaded.trends[t] = trends[t]
      BY DEF Committed
    <2>. QED  BY <2>1, <2>2
  <1>5. v.loaded = Committed
    BY <1>2, <1>4, TxFields DEF Rows
  <1>6. Absent \notin Monitored
    BY DEF Monitored, Unactioned, Absent
  <1>7. ASSUME NEW t \in TrendIds
        PROVE  /\ v.mine.trends[t].status = r.mine.trends[t].status
               /\ v.mine.trends[t].key = r.mine.trends[t].key
               /\ r.mine.trends[t].status = Absent => v.mine.trends[t] = r.mine.trends[t]
    <2>1. r.mine.trends[t] \in TrendRow
      BY TxFields
    <2>. QED  BY <1>3, <1>6, <2>1 DEF TrendRow
  <1>. QED  BY <1>2, <1>5, <1>7 DEF v

--------------------------------------------------------------------------------
(***************************************************************************)
(* The ways in which a step can leave the invariant.                       *)
(***************************************************************************)

\* What a step changes in the committed rows.
StepOK == ~overlapped' => KeepsFinal(Committed, Committed') /\ HeldBack(Committed, Committed')


LEMMA CommittedSteady ==
  ASSUME UNCHANGED <<trends, requests>>
  PROVE  Committed' = Committed /\ StepOK
  BY DEF Committed, StepOK, KeepsFinal, HeldBack

LEMMA AloneBegins ==
  ASSUME TypeInv, DeskInv, NEW s \in Processes, NEW v, BeginTx(s, v),
         v \in Tx, v.op # "none", v.mine = Committed, v.loaded = Committed,
         ~overlapped => SessionOK(v)
  PROVE  DeskInv' /\ StepOK
  <1>1. Committed' = Committed /\ StepOK /\ ids' = ids
    BY CommittedSteady DEF BeginTx
  <1>2. CASE overlapped'
    BY <1>1, <1>2 DEF DeskInv
  <1>3. CASE ~overlapped'
    <2>1. ~overlapped /\ Busy = {} /\ tx' = [tx EXCEPT ![s] = v] /\ tx \in [Processes -> Tx]
      BY <1>3 DEF BeginTx, TypeInv, ScoutTypeOK
    <2>2. Busy' = {s} /\ tx'[s] = v
      BY <2>1 DEF Busy
    <2>3. RowsOK(Committed) /\ BuildsOnly(Committed, NoTrend) /\ Numbered(Committed, ids)
      BY <2>1 DEF DeskInv
    <2>4. SessionOK(v)
      BY <2>1
    <2>5. Alone'
      BY <1>1, <2>2, <2>3, <2>4 DEF Alone
    <2>. QED  BY <1>1, <2>3, <2>5 DEF DeskInv
  <1>. QED  BY <1>2, <1>3

LEMMA AloneMoves ==
  ASSUME TypeInv, DeskInv, NEW s \in Busy, NEW v, tx' = [tx EXCEPT ![s] = v],
         v \in Tx, v.op # "none", v.loaded = Committed,
         ~overlapped => /\ SessionOK(v) /\ Numbered(v.mine, ids') /\ Numbered(Committed, ids'),
         UNCHANGED <<trends, requests, overlapped>>
  PROVE  DeskInv' /\ StepOK
  <1>1. Committed' = Committed /\ StepOK
    BY CommittedSteady
  <1>2. CASE ~overlapped
    <2>1. tx \in [Processes -> Tx] /\ s \in Processes
      BY DEF TypeInv, ScoutTypeOK, Busy
    <2>2. Busy' = Busy /\ \A u \in Busy : u = s
      BY <1>2, <2>1 DEF Busy, DeskInv, Alone
    <2>3. tx'[s] = v
      BY <2>1
    <2>4. Alone'
      BY <1>1, <1>2, <2>2, <2>3 DEF Alone
    <2>. QED  BY <1>1, <1>2, <2>4 DEF DeskInv
  <1>. QED  BY <1>1, <1>2 DEF DeskInv

LEMMA AloneEnds ==
  ASSUME TypeInv, DeskInv, ~overlapped, NEW s \in Busy, tx' = [tx EXCEPT ![s] = NoTx]
  PROVE  Alone'
  <1>1. tx \in [Processes -> Tx] /\ s \in Processes
    BY DEF TypeInv, ScoutTypeOK, Busy
  <1>2. \A u \in Busy : u = s
    BY DEF DeskInv, Alone
  <1>3. Busy' = {}
    BY <1>1, <1>2, NoTxTyped DEF Busy
  <1>. QED  BY <1>3 DEF Alone

LEMMA AloneRollsBack ==
  ASSUME TypeInv, DeskInv, NEW s \in Busy, tx' = [tx EXCEPT ![s] = NoTx],
         Numbered(Committed, ids) => Numbered(Committed, ids'),
         UNCHANGED <<trends, requests, overlapped>>
  PROVE  DeskInv' /\ StepOK
  <1>1. Committed' = Committed /\ StepOK
    BY CommittedSteady
  <1>2. CASE ~overlapped
    BY <1>1, <1>2, AloneEnds DEF DeskInv
  <1>. QED  BY <1>1, <1>2 DEF DeskInv

LEMMA AloneStores ==
  ASSUME TypeInv, DeskInv, NEW s \in Busy, NEW v \in Tx, StoreAs(s, v),
         ~overlapped => /\ v.loaded = Committed /\ MayCommit(Committed, v.mine)
                        /\ BuildsOnly(v.mine, NoTrend) /\ Numbered(v.mine, ids'),
         overlapped' = overlapped
  PROVE  DeskInv' /\ StepOK
  <1>1. CASE ~overlapped
    <2>1. Matched(v) = v.mine
      BY <1>1, MatchedAlone DEF TypeInv
    <2>2. trends' = v.mine.trends /\ requests' = v.mine.requests /\ tx' = [tx EXCEPT ![s] = NoTx]
      BY <2>1 DEF StoreAs
    <2>3. Committed' = v.mine
      BY <2>2, TxFields DEF Committed, Rows
    <2>4. StepOK
      BY <1>1, <2>3 DEF StepOK, MayCommit
    <2>5. Alone'
      BY <1>1, <2>2, AloneEnds
    <2>. QED  BY <1>1, <2>3, <2>4, <2>5 DEF DeskInv, MayCommit
  <1>. QED  BY <1>1 DEF DeskInv, StepOK

\* Ids only grow.
LEMMA NumberedGrows ==
  ASSUME TypeInv, NEW W, Numbered(W, ids)
  PROVE  /\ \A t \in TrendIds : Numbered(W, [ids EXCEPT !.trend = IF t > @ THEN t ELSE @])
         /\ Numbered(W, [ids EXCEPT !.request = @ + 1])
  <1>1. ids \in Ids /\ ids.trend \in Nat /\ ids.request \in Nat
    BY IdsTyped
  <1>2. \A t \in TrendIds : t \in Nat
    BY DEF TrendIds
  <1>3. \A p \in RequestIds : p \in Nat
    BY DEF RequestIds
  <1>4. ASSUME NEW t \in TrendIds
        PROVE  Numbered(W, [ids EXCEPT !.trend = IF t > @ THEN t ELSE @])
    <2>. DEFINE i == [ids EXCEPT !.trend = IF t > @ THEN t ELSE @]
    <2>1. i.trend >= ids.trend /\ i.trend \in Nat /\ i.request = ids.request
      BY <1>1, <1>2 DEF Ids
    <2>. HIDE DEF i
    <2>. QED  BY <1>1, <1>2, <2>1 DEF Numbered
  <1>5. Numbered(W, [ids EXCEPT !.request = @ + 1])
    <2>. DEFINE i == [ids EXCEPT !.request = @ + 1]
    <2>1. i.request = ids.request + 1 /\ i.trend = ids.trend
      BY <1>1 DEF Ids
    <2>. HIDE DEF i
    <2>. QED  BY <1>1, <1>3, <2>1 DEF Numbered
  <1>. QED  BY <1>4, <1>5

--------------------------------------------------------------------------------
(***************************************************************************)
(* The actions, when no two transactions overlap.                          *)
(***************************************************************************)
LEMMA OneSession ==
  ASSUME TypeInv, DeskInv, ~overlapped, NEW s \in Busy
  PROVE  LET r == tx[s]
         IN  /\ ScoutTypeOK /\ s \in Processes /\ r \in Tx /\ Kind(r) /\ r.op # "none"
             /\ r.loaded = Committed /\ SessionOK(r) /\ Numbered(r.mine, ids)
             /\ r.mine \in Rows /\ Committed \in Rows /\ RowsOK(Committed) /\ RowsOK(r.mine)
             /\ MayCommit(Committed, r.mine)
             /\ Matched(r) = r.mine /\ \A t \in TrendIds : Copy(r, t) = r.mine.trends[t]
             /\ BuildsOnly(Committed, NoTrend) /\ Numbered(Committed, ids)
             /\ (r.step # "dossier" => BuildsOnly(r.mine, NoTrend))
  <1>. DEFINE r == tx[s]
  <1>1. ScoutTypeOK /\ s \in Processes /\ r \in Tx /\ Kind(r) /\ r.op # "none"
    BY DEF TypeInv, ScoutTypeOK, Busy
  <1>2. r.loaded = Committed /\ SessionOK(r) /\ Numbered(r.mine, ids)
        /\ RowsOK(Committed) /\ BuildsOnly(Committed, NoTrend) /\ Numbered(Committed, ids)
    BY DEF DeskInv, Alone
  <1>3. MayCommit(Committed, r.mine) /\ RowsOK(r.mine)
        /\ (r.step # "dossier" => BuildsOnly(r.mine, NoTrend))
    BY <1>2, Zenon DEF SessionOK, MayCommit
  <1>. HIDE DEF r
  <1>4. r.mine \in Rows /\ Committed \in Rows
    BY <1>1, TxFields, CommittedTyped
  <1>5. Matched(r) = r.mine /\ \A t \in TrendIds : Copy(r, t) = r.mine.trends[t]
    BY <1>1, <1>2, MatchedAlone
  <1>. QED  BY <1>1, <1>2, <1>3, <1>4, <1>5, Zenon DEF r

\* expire_stale in a transaction that has done nothing else.
LEMMA ExpiryFollows ==
  ASSUME ScoutTypeOK, NEW r \in Tx, r.loaded = Committed, r.mine = Committed,
         RowsOK(Committed), BuildsOnly(Committed, NoTrend)
  PROVE  /\ Expired(r) \in Tx /\ SameTask(Expired(r), r) /\ Expired(r).loaded = Committed
         /\ Follows(Committed, Expired(r).mine) /\ FreshlyRead(Committed, Expired(r).mine)
         /\ BuildsOnly(Expired(r).mine, NoTrend)
  <1>. DEFINE v == Expired(r)
              S == {t \in perished : r.mine.trends[t].status \in Unactioned}
  <1>1. v \in Tx /\ SameTask(v, r) /\ v.loaded = Committed
    BY ExpiredIs
  <1>2. ASSUME NEW t \in TrendIds
        PROVE  /\ v.mine.trends[t].status = IF t \in S THEN "expired" ELSE Committed.trends[t].status
               /\ v.mine.trends[t].key = Committed.trends[t].key
               /\ t \notin S => v.mine.trends[t] = Committed.trends[t]
               /\ t \in S => Committed.trends[t].status \in Unactioned
    BY ExpiredIs
  <1>3. ASSUME NEW p \in RequestIds
        PROVE  /\ v.mine.requests[p].trend = Committed.requests[p].trend
               /\ v.mine.requests[p].status =
                       IF Committed.requests[p].trend \in S
                          /\ Committed.requests[p].status = "pending_approval"
                       THEN "expired" ELSE Committed.requests[p].status
    BY ExpiredIs
  <1>. HIDE DEF v, S
  <1>4. ASSUME NEW p \in RequestIds
        PROVE  v.mine.requests[p].status \in LiveRequest
                 => Committed.requests[p].trend \in TrendIds
    BY <1>3 DEF RowsOK, Owned, LiveRequest, Absent
  <1>5. Aligned(v.mine)
    BY <1>2, <1>3, <1>4 DEF RowsOK, Aligned, Unactioned, LiveRequest
  <1>6. Follows(Committed, v.mine)
    <2>1. ASSUME NEW t \in TrendIds
          PROVE  /\ v.mine.trends[t].key = Committed.trends[t].key
                 /\ Committed.trends[t].status = Absent => v.mine.trends[t] = Committed.trends[t]
                 /\ Committed.trends[t].status # Absent => v.mine.trends[t].status # Absent
                 /\ Committed.trends[t].status \in DedupSkip
                      => v.mine.trends[t].status = Committed.trends[t].status
      BY <1>2 DEF Unactioned, Absent, DedupSkip
    <2>2. ASSUME NEW p \in RequestIds
          PROVE  /\ v.mine.requests[p].trend = Committed.requests[p].trend
                 /\ v.mine.requests[p].status = Absent <=> Committed.requests[p].status = Absent
                 /\ v.mine.requests[p].status \in LiveRequest
                      => Committed.requests[p].status \in LiveRequest
                 /\ v.mine.requests[p].status \in Reached
                 /\ Committed.requests[p].status \in PipelineTerminal
                      => v.mine.requests[p].status = Committed.requests[p].status
      BY <1>3 DEF RowsOK, Owned, Absent, LiveRequest, Reached, PipelineTerminal
    <2>. QED  BY <1>5, <2>1, <2>2 DEF Follows
  <1>7. FreshlyRead(Committed, v.mine)
    BY <1>2 DEF FreshlyRead
  <1>8. BuildsOnly(v.mine, NoTrend)
    BY <1>2 DEF BuildsOnly
  <1>. QED  BY <1>1, <1>6, <1>7, <1>8 DEF v

\* A trend inserted under the next id.
LEMMA InsertsTrend ==
  ASSUME NEW L \in Rows, NEW W \in Rows, NEW V \in Rows, MayCommit(L, W),
         NEW t \in TrendIds, NEW k \in Clusters, t = ids.trend + 1, TypeInv,
         Numbered(L, ids), Numbered(W, ids),
         \A u \in TrendIds : W.trends[u].key = k => W.trends[u].status \in DedupSkip,
         \A u \in TrendIds : u # t => V.trends[u] = W.trends[u],
         V.trends[t].status \in TrendStatus \ DedupSkip, V.trends[t].key = k,
         V.requests = W.requests
  PROVE  MayCommit(L, V) /\ \A i : i.trend >= t /\ i.trend \in Nat /\ i.request = ids.request
                                     => Numbered(V, i)
  <1>1. W.trends[t].status = Absent /\ L.trends[t].status = Absent
        /\ (\A u \in TrendIds : u > t => W.trends[u].status = Absent)
    <2>1. \A u \in TrendIds : u >= t => u > ids.trend
      BY IdsTyped DEF TrendIds
    <2>2. \A u \in TrendIds : u > t => u >= t
      BY DEF TrendIds
    <2>3. t >= t
      BY DEF TrendIds
    <2>. QED  BY <2>1, <2>2, <2>3 DEF Numbered
  <1>2. V.trends[t].status # Absent
    BY Statuses DEF Absent
  <1>3. \A p \in RequestIds : W.requests[p].status # Absent => W.requests[p].trend # t
    BY <1>1 DEF MayCommit, RowsOK, Owned
  <1>4. Keyed(V)
    BY <1>2 DEF MayCommit, RowsOK, Keyed
  <1>5. OnlyNewestOpen(V)
    <2>. SUFFICES ASSUME NEW a \in TrendIds, NEW b \in TrendIds, a < b, V.trends[b].status # Absent,
                         V.trends[a].key = V.trends[b].key
                  PROVE  V.trends[a].status \in DedupSkip
      BY DEF OnlyNewestOpen
    <2>1. CASE a = t
      BY <1>1, <2>1 DEF TrendIds
    <2>2. CASE b = t
      <3>1. a # t
        BY <2>2 DEF TrendIds
      <3>. QED  BY <2>2, <3>1
    <2>3. CASE a # t /\ b # t
      BY <2>3 DEF MayCommit, RowsOK, OnlyNewestOpen
    <2>. QED  BY <2>1, <2>2, <2>3
  <1>6. Owned(V)
    BY <1>2, <1>3 DEF MayCommit, RowsOK, Owned
  <1>7. OneLive(V)
    BY DEF MayCommit, RowsOK, OneLive
  <1>8. Aligned(V)
    <2>. SUFFICES ASSUME NEW p \in RequestIds, W.requests[p].status # Absent
                  PROVE  V.trends[W.requests[p].trend] = W.trends[W.requests[p].trend]
      BY DEF MayCommit, RowsOK, Aligned, Absent
    <2>. QED  BY <1>3 DEF MayCommit, RowsOK, Owned
  <1>9. KeepsFinal(L, V)
    <2>1. Absent \notin DedupSkip
      BY DEF Absent, DedupSkip
    <2>. QED  BY <1>1, <2>1 DEF MayCommit, KeepsFinal
  <1>10. HeldBack(L, V)
    BY DEF MayCommit, HeldBack
  <1>11. ASSUME NEW i, i.trend >= t, i.trend \in Nat, i.request = ids.request
         PROVE  Numbered(V, i)
    <2>1. \A u \in TrendIds : u > i.trend => u > t
      BY <1>11 DEF TrendIds
    <2>2. \A u \in TrendIds : u > t => u # t
      BY DEF TrendIds
    <2>. QED  BY <1>1, <1>11, <2>1, <2>2 DEF Numbered
  <1>. QED  BY <1>4, <1>5, <1>6, <1>7, <1>8, <1>9, <1>10, <1>11 DEF MayCommit, RowsOK

\* What upsert does to the copies of a transaction: nothing, or the insertion of a trend.
LEMMA UpsertRows ==
  ASSUME TypeInv, NEW r \in Tx, r.loaded = Committed, RowsOK(Committed),
         MayCommit(Committed, r.mine), Numbered(Committed, ids), Numbered(r.mine, ids),
         NEW k \in Clusters, Upserted(r, k) \in TrendIds
  PROVE  LET t == Upserted(r, k)
             w == WithTrend(r, t, UpsertedRow(r, k))
         IN  /\ w \in Tx /\ SameTask(w, r) /\ w.loaded = Committed /\ w.mine.requests = r.mine.requests
             /\ w.mine.trends[t] = UpsertedRow(r, k) /\ UpsertedRow(r, k) \in TrendRow
             /\ \A u \in TrendIds : u # t => w.mine.trends[u] = r.mine.trends[u]
             /\ MayCommit(Committed, w.mine)
             /\ \A i : i = [ids EXCEPT !.trend = IF t > @ THEN t ELSE @] => Numbered(w.mine, i)
             /\ UpsertedRow(r, k).status \in TrendOpen
             /\ (w.mine.trends[t] = r.mine.trends[t]
                   \/ /\ Committed.trends[t] = NoTrendRow
                      /\ w.mine.trends[t].status = "detected" /\ ~w.mine.trends[t].suppressed)
  <1>. DEFINE t == Upserted(r, k)
              row == UpsertedRow(r, k)
              w == WithTrend(r, t, row)
  <1>1. ScoutTypeOK /\ row \in TrendRow /\ Committed \in Rows /\ r.mine \in Rows
    BY UpsertTyped, CommittedTyped, TxFields DEF TypeInv
  <1>2. Matched(r) = r.mine /\ \A u \in TrendIds : Copy(r, u) = r.mine.trends[u]
    BY <1>1, MatchedAlone
  <1>3. w \in Tx /\ SameTask(w, r) /\ w.loaded = Committed /\ w.mine.requests = r.mine.requests
        /\ \A u \in TrendIds : w.mine.trends[u] = IF u = t THEN row ELSE r.mine.trends[u]
    BY <1>1, WithTrendFields
  <1>4. w.mine \in Rows
    BY <1>3, TxFields
  <1>5. CASE Refreshable(r, k) # NoTrend
    <2>1. t = Refreshable(r, k) /\ row = Copy(r, t) /\ row.status \in TrendOpen
      BY <1>1, <1>5, RefreshableIs DEF Upserted, UpsertedRow
    <2>2. row = r.mine.trends[t]
      BY <1>2, <2>1
    <2>. HIDE DEF t, row, w
    <2>3. \A u \in TrendIds : w.mine.trends[u] = r.mine.trends[u]
      BY <1>3, <2>2
    <2>4. w.mine = r.mine
      BY <1>1, <1>3, <1>4, <2>3 DEF Rows
    <2>5. t \in TrendIds
      BY DEF t
    <2>6. Numbered(r.mine, [ids EXCEPT !.trend = IF t > @ THEN t ELSE @])
      BY <2>5, NumberedGrows
    <2>7. w.mine.trends[t] = row
      BY <1>3, <2>5
    <2>8. \A u \in TrendIds : u # t => w.mine.trends[u] = r.mine.trends[u]
      BY <2>3
    <2>. QED  BY <1>1, <1>3, <2>1, <2>2, <2>4, <2>6, <2>7, <2>8, Zenon DEF t, row, w
  <1>6. CASE Refreshable(r, k) = NoTrend
    <2>1. t = ids.trend + 1 /\ row = [status |-> "detected", key |-> k, suppressed |-> FALSE]
      BY <1>6 DEF Upserted, UpsertedRow
    <2>2. ASSUME NEW u \in TrendIds, r.mine.trends[u].key = k
          PROVE  r.mine.trends[u].status \in DedupSkip
      <3>. DEFINE n == Newest(r, k)
      <3>1. n \in TrendIds /\ r.mine.trends[n].key = k /\ u <= n
        BY <1>1, <1>2, <2>2, NewestIs
      <3>2. r.mine.trends[n].status \notin TrendOpen
        <4>1. n # NoTrend
          BY <3>1 DEF TrendIds, NoTrend
        <4>. QED  BY <1>1, <1>2, <1>6, <3>1, <4>1, RefreshableIs
      <3>. HIDE DEF n
      <3>3. r.mine.trends[n].status # Absent
        BY <3>1, ScoutAssumption DEF MayCommit, RowsOK, Keyed, NoTrendRow
      <3>4. r.mine.trends[n].status \in DedupSkip
        BY <1>1, <3>1, <3>2, <3>3, RowsFields, Statuses DEF TrendOpen, DedupSkip
      <3>5. CASE u = n
        BY <3>4, <3>5
      <3>6. CASE u # n
        <4>1. u < n
          BY <3>1, <3>6 DEF TrendIds
        <4>. QED  BY <2>2, <3>1, <3>3, <4>1 DEF MayCommit, RowsOK, OnlyNewestOpen
      <3>. QED  BY <3>5, <3>6
    <2>3. t \in TrendIds
      OBVIOUS
    <2>. HIDE DEF t, row, w
    <2>4. w.mine.trends[t] = row /\ \A u \in TrendIds : u # t => w.mine.trends[u] = r.mine.trends[u]
      BY <1>3, <2>3
    <2>5. row.status = "detected" /\ row.key = k /\ ~row.suppressed
      BY <2>1
    <2>6. row.status \in TrendStatus \ DedupSkip /\ row.status \in TrendOpen
      BY <2>5, Statuses DEF DedupSkip, TrendOpen
    <2>7. MayCommit(Committed, w.mine)
          /\ \A i : i.trend >= t /\ i.trend \in Nat /\ i.request = ids.request => Numbered(w.mine, i)
      BY <1>1, <1>3, <1>4, <2>1, <2>2, <2>3, <2>4, <2>5, <2>6, InsertsTrend
    <2>8. LET i == [ids EXCEPT !.trend = IF t > @ THEN t ELSE @]
          IN  i.trend >= t /\ i.trend \in Nat /\ i.request = ids.request
      BY <2>1, <2>3, IdsTyped DEF TrendIds, Ids
    <2>9. Numbered(w.mine, [ids EXCEPT !.trend = IF t > @ THEN t ELSE @])
      BY <2>7, <2>8
    <2>10. Committed.trends[t] = NoTrendRow
      <3>1. t > ids.trend
        BY <2>1, IdsTyped
      <3>. QED  BY <2>3, <3>1 DEF Numbered, RowsOK, Keyed
    <2>. QED  BY <1>1, <1>3, <2>4, <2>5, <2>6, <2>7, <2>9, <2>10, Zenon DEF t, row, w
  <1>. QED  BY <1>5, <1>6

\* One request more is at most one open request more.
LEMMA OneMoreOpen ==
  ASSUME NEW R \in [RequestIds -> RequestRow], NEW Q \in [RequestIds -> RequestRow],
         NEW p \in RequestIds, \A q \in RequestIds : q # p => Q[q] = R[q]
  PROVE  OpenCount(R) \in Nat /\ OpenCount(Q) \in Nat /\ OpenCount(Q) <= OpenCount(R) + 1
  <1>. DEFINE S == {q \in RequestIds : R[q].status \in PipelineOpen}
              T == {q \in RequestIds : Q[q].status \in PipelineOpen}
  <1>1. IsFiniteSet(RequestIds)
    BY FS_Interval, ScoutAssumption DEF RequestIds
  <1>2. IsFiniteSet(S) /\ IsFiniteSet(T)
    BY <1>1, FS_Subset
  <1>3. T \subseteq S \cup {p}
    OBVIOUS
  <1>4. OpenCount(R) = Cardinality(S) /\ OpenCount(Q) = Cardinality(T)
    BY DEF OpenCount
  <1>. HIDE DEF S, T
  <1>5. IsFiniteSet(S \cup {p}) /\ Cardinality(S \cup {p}) <= Cardinality(S) + 1
    <2>1. IsFiniteSet(S \cup {p})
          /\ (Cardinality(S \cup {p}) = Cardinality(S) \/ Cardinality(S \cup {p}) = Cardinality(S) + 1)
      BY <1>2, FS_AddElement
    <2>2. Cardinality(S) \in Nat
      BY <1>2, FS_CardinalityType
    <2>. QED  BY <2>1, <2>2
  <1>6. Cardinality(T) <= Cardinality(S \cup {p})
    BY <1>3, <1>5, FS_Subset
  <1>7. Cardinality(S) \in Nat /\ Cardinality(T) \in Nat /\ Cardinality(S \cup {p}) \in Nat
    BY <1>2, <1>5, FS_CardinalityType
  <1>. QED  BY <1>4, <1>5, <1>6, <1>7

\* V is W with request p created for trend t, which is proposed.
Proposes(W, V, p, t) ==
  /\ p \in RequestIds /\ p = ids.request + 1 /\ t \in TrendIds
  /\ W.trends[t].status \in Unactioned
  /\ \A q \in RequestIds : W.requests[q].trend = t => W.requests[q].status \notin PipelineOpen
  /\ V.requests[p].status = "pending_approval" /\ V.requests[p].trend = t
  /\ \A q \in RequestIds : q # p => V.requests[q] = W.requests[q]
  /\ V.trends[t].status = "proposed" /\ V.trends[t].key = W.trends[t].key
  /\ \A u \in TrendIds : u # t => V.trends[u] = W.trends[u]

LEMMA ProposedRows ==
  ASSUME TypeInv, NEW L \in Rows, NEW W \in Rows, NEW V \in Rows, MayCommit(L, W),
         Numbered(L, ids), Numbered(W, ids), NEW p, NEW t, Proposes(W, V, p, t)
  PROVE  /\ RowsOK(V) /\ KeepsFinal(L, V) /\ Numbered(V, [ids EXCEPT !.request = @ + 1])
         /\ BuildsOnly(W, t) => BuildsOnly(V, NoTrend)
         /\ BuildsOnly(W, NoTrend) => BuildsOnly(V, NoTrend)
         /\ L.requests[p].status = Absent
  <1>. USE DEF Proposes
  <1>1. W.requests[p].status = Absent /\ L.requests[p].status = Absent
    <2>1. p > ids.request
      BY IdsTyped
    <2>. QED  BY <2>1 DEF Numbered
  <1>2. W.trends[t].status \notin DedupSkip \cup {Absent, "approved"}
    BY DEF Unactioned, DedupSkip, Absent
  <1>3. \A q \in RequestIds : W.requests[q].trend = t => W.requests[q].status \notin LiveRequest
    <2>. SUFFICES ASSUME NEW q \in RequestIds, W.requests[q].trend = t, W.requests[q].status \in LiveRequest
                  PROVE  FALSE
      OBVIOUS
    <2>1. W.requests[q].status = "failed"
      BY DEF LiveRequest, PipelineOpen
    <2>. QED  BY <1>2, <2>1 DEF MayCommit, RowsOK, Aligned, Unactioned
  <1>4. Keyed(V)
    BY <1>2 DEF MayCommit, RowsOK, Keyed, Absent
  <1>5. OnlyNewestOpen(V)
    BY <1>2 DEF MayCommit, RowsOK, OnlyNewestOpen
  <1>6. Owned(V)
    BY <1>2 DEF MayCommit, RowsOK, Owned, Reached, Absent
  <1>7. OneLive(V)
    BY <1>3 DEF MayCommit, RowsOK, OneLive
  <1>8. Aligned(V)
    <2>1. ASSUME NEW q \in RequestIds, q # p, W.requests[q].status \in LiveRequest
          PROVE  V.trends[W.requests[q].trend] = W.trends[W.requests[q].trend]
      <3>1. W.requests[q].trend \in TrendIds
        BY <2>1 DEF MayCommit, RowsOK, Owned, LiveRequest, Absent
      <3>. QED  BY <1>3, <2>1, <3>1
    <2>. QED  BY <2>1 DEF MayCommit, RowsOK, Aligned, LiveRequest
  <1>9. KeepsFinal(L, V)
    BY <1>1, <1>2 DEF MayCommit, KeepsFinal, PipelineTerminal, Absent
  <1>10. Numbered(V, [ids EXCEPT !.request = @ + 1])
    <2>1. Numbered(W, [ids EXCEPT !.request = @ + 1])
      BY NumberedGrows
    <2>. DEFINE i == [ids EXCEPT !.request = @ + 1]
    <2>2. i.request = p /\ p \in Nat
      BY IdsTyped DEF Ids
    <2>. HIDE DEF i
    <2>3. \A q \in RequestIds : q > i.request => q # p
      BY <2>2 DEF RequestIds
    <2>4. \A u \in TrendIds : u > i.trend => V.trends[u].status = Absent
      BY <1>2, <2>1 DEF Numbered, i
    <2>. QED  BY <2>1, <2>3, <2>4 DEF Numbered, i
  <1>11. \A b \in {t, NoTrend} : BuildsOnly(W, b) => BuildsOnly(V, NoTrend)
    BY DEF BuildsOnly
  <1>. QED  BY <1>1, <1>4, <1>5, <1>6, <1>7, <1>8, <1>9, <1>10, <1>11 DEF RowsOK

\* A scan between two clusters.
LEMMA ScanSession ==
  ASSUME NEW v, v.op = "scan", v.step = "clusters", MayCommit(v.loaded, v.mine),
         BuildsOnly(v.mine, NoTrend), FreshlyRead(v.loaded, v.mine)
  PROVE  SessionOK(v)
  BY DEF SessionOK, ScanKnows, EditorKnows

LEMMA ScanClusterAlone ==
  ASSUME TypeInv, DeskInv, NEW s \in Scans, NEW k \in Clusters, ScanCluster(s, k), ~overlapped
  PROVE  \E v \in Tx : /\ tx' = [tx EXCEPT ![s] = v] /\ v.op # "none" /\ v.loaded = Committed
                       /\ SessionOK(v) /\ Numbered(v.mine, ids')
  <1>. DEFINE r == tx[s]
              t == Upserted(r, k)
              row == UpsertedRow(r, k)
              w == WithTrend(r, t, row)
              done == [w EXCEPT !.todo = @ \ {k}, !.touched = @ \cup {t}]
              build == [row EXCEPT !.status = "dossier_building"]
              x == WithTrend(done, t, build)
              next == [x EXCEPT !.step = "dossier", !.trend = t]
  <1>1. s \in Busy
    BY NoTxTyped DEF ScanCluster, TypeInv, Kind, Busy, Processes
  <1>2. /\ ScoutTypeOK /\ r \in Tx /\ Kind(r) /\ r.op # "none" /\ r.loaded = Committed
        /\ SessionOK(r) /\ Numbered(r.mine, ids) /\ r.mine \in Rows /\ Committed \in Rows
        /\ RowsOK(Committed) /\ MayCommit(Committed, r.mine) /\ Matched(r) = r.mine
        /\ Numbered(Committed, ids) /\ (r.step # "dossier" => BuildsOnly(r.mine, NoTrend))
    BY <1>1, OneSession
  <1>3. r.op = "scan" /\ r.step = "clusters" /\ t \in TrendIds
    BY <1>2 DEF ScanCluster, Kind
  <1>4. ids' = [ids EXCEPT !.trend = IF t > @ THEN t ELSE @]
    BY DEF ScanCluster
  <1>5. FreshlyRead(Committed, r.mine) /\ BuildsOnly(r.mine, NoTrend)
    BY <1>2, <1>3 DEF SessionOK, ScanKnows
  <1>6. /\ w \in Tx /\ SameTask(w, r) /\ w.loaded = Committed /\ w.mine.requests = r.mine.requests
        /\ w.mine.trends[t] = row /\ row \in TrendRow
        /\ \A u \in TrendIds : u # t => w.mine.trends[u] = r.mine.trends[u]
        /\ MayCommit(Committed, w.mine)
        /\ row.status \in TrendOpen
        /\ (w.mine.trends[t] = r.mine.trends[t]
              \/ /\ Committed.trends[t] = NoTrendRow
                 /\ w.mine.trends[t].status = "detected" /\ ~w.mine.trends[t].suppressed)
    BY <1>2, <1>3, UpsertRows
  <1>7. Numbered(w.mine, ids')
    BY <1>2, <1>3, <1>4, UpsertRows
  <1>8. FreshlyRead(Committed, w.mine) /\ BuildsOnly(w.mine, NoTrend)
    <2>1. row.suppressed \in BOOLEAN /\ NoTrendRow.status = Absent /\ NoTrendRow.suppressed = FALSE
      BY <1>6 DEF TrendRow, NoTrendRow
    <2>. HIDE DEF t, row, w
    <2>. QED  BY <1>5, <1>6, <2>1 DEF FreshlyRead, BuildsOnly
  <1>. HIDE DEF w, row, t
  <1>9. done \in Tx /\ done.op = "scan" /\ done.step = "clusters" /\ done.loaded = Committed
        /\ done.mine = w.mine
    BY <1>3, <1>6 DEF Tx, SameTask
  <1>10. SessionOK(done)
    BY <1>6, <1>8, <1>9, ScanSession
  <1>11. CASE MoveTx(s, done)
    <2>. HIDE DEF done
    <2>. QED  BY <1>7, <1>9, <1>10, <1>11 DEF MoveTx
  <1>12. ASSUME Proposable(r, row), BelowCap(r), MoveTx(s, next)
         PROVE  next \in Tx /\ next.op # "none" /\ next.loaded = Committed
                /\ SessionOK(next) /\ Numbered(next.mine, ids')
    <2>1. build \in TrendRow /\ build.status = "dossier_building" /\ build.key = row.key
          /\ build.suppressed = row.suppressed
      BY <1>6, TrendStatusTyped, Statuses
    <2>. HIDE DEF done, build
    <2>2. x \in Tx /\ SameTask(x, done) /\ x.loaded = Committed /\ x.mine.requests = w.mine.requests
          /\ \A u \in TrendIds : x.mine.trends[u] = IF u = t THEN build ELSE w.mine.trends[u]
      BY <1>2, <1>3, <1>9, <2>1, WithTrendFields
    <2>. HIDE DEF x
    <2>3. next \in Tx /\ next.op = "scan" /\ next.step = "dossier" /\ next.trend = t
          /\ next.loaded = Committed /\ next.mine = x.mine
      BY <1>3, <1>9, <2>2 DEF Tx, SameTask
    <2>. HIDE DEF next
    <2>4. row.status = "detected" /\ ~row.suppressed
      BY <1>12 DEF Proposable
    <2>5. w.mine \in Rows /\ x.mine \in Rows
      BY <1>6, <2>2, TxFields
    <2>6. Aligned(x.mine)
      <3>1. ASSUME NEW p \in RequestIds, w.mine.requests[p].status \in LiveRequest
            PROVE  x.mine.trends[w.mine.requests[p].trend] = w.mine.trends[w.mine.requests[p].trend]
        <4>1. w.mine.requests[p].trend \in TrendIds
          BY <1>6, <3>1 DEF MayCommit, RowsOK, Owned, LiveRequest, Absent
        <4>2. w.mine.requests[p].trend # t
          BY <1>6, <2>4, <3>1 DEF MayCommit, RowsOK, Aligned, LiveRequest
        <4>. QED  BY <2>2, <4>1, <4>2
      <3>. QED  BY <1>6, <2>2, <3>1 DEF MayCommit, RowsOK, Aligned, LiveRequest
    <2>7. Follows(w.mine, x.mine)
      <3>1. \A u \in TrendIds :
              /\ x.mine.trends[u].key = w.mine.trends[u].key
              /\ w.mine.trends[u].status = Absent => x.mine.trends[u] = w.mine.trends[u]
              /\ w.mine.trends[u].status # Absent => x.mine.trends[u].status # Absent
              /\ w.mine.trends[u].status \in DedupSkip
                   => x.mine.trends[u].status = w.mine.trends[u].status
        BY <1>6, <2>1, <2>2, <2>4 DEF Absent, DedupSkip
      <3>. QED  BY <1>6, <2>2, <2>6, <3>1 DEF Follows, MayCommit, RowsOK, Owned
    <2>8. MayCommit(Committed, x.mine)
      BY <1>2, <1>6, <2>2, <2>5, <2>7, FollowsCommit
    <2>9. Numbered(x.mine, ids')
      BY <1>6, <1>7, <2>5, <2>7, FollowsRows DEF MayCommit
    <2>10. BuildsOnly(x.mine, t)
      BY <1>8, <2>2 DEF BuildsOnly, TrendIds, NoTrend
    <2>11. FreshlyRead(Committed, x.mine)
      BY <1>8, <2>1, <2>2 DEF FreshlyRead
    <2>12. x.mine.trends[t].status = "dossier_building"
      BY <1>3, <2>1, <2>2
    <2>13. Free(Committed.trends[t])
      <3>1. Committed.trends[t].status \in {Absent, "detected"}
            /\ Committed.trends[t].suppressed = row.suppressed
        BY <1>3, <1>6, <1>8, <2>4 DEF FreshlyRead
      <3>. QED  BY <2>4, <3>1 DEF Free
    <2>14. OpenCount(x.mine.requests) < MaxOpen
      BY <1>2, <1>6, <1>12, <2>2 DEF BelowCap
    <2>15. ScanKnows(next)
      BY <2>3, <2>11, <2>12, <2>13, <2>14 DEF ScanKnows
    <2>16. EditorKnows(next)
      BY <2>3 DEF EditorKnows
    <2>. QED  BY <2>3, <2>8, <2>9, <2>10, <2>15, <2>16 DEF SessionOK
  <1>13. MoveTx(s, done) \/ (Proposable(r, row) /\ BelowCap(r) /\ MoveTx(s, next))
    BY Zenon DEF ScanCluster, w, x, t, row, done, build, next
  <1>14. CASE Proposable(r, row) /\ BelowCap(r) /\ MoveTx(s, next)
    <2>. HIDE DEF next
    <2>. QED  BY <1>12, <1>14 DEF MoveTx
  <1>. QED  BY <1>11, <1>13, <1>14

\* A scan's own request, and its trend proposed.
LEMMA ProposeAlone ==
  ASSUME TypeInv, DeskInv, NEW s \in Scans, Propose(s), ~overlapped
  PROVE  \E v \in Tx : /\ tx' = [tx EXCEPT ![s] = v] /\ v.op # "none" /\ v.loaded = Committed
                       /\ SessionOK(v) /\ Numbered(v.mine, ids') /\ Numbered(Committed, ids')
  <1>. DEFINE r == tx[s]
              t == r.trend
              p == ids.request + 1
              c == Create(r, t, "scout")
              row == [r.mine.trends[t] EXCEPT !.status = "proposed"]
              on(a) == [WithTrend(a, t, row) EXCEPT !.step = "clusters", !.trend = NoTrend]
              next == [on(c) EXCEPT !.left = @ - 1]
  <1>1. s \in Busy
    BY NoTxTyped DEF Propose, TypeInv, Busy, Processes
  <1>2. /\ ScoutTypeOK /\ r \in Tx /\ Kind(r) /\ r.op # "none" /\ r.loaded = Committed
        /\ SessionOK(r) /\ Numbered(r.mine, ids) /\ r.mine \in Rows /\ Committed \in Rows
        /\ RowsOK(Committed) /\ MayCommit(Committed, r.mine) /\ Matched(r) = r.mine
        /\ Numbered(Committed, ids)
    BY <1>1, OneSession
  <1>3. r.op = "scan" /\ r.step = "dossier" /\ t \in TrendIds /\ r.left # 0
    BY <1>2 DEF Propose, Kind
  <1>4. BuildsOnly(r.mine, t) /\ FreshlyRead(Committed, r.mine)
        /\ r.mine.trends[t].status = "dossier_building" /\ OpenCount(r.mine.requests) < MaxOpen
        /\ Free(Committed.trends[t])
    BY <1>2, <1>3 DEF SessionOK, ScanKnows
  <1>5. row \in TrendRow /\ row.status = "proposed" /\ row.key = r.mine.trends[t].key
    <2>. DEFINE old == r.mine.trends[t]
    <2>1. old \in TrendRow /\ "proposed" \in TrendStatus
      BY <1>2, <1>3, TxFields, Statuses
    <2>. HIDE DEF old
    <2>2. row = [old EXCEPT !.status = "proposed"]
      BY DEF old
    <2>. QED  BY <2>1, <2>2 DEF TrendRow, old
  <1>6. c \in Tx /\ SameTask(c, r) /\ c.mine.trends = r.mine.trends /\ c.loaded = Committed
        /\ (p \in RequestIds => /\ c.mine.requests[p].status = "pending_approval"
                                /\ c.mine.requests[p].trend = t)
        /\ \A q \in RequestIds : q # p => c.mine.requests[q] = r.mine.requests[q]
    <2>1. "scout" \in {"scout", "editor"}
      OBVIOUS
    <2>. QED  BY <1>2, <1>3, <2>1, CreateFields
  <1>. HIDE DEF c, row, t
  <1>7. ASSUME NEW a \in {c, r}
        PROVE  /\ on(a) \in Tx /\ on(a).op = "scan" /\ on(a).step = "clusters"
               /\ on(a).left = r.left /\ on(a).loaded = Committed
               /\ on(a).mine.requests = a.mine.requests
               /\ \A u \in TrendIds : on(a).mine.trends[u] = IF u = t THEN row ELSE r.mine.trends[u]
    <2>. DEFINE x == WithTrend(a, t, row)
    <2>1. a \in Tx /\ SameTask(a, r) /\ a.loaded = Committed /\ a.mine.trends = r.mine.trends
      BY <1>2, <1>6 DEF SameTask
    <2>2. x \in Tx /\ SameTask(x, a) /\ x.loaded = Committed /\ x.mine.requests = a.mine.requests
          /\ \A u \in TrendIds : x.mine.trends[u] = IF u = t THEN row ELSE a.mine.trends[u]
      BY <1>2, <1>5, <2>1, WithTrendFields
    <2>. HIDE DEF x
    <2>3. on(a) = [x EXCEPT !.step = "clusters", !.trend = NoTrend]
      BY DEF x
    <2>. HIDE DEF on
    <2>4. x \in Tx /\ x.op = "scan" /\ x.left = r.left
      BY <1>3, <2>1, <2>2 DEF SameTask
    <2>5. on(a) \in Tx /\ on(a).op = "scan" /\ on(a).step = "clusters" /\ on(a).left = r.left
          /\ on(a).mine = x.mine /\ on(a).loaded = x.loaded
      BY <2>3, <2>4 DEF Tx
    <2>. QED  BY <2>1, <2>2, <2>5
  <1>8. CASE CanCreate(r, t) /\ MoveTx(s, next) /\ ids' = [ids EXCEPT !.request = @ + 1]
    <2>1. p \in RequestIds
      BY <1>8 DEF CanCreate
    <2>2. \A q \in RequestIds : r.mine.requests[q].trend = t => r.mine.requests[q].status \notin PipelineOpen
      BY <1>2, <1>8 DEF CanCreate, OpenOf
    <2>3. on(c) \in Tx /\ on(c).op = "scan" /\ on(c).step = "clusters" /\ on(c).loaded = Committed
          /\ on(c).left = r.left /\ on(c).mine.requests = c.mine.requests
          /\ \A u \in TrendIds : on(c).mine.trends[u] = IF u = t THEN row ELSE r.mine.trends[u]
      BY <1>7
    <2>4. r.left - 1 \in 0 .. MaxProposals
      BY <1>2, <1>3, TxFields, ScoutAssumption
    <2>. DEFINE o == on(c)
    <2>5. next = [o EXCEPT !.left = o.left - 1]
      OBVIOUS
    <2>. HIDE DEF o, next, on
    <2>6. next \in Tx /\ next.op = "scan" /\ next.step = "clusters" /\ next.loaded = Committed
          /\ next.mine = o.mine
      BY <2>3, <2>4, <2>5 DEF Tx, o
    <2>7. next.mine \in Rows /\ next.mine.requests = c.mine.requests
          /\ \A u \in TrendIds : next.mine.trends[u] = IF u = t THEN row ELSE r.mine.trends[u]
      BY <2>3, <2>6, TxFields DEF o
    <2>. DEFINE V == next.mine
    <2>8. V.requests[p].status = "pending_approval" /\ V.requests[p].trend = t
          /\ (\A q \in RequestIds : q # p => V.requests[q] = r.mine.requests[q])
      BY <1>6, <2>1, <2>7
    <2>9. V.trends[t].status = "proposed" /\ V.trends[t].key = r.mine.trends[t].key
          /\ \A u \in TrendIds : u # t => V.trends[u] = r.mine.trends[u]
      BY <1>3, <1>5, <2>7 DEF t
    <2>10. V \in Rows
      BY <2>7
    <2>. HIDE DEF V, p
    <2>11. RowsOK(V) /\ KeepsFinal(Committed, V) /\ Numbered(V, [ids EXCEPT !.request = @ + 1])
           /\ BuildsOnly(V, NoTrend) /\ Committed.requests[p].status = Absent
      <3>1. t \in TrendIds /\ r.mine.trends[t].status \in Unactioned
        BY <1>3, <1>4 DEF t, Unactioned
      <3>2. p = ids.request + 1
        BY DEF p
      <3>3. /\ RowsOK(V) /\ KeepsFinal(Committed, V) /\ Numbered(V, [ids EXCEPT !.request = @ + 1])
            /\ (BuildsOnly(r.mine, t) => BuildsOnly(V, NoTrend))
            /\ Committed.requests[p].status = Absent
        <4>1. /\ Committed \in Rows /\ r.mine \in Rows /\ MayCommit(Committed, r.mine)
              /\ Numbered(Committed, ids) /\ Numbered(r.mine, ids)
          BY <1>2
        <4>2. Proposes(r.mine, V, p, t)
          BY <2>1, <2>2, <2>8, <2>9, <3>1, <3>2 DEF Proposes
        <4>. HIDE DEF r
        <4>. QED  BY <2>10, <4>1, <4>2, ProposedRows
      <3>. QED  BY <1>4, <3>3
    <2>12. OpenCount(V.requests) <= MaxOpen
      <3>1. OpenCount(r.mine.requests) \in Nat /\ OpenCount(V.requests) \in Nat
            /\ OpenCount(V.requests) <= OpenCount(r.mine.requests) + 1
        BY <1>2, <2>1, <2>8, <2>10, RowsFields, OneMoreOpen
      <3>. QED  BY <1>4, <3>1, ScoutAssumption
    <2>13. HeldBack(Committed, V)
      BY <1>2, <1>4, <2>8, <2>12 DEF MayCommit, HeldBack
    <2>14. FreshlyRead(Committed, V)
      BY <1>4, <2>9 DEF FreshlyRead
    <2>15. SessionOK(next)
      BY <2>6, <2>11, <2>13, <2>14, ScanSession DEF MayCommit, V
    <2>16. tx' = [tx EXCEPT ![s] = next] /\ Numbered(Committed, ids') /\ Numbered(next.mine, ids')
      BY <1>2, <1>8, <2>11, NumberedGrows DEF MoveTx, V
    <2>. QED  BY <2>6, <2>15, <2>16
  <1>9. CASE MoveTx(s, on(r)) /\ UNCHANGED ids
    <2>. DEFINE v == on(r)
    <2>1. v \in Tx /\ v.op = "scan" /\ v.step = "clusters" /\ v.loaded = Committed
          /\ v.mine.requests = r.mine.requests
          /\ \A u \in TrendIds : v.mine.trends[u] = IF u = t THEN row ELSE r.mine.trends[u]
      BY <1>7
    <2>2. tx' = [tx EXCEPT ![s] = v]
      BY <1>9 DEF MoveTx
    <2>. HIDE DEF v, on
    <2>3. v.mine \in Rows /\ t \in TrendIds /\ r.mine.trends[t].status = "dossier_building"
      BY <1>3, <1>4, <2>1, TxFields DEF t
    <2>4. Follows(r.mine, v.mine)
      <3>1. \A u \in TrendIds :
              /\ v.mine.trends[u].key = r.mine.trends[u].key
              /\ r.mine.trends[u].status = Absent => v.mine.trends[u] = r.mine.trends[u]
              /\ r.mine.trends[u].status # Absent => v.mine.trends[u].status # Absent
              /\ r.mine.trends[u].status \in DedupSkip
                   => v.mine.trends[u].status = r.mine.trends[u].status
        BY <1>5, <2>1, <2>3 DEF Absent, DedupSkip, t
      <3>2. Aligned(v.mine)
        <4>1. \A p1 \in RequestIds : r.mine.requests[p1].status \in LiveRequest
                                      => r.mine.requests[p1].trend \in TrendIds
          BY <1>2 DEF MayCommit, RowsOK, Owned, LiveRequest, Absent
        <4>. QED  BY <1>2, <1>5, <2>1, <2>3, <4>1 DEF MayCommit, RowsOK, Aligned, LiveRequest
      <3>. QED  BY <1>2, <2>1, <3>1, <3>2 DEF Follows, MayCommit, RowsOK, Owned
    <2>5. MayCommit(Committed, v.mine) /\ Numbered(v.mine, ids)
      BY <1>2, <2>1, <2>3, <2>4, FollowsCommit, FollowsRows DEF MayCommit
    <2>6. BuildsOnly(v.mine, NoTrend)
      BY <1>4, <1>5, <2>1 DEF BuildsOnly
    <2>7. FreshlyRead(Committed, v.mine)
      BY <1>4, <1>5, <2>1 DEF FreshlyRead
    <2>8. SessionOK(v)
      BY <2>1, <2>5, <2>6, <2>7, ScanSession
    <2>. QED  BY <1>2, <1>9, <2>1, <2>2, <2>5, <2>8
  <1>. QED  BY <1>8, <1>9, Zenon DEF Propose, c, row, t

LEMMA ScanStepAlone ==
  ASSUME TypeInv, DeskInv, NEW s \in Scans, ScanStep(s)
  PROVE  DeskInv' /\ StepOK
  <1>. DEFINE r == tx[s]
  <1>. s \in Processes /\ ScoutTypeOK /\ r \in Tx /\ Kind(r)
    BY DEF Processes, TypeInv, ScoutTypeOK
  <1>0. r.op # "none" => s \in Busy
    BY DEF Busy
  <1>a. r.step \in {"sweep", "clusters", "dossier"} => r.op # "none"
    BY NoTxTyped DEF Kind, NoTx
  <1>1. CASE StartScan(s)
    <2>. DEFINE o == Opened("scan", "sweep")
    <2>1. PICK hot \in SUBSET Clusters :
            BeginTx(s, [o EXCEPT !.todo = hot, !.left = MaxProposals])
      BY <1>1 DEF StartScan
    <2>. DEFINE v == [o EXCEPT !.todo = hot, !.left = MaxProposals]
    <2>2. "scan" \in ScoutOps /\ MaxProposals \in 0 .. MaxProposals
      BY ScoutAssumption DEF ScoutOps
    <2>3. o \in Tx /\ o.op = "scan" /\ o.step = "sweep" /\ o.mine = Committed /\ o.loaded = Committed
      BY <2>2, OpenedFields
    <2>. HIDE DEF o
    <2>4. v \in Tx /\ v.op = "scan" /\ v.step = "sweep" /\ v.mine = Committed /\ v.loaded = Committed
      BY <2>2, <2>3 DEF Tx
    <2>. HIDE DEF v
    <2>5. ASSUME ~overlapped PROVE SessionOK(v)
      <3>1. RowsOK(Committed) /\ BuildsOnly(Committed, NoTrend)
        BY <2>5 DEF DeskInv
      <3>2. MayCommit(Committed, Committed) /\ FreshlyRead(Committed, Committed)
        BY <3>1, CommittedTyped, NothingNew
      <3>. QED  BY <2>4, <3>1, <3>2 DEF SessionOK, ScanKnows, EditorKnows
    <2>. QED  BY <2>1, <2>4, <2>5, AloneBegins DEF v
  <1>2. CASE SweepScan(s)
    <2>. DEFINE x == Expired(r)
                v == [x EXCEPT !.step = "clusters"]
    <2>1. s \in Busy /\ r.op = "scan" /\ r.step = "sweep"
      BY <1>2, <1>0, <1>a DEF SweepScan, Kind
    <2>2. x \in Tx /\ SameTask(x, r)
      BY ExpiredFields
    <2>. HIDE DEF x
    <2>3. v \in Tx /\ v.op = "scan" /\ v.step = "clusters" /\ v.mine = x.mine /\ v.loaded = x.loaded
      BY <2>1, <2>2 DEF Tx, SameTask
    <2>4. tx' = [tx EXCEPT ![s] = v] /\ UNCHANGED <<trends, requests, overlapped, ids>>
      BY <1>2 DEF SweepScan, MoveTx, v, x
    <2>. HIDE DEF v
    <2>5. CASE ~overlapped
      <3>1. r.loaded = Committed /\ r.mine = Committed /\ RowsOK(Committed) /\ Committed \in Rows
            /\ BuildsOnly(Committed, NoTrend) /\ Numbered(Committed, ids)
        BY <2>1, <2>5, OneSession DEF SessionOK
      <3>2. x.loaded = Committed /\ Follows(Committed, x.mine) /\ FreshlyRead(Committed, x.mine)
            /\ BuildsOnly(x.mine, NoTrend)
        BY <3>1, ExpiryFollows DEF x
      <3>3. MayCommit(Committed, x.mine) /\ Numbered(x.mine, ids)
        BY <2>2, <3>1, <3>2, TxFields, NothingNew, FollowsCommit, FollowsRows
      <3>4. SessionOK(v)
        BY <2>3, <3>2, <3>3, ScanSession
      <3>. QED  BY <2>1, <2>3, <2>4, <3>1, <3>2, <3>3, <3>4, AloneMoves
    <2>6. CASE overlapped
      BY <2>4, <2>6, CommittedSteady DEF DeskInv
    <2>. QED  BY <2>5, <2>6
  <1>3. ASSUME NEW k \in Clusters, SkipCluster(s, k) PROVE DeskInv' /\ StepOK
    <2>. DEFINE v == [r EXCEPT !.todo = @ \ {k}]
    <2>1. s \in Busy /\ r.op = "scan" /\ r.step = "clusters"
      BY <1>3, <1>0, <1>a DEF SkipCluster, Kind
    <2>2. v \in Tx /\ v.op = "scan" /\ v.step = "clusters" /\ v.mine = r.mine /\ v.loaded = r.loaded
      BY <2>1 DEF Tx
    <2>3. tx' = [tx EXCEPT ![s] = v] /\ UNCHANGED <<trends, requests, overlapped, ids>>
      BY <1>3 DEF SkipCluster
    <2>. HIDE DEF v
    <2>4. CASE ~overlapped
      <3>1. r.loaded = Committed /\ MayCommit(Committed, r.mine) /\ Numbered(Committed, ids)
            /\ BuildsOnly(r.mine, NoTrend) /\ Numbered(r.mine, ids) /\ SessionOK(r)
        BY <2>1, <2>4, OneSession
      <3>2. FreshlyRead(Committed, r.mine)
        BY <2>1, <3>1 DEF SessionOK, ScanKnows
      <3>3. SessionOK(v)
        BY <2>2, <3>1, <3>2, ScanSession
      <3>. QED  BY <2>1, <2>2, <2>3, <3>1, <3>3, AloneMoves
    <2>5. CASE overlapped
      BY <2>3, <2>5, CommittedSteady DEF DeskInv
    <2>. QED  BY <2>4, <2>5
  <1>4. ASSUME NEW k \in Clusters, ScanCluster(s, k) PROVE DeskInv' /\ StepOK
    <2>1. UNCHANGED <<trends, requests, overlapped>> /\ s \in Busy
      BY <1>4, <1>0, <1>a DEF ScanCluster
    <2>2. CASE ~overlapped
      <3>1. PICK v \in Tx : /\ tx' = [tx EXCEPT ![s] = v] /\ v.op # "none" /\ v.loaded = Committed
                            /\ SessionOK(v) /\ Numbered(v.mine, ids')
        BY <1>4, <2>2, ScanClusterAlone
      <3>2. Numbered(Committed, ids')
        <4>1. Numbered(Committed, ids) /\ Upserted(r, k) \in TrendIds
          BY <1>4, <2>2 DEF DeskInv, ScanCluster
        <4>2. ids' = [ids EXCEPT !.trend = IF Upserted(r, k) > @ THEN Upserted(r, k) ELSE @]
          BY <1>4 DEF ScanCluster
        <4>. QED  BY <4>1, <4>2, NumberedGrows
      <3>. QED  BY <2>1, <3>1, <3>2, AloneMoves
    <2>3. CASE overlapped
      BY <2>1, <2>3, CommittedSteady DEF DeskInv
    <2>. QED  BY <2>2, <2>3
  <1>5. CASE Propose(s)
    <2>1. UNCHANGED <<trends, requests, overlapped>> /\ s \in Busy
      BY <1>5, <1>0, <1>a DEF Propose
    <2>2. CASE ~overlapped
      <3>1. PICK v \in Tx : /\ tx' = [tx EXCEPT ![s] = v] /\ v.op # "none" /\ v.loaded = Committed
                            /\ SessionOK(v) /\ Numbered(v.mine, ids') /\ Numbered(Committed, ids')
        BY <1>5, <2>2, ProposeAlone
      <3>. QED  BY <2>1, <3>1, AloneMoves
    <2>3. CASE overlapped
      BY <2>1, <2>3, CommittedSteady DEF DeskInv
    <2>. QED  BY <2>2, <2>3
  <1>6. CASE FinishScan(s)
    <2>1. PICK fading \in SUBSET TrendIds : CommitAs(s, Monitor(r, fading))
      BY <1>6 DEF FinishScan
    <2>2. s \in Busy /\ r.step = "clusters"
      BY <1>6, <1>0, <1>a DEF FinishScan
    <2>. DEFINE v == Monitor(r, fading)
    <2>3. v \in Tx
      BY MonitorFields
    <2>4. ASSUME ~overlapped
          PROVE  v.loaded = Committed /\ MayCommit(Committed, v.mine)
                 /\ BuildsOnly(v.mine, NoTrend) /\ Numbered(v.mine, ids)
      <3>1. /\ r.loaded = Committed /\ MayCommit(Committed, r.mine) /\ Numbered(r.mine, ids)
            /\ BuildsOnly(r.mine, NoTrend) /\ r.mine \in Rows /\ Committed \in Rows
        BY <2>2, <2>4, OneSession
      <3>2. /\ v.loaded = Committed /\ v.mine.requests = r.mine.requests
            /\ \A t \in TrendIds :
                 /\ v.mine.trends[t].status = r.mine.trends[t].status
                 /\ v.mine.trends[t].key = r.mine.trends[t].key
                 /\ r.mine.trends[t].status = Absent => v.mine.trends[t] = r.mine.trends[t]
        BY <3>1, MonitorIs
      <3>. HIDE DEF v
      <3>3. Aligned(v.mine)
        <4>1. \A p \in RequestIds : r.mine.requests[p].status \in LiveRequest
                                      => r.mine.requests[p].trend \in TrendIds
          BY <3>1 DEF MayCommit, RowsOK, Owned, LiveRequest, Absent
        <4>2. \A p \in RequestIds : r.mine.requests[p].status \in LiveRequest
                => v.mine.trends[r.mine.requests[p].trend].status
                     = r.mine.trends[r.mine.requests[p].trend].status
          BY <3>2, <4>1
        <4>. QED  BY <3>1, <3>2, <4>2 DEF MayCommit, RowsOK, Aligned, LiveRequest
      <3>4. Follows(r.mine, v.mine)
        BY <3>1, <3>2, <3>3 DEF Follows, MayCommit, RowsOK, Owned
      <3>5. MayCommit(Committed, v.mine) /\ Numbered(v.mine, ids)
        BY <2>3, <3>1, <3>2, <3>4, TxFields, FollowsCommit, FollowsRows DEF MayCommit
      <3>6. BuildsOnly(v.mine, NoTrend)
        BY <3>1, <3>2 DEF BuildsOnly
      <3>. QED  BY <3>2, <3>5, <3>6
    <2>5. StoreAs(s, v) /\ ids' = ids /\ overlapped' = overlapped
      BY <2>1 DEF CommitAs
    <2>. HIDE DEF v
    <2>. QED  BY <2>2, <2>3, <2>4, <2>5, AloneStores
  <1>7. CASE Abandon(s)
    <2>1. s \in Busy /\ r.step # "dossier" /\ StoreAs(s, r) /\ ids' = ids /\ overlapped' = overlapped
      BY <1>7, <1>0 DEF Abandon, CommitAs
    <2>2. ASSUME ~overlapped
          PROVE  r.loaded = Committed /\ MayCommit(Committed, r.mine)
                 /\ BuildsOnly(r.mine, NoTrend) /\ Numbered(r.mine, ids)
      BY <2>1, <2>2, OneSession
    <2>. QED  BY <2>1, <2>2, AloneStores
  <1>8. CASE StartExpiry(s)
    <2>. DEFINE v == Opened("expire", "open")
    <2>1. "expire" \in ScoutOps
      BY DEF ScoutOps
    <2>2. v \in Tx /\ v.op = "expire" /\ v.step = "open" /\ v.mine = Committed /\ v.loaded = Committed
      BY <2>1, OpenedFields
    <2>3. BeginTx(s, v)
      BY <1>8 DEF StartExpiry
    <2>. HIDE DEF v
    <2>4. ASSUME ~overlapped PROVE SessionOK(v)
      <3>1. RowsOK(Committed) /\ BuildsOnly(Committed, NoTrend)
        BY <2>4 DEF DeskInv
      <3>2. MayCommit(Committed, Committed)
        BY <3>1, CommittedTyped, NothingNew
      <3>. QED  BY <2>2, <3>1, <3>2 DEF SessionOK, ScanKnows, EditorKnows
    <2>. QED  BY <2>2, <2>3, <2>4, AloneBegins
  <1>9. CASE FinishExpiry(s)
    <2>. DEFINE v == Expired(r)
    <2>1. s \in Busy /\ r.op = "expire" /\ StoreAs(s, v) /\ ids' = ids /\ overlapped' = overlapped
      BY <1>9, <1>0 DEF FinishExpiry, CommitAs
    <2>2. v \in Tx
      BY ExpiredFields
    <2>3. ASSUME ~overlapped
          PROVE  v.loaded = Committed /\ MayCommit(Committed, v.mine)
                 /\ BuildsOnly(v.mine, NoTrend) /\ Numbered(v.mine, ids)
      <3>1. r.step = "open"
        BY <2>1 DEF Kind
      <3>2. r.loaded = Committed /\ r.mine = Committed /\ RowsOK(Committed) /\ Committed \in Rows
            /\ BuildsOnly(Committed, NoTrend) /\ Numbered(Committed, ids)
        BY <2>1, <2>3, <3>1, OneSession DEF SessionOK
      <3>3. v.loaded = Committed /\ Follows(Committed, v.mine) /\ BuildsOnly(v.mine, NoTrend)
        BY <3>2, ExpiryFollows
      <3>. QED  BY <2>2, <3>2, <3>3, TxFields, NothingNew, FollowsCommit, FollowsRows
    <2>. HIDE DEF v
    <2>. QED  BY <2>1, <2>2, <2>3, AloneStores
  <1>. QED  BY <1>1, <1>2, <1>3, <1>4, <1>5, <1>6, <1>7, <1>8, <1>9 DEF ScanStep

LEMMA EditorBegins ==
  ASSUME TypeInv, DeskInv, NEW e \in Processes, NEW v, BeginTx(e, v),
         v \in Tx, v.op \notin {"none", "scan"}, v.step = "open",
         v.mine = Committed, v.loaded = Committed, ~overlapped => EditorKnows(v)
  PROVE  DeskInv' /\ StepOK
  <1>1. ASSUME ~overlapped PROVE SessionOK(v)
    <2>1. RowsOK(Committed) /\ BuildsOnly(Committed, NoTrend)
      BY <1>1 DEF DeskInv
    <2>2. MayCommit(Committed, Committed)
      BY <2>1, CommittedTyped, NothingNew DEF TypeInv
    <2>. QED  BY <1>1, <2>1, <2>2 DEF SessionOK, ScanKnows
  <1>. QED  BY <1>1, AloneBegins

\* A commit that moves on rows of the database.
LEMMA EditorCommits ==
  ASSUME TypeInv, DeskInv, NEW e \in Busy, NEW v \in Tx, CommitAs(e, v),
         ~overlapped => /\ v.loaded = Committed /\ Follows(Committed, v.mine)
                        /\ BuildsOnly(v.mine, NoTrend)
  PROVE  DeskInv' /\ StepOK
  <1>1. StoreAs(e, v) /\ ids' = ids /\ overlapped' = overlapped
    BY DEF CommitAs
  <1>2. ASSUME ~overlapped PROVE MayCommit(Committed, v.mine) /\ Numbered(v.mine, ids)
    <2>1. Committed \in Rows /\ v.mine \in Rows
      BY CommittedTyped, TxFields DEF TypeInv
    <2>2. RowsOK(Committed) /\ Numbered(Committed, ids)
      BY <1>2 DEF DeskInv
    <2>. QED  BY <1>2, <2>1, <2>2, NothingNew, FollowsCommit, FollowsRows
  <1>. QED  BY <1>1, <1>2, AloneStores

\* What an editor's request loaded is what is there.
LEMMA EditorSession ==
  ASSUME TypeInv, DeskInv, ~overlapped, NEW e \in Busy, tx[e].step = "open"
  PROVE  LET r == tx[e]
         IN  /\ r.loaded = Committed /\ r.mine = Committed /\ Committed \in Rows
             /\ RowsOK(Committed) /\ BuildsOnly(Committed, NoTrend) /\ Numbered(Committed, ids)
             /\ EditorKnows(r)
  BY OneSession DEF SessionOK

\* Only row t of the trends, only row p of the requests moves on.
LEMMA FollowsOne ==
  ASSUME NEW W \in Rows, NEW V \in Rows, RowsOK(W), NEW t, NEW p,
         \A u \in TrendIds : u # t => V.trends[u] = W.trends[u],
         \A q \in RequestIds : q # p => V.requests[q] = W.requests[q],
         t \in TrendIds =>
           /\ V.trends[t].key = W.trends[t].key
           /\ V.trends[t].status # W.trends[t].status =>
                /\ W.trends[t].status \notin DedupSkip \cup {Absent}
                /\ V.trends[t].status # Absent
           /\ V.trends[t].suppressed = W.trends[t].suppressed,
         p \in RequestIds =>
           /\ V.requests[p].trend = W.requests[p].trend
           /\ V.requests[p].status # W.requests[p].status =>
                /\ W.requests[p].status \notin PipelineTerminal \cup {Absent}
                /\ V.requests[p].status \in Reached \ {Absent}
                /\ V.requests[p].status \in LiveRequest => W.requests[p].status \in LiveRequest,
         Aligned(V)
  PROVE  Follows(W, V)
  <1>1. ASSUME NEW u \in TrendIds
        PROVE  /\ V.trends[u].key = W.trends[u].key
               /\ W.trends[u].status = Absent => V.trends[u] = W.trends[u]
               /\ W.trends[u].status # Absent => V.trends[u].status # Absent
               /\ W.trends[u].status \in DedupSkip => V.trends[u].status = W.trends[u].status
    <2>1. CASE u = t /\ V.trends[t].status = W.trends[t].status
      <3>1. V.trends[t] = W.trends[t]
        BY <2>1 DEF Rows, TrendRow
      <3>. QED  BY <2>1, <3>1
    <2>. QED  BY <2>1
  <1>2. ASSUME NEW q \in RequestIds
        PROVE  /\ V.requests[q].trend = W.requests[q].trend
               /\ V.requests[q].status = Absent <=> W.requests[q].status = Absent
               /\ V.requests[q].status \in LiveRequest => W.requests[q].status \in LiveRequest
               /\ V.requests[q].status \in Reached
               /\ W.requests[q].status \in PipelineTerminal
                    => V.requests[q].status = W.requests[q].status
    BY DEF RowsOK, Owned
  <1>. QED  BY <1>1, <1>2 DEF Follows

\* Only request p and its trend move.
LEMMA OthersAligned ==
  ASSUME NEW W, NEW V, NEW p \in RequestIds, RowsOK(W),
         \A q \in RequestIds : q # p => V.requests[q] = W.requests[q],
         \A q \in RequestIds : q # p /\ W.requests[q].status \in LiveRequest
           => V.trends[W.requests[q].trend] = W.trends[W.requests[q].trend],
         V.requests[p].status = "pending_approval" =>
           V.trends[V.requests[p].trend].status \in {"dossier_building", "proposed", "dismissed"},
         V.requests[p].status \in {"generating", "failed"} =>
           V.trends[V.requests[p].trend].status \in {"approved", "dismissed"}
  PROVE  Aligned(V)
  <1>1. ASSUME NEW q \in RequestIds, q # p, W.requests[q].status \in LiveRequest
        PROVE  V.trends[V.requests[q].trend] = W.trends[W.requests[q].trend]
               /\ V.requests[q].status = W.requests[q].status
    BY <1>1
  <1>2. ASSUME NEW q \in RequestIds, q # p
        PROVE  /\ V.requests[q].status = "pending_approval" =>
                    V.trends[V.requests[q].trend].status \in {"dossier_building", "proposed", "dismissed"}
               /\ V.requests[q].status \in {"generating", "failed"} =>
                    V.trends[V.requests[q].trend].status \in {"approved", "dismissed"}
    <2>1. V.requests[q].status = W.requests[q].status
      BY <1>2
    <2>2. CASE W.requests[q].status \in LiveRequest
      BY <1>1, <1>2, <2>1, <2>2 DEF RowsOK, Aligned
    <2>3. CASE W.requests[q].status \notin LiveRequest
      BY <2>1, <2>3 DEF LiveRequest
    <2>. QED  BY <2>2, <2>3
  <1>. QED  BY <1>2 DEF Aligned

\* The request of a proposed trend is approved: the trend follows.
LEMMA StartedIs ==
  ASSUME ScoutTypeOK, NEW r \in Tx, NEW p \in RequestIds, NEW t \in TrendIds, RowsOK(r.mine),
         r.mine.requests[p].status = "pending_approval", r.mine.requests[p].trend = t,
         r.mine.trends[t].status = "proposed"
  PROVE  LET v == Started(r, p, t)
         IN  /\ v \in Tx /\ SameTask(v, r) /\ Follows(r.mine, v.mine)
             /\ r.loaded = Committed => v.loaded = Committed
             /\ BuildsOnly(r.mine, NoTrend) => BuildsOnly(v.mine, NoTrend)
             /\ \A q \in RequestIds : v.mine.requests[q].by = r.mine.requests[q].by
  <1>. DEFINE a == SetRequest(r, p, "generating")
              v == SetTrend(a, t, "approved")
  <1>1. "generating" \in PipelineStatus /\ "approved" \in TrendStatus
    BY Statuses
  <1>2. /\ a \in Tx /\ SameTask(a, r) /\ a.mine.trends = r.mine.trends
        /\ \A q \in RequestIds :
             /\ a.mine.requests[q].status = IF q = p THEN "generating" ELSE r.mine.requests[q].status
             /\ a.mine.requests[q].trend = r.mine.requests[q].trend
             /\ a.mine.requests[q].by = r.mine.requests[q].by
             /\ q # p => a.mine.requests[q] = r.mine.requests[q]
        /\ r.loaded = Committed => a.loaded = Committed
    BY <1>1, SetRequestFields
  <1>3. TrendMay(r.mine.trends[t].status, "approved")
    BY DEF TrendMay, TrendNext
  <1>4. v = Started(r, p, t)
    BY <1>2, <1>3 DEF Started, SetRequest, SetTrend
  <1>. HIDE DEF a
  <1>5. /\ v \in Tx /\ SameTask(v, a) /\ v.mine.requests = a.mine.requests
        /\ \A u \in TrendIds :
             /\ v.mine.trends[u].status = IF u = t THEN "approved" ELSE r.mine.trends[u].status
             /\ v.mine.trends[u].key = r.mine.trends[u].key
             /\ v.mine.trends[u].suppressed = r.mine.trends[u].suppressed
             /\ u # t => v.mine.trends[u] = r.mine.trends[u]
        /\ a.loaded = Committed => v.loaded = Committed
    BY <1>1, <1>2, SetTrendFields
  <1>. HIDE DEF v
  <1>6. r.mine \in Rows /\ v.mine \in Rows
    BY <1>5, TxFields
  <1>7. Aligned(v.mine)
    <2>1. ASSUME NEW q \in RequestIds, q # p, r.mine.requests[q].status \in LiveRequest
          PROVE  v.mine.trends[r.mine.requests[q].trend] = r.mine.trends[r.mine.requests[q].trend]
      <3>1. r.mine.requests[q].trend \in TrendIds
        BY <2>1 DEF RowsOK, Owned, LiveRequest, Absent
      <3>2. r.mine.requests[q].trend # t
        BY <2>1 DEF RowsOK, OneLive, LiveRequest
      <3>. QED  BY <1>5, <3>1, <3>2
    <2>2. \A q \in RequestIds : q # p => v.mine.requests[q] = r.mine.requests[q]
      BY <1>2, <1>5
    <2>3. v.mine.requests[p].status = "generating" /\ v.mine.requests[p].trend = t
          /\ v.mine.trends[t].status = "approved"
      BY <1>2, <1>5
    <2>. QED  BY <2>1, <2>2, <2>3, OthersAligned
  <1>8. Follows(r.mine, v.mine)
    <2>1. \A u \in TrendIds : u # t => v.mine.trends[u] = r.mine.trends[u]
      BY <1>5
    <2>2. \A q \in RequestIds : q # p => v.mine.requests[q] = r.mine.requests[q]
      BY <1>2, <1>5
    <2>3. /\ v.mine.trends[t].key = r.mine.trends[t].key
          /\ v.mine.trends[t].status # Absent /\ r.mine.trends[t].status \notin DedupSkip \cup {Absent}
          /\ v.mine.trends[t].suppressed = r.mine.trends[t].suppressed
      BY <1>5 DEF Absent, DedupSkip
    <2>4. /\ v.mine.requests[p].trend = r.mine.requests[p].trend
          /\ r.mine.requests[p].status \notin PipelineTerminal \cup {Absent}
          /\ v.mine.requests[p].status \in Reached \ {Absent}
          /\ r.mine.requests[p].status \in LiveRequest
      BY <1>2, <1>5 DEF Absent, PipelineTerminal, Reached, LiveRequest
    <2>. QED  BY <1>6, <1>7, <2>1, <2>2, <2>3, <2>4, FollowsOne
  <1>9. BuildsOnly(r.mine, NoTrend) => BuildsOnly(v.mine, NoTrend)
    BY <1>5 DEF BuildsOnly
  <1>10. SameTask(v, r) /\ \A q \in RequestIds : v.mine.requests[q].by = r.mine.requests[q].by
    BY <1>2, <1>5 DEF SameTask
  <1>. QED  BY <1>2, <1>4, <1>5, <1>8, <1>9, <1>10

\* A trigger's request and trend.
LEMMA TriggeredIs ==
  ASSUME TypeInv, DeskInv, ~overlapped, NEW e \in Busy, tx[e].op \in {"trigger", "trigger_now"},
         ids.request + 1 \in RequestIds
  PROVE  LET r == tx[e]
             v == Triggered(r)
             p == ids.request + 1
         IN  /\ v \in Tx /\ v.loaded = Committed /\ SameTask(v, r)
             /\ MayCommit(Committed, v.mine) /\ BuildsOnly(v.mine, NoTrend)
             /\ Numbered(v.mine, [ids EXCEPT !.request = @ + 1])
             /\ v.mine.requests[p].status = "pending_approval" /\ v.mine.requests[p].trend = r.trend
             /\ v.mine.trends[r.trend].status = "proposed"
             /\ \A q \in RequestIds :
                  Committed.requests[q].status = Absent /\ v.mine.requests[q].status # Absent
                    => v.mine.requests[q].by = "editor"
  <1>. DEFINE r == tx[e]
              t == r.trend
              p == ids.request + 1
              c == Create(r, t, "editor")
              v == SetTrend(c, t, "proposed")
  <1>1. ScoutTypeOK /\ r \in Tx /\ Kind(r) /\ r.op # "none" /\ t \in TrendIds /\ r.step = "open"
    BY OneSession DEF Kind
  <1>2. r.loaded = Committed /\ r.mine = Committed /\ Committed \in Rows /\ RowsOK(Committed)
        /\ BuildsOnly(Committed, NoTrend) /\ Numbered(Committed, ids) /\ EditorKnows(r)
    BY <1>1, EditorSession
  <1>3. "editor" \in {"scout", "editor"} /\ "proposed" \in TrendStatus
    BY Statuses
  <1>4. /\ c \in Tx /\ SameTask(c, r) /\ c.mine.trends = Committed.trends /\ c.loaded = Committed
        /\ c.mine.requests[p].status = "pending_approval" /\ c.mine.requests[p].trend = t
        /\ c.mine.requests[p].by = "editor"
        /\ \A q \in RequestIds : q # p => c.mine.requests[q] = Committed.requests[q]
    BY <1>1, <1>2, <1>3, CreateFields
  <1>5. v = Triggered(r)
    BY <1>2, <1>4 DEF Triggered, SetTrend
  <1>. HIDE DEF c
  <1>6. /\ v \in Tx /\ SameTask(v, c) /\ v.mine.requests = c.mine.requests /\ v.loaded = Committed
        /\ \A u \in TrendIds :
             /\ v.mine.trends[u].status = IF u = t THEN "proposed" ELSE Committed.trends[u].status
             /\ v.mine.trends[u].key = Committed.trends[u].key
             /\ u # t => v.mine.trends[u] = Committed.trends[u]
    BY <1>1, <1>3, <1>4, SetTrendFields
  <1>. HIDE DEF v
  <1>7. v.mine \in Rows
    BY <1>6, TxFields
  <1>8. Proposes(Committed, v.mine, p, t)
    <2>1. Committed.trends[t].status \in Unactioned
          /\ \A q \in RequestIds : Committed.requests[q].trend = t
                                     => Committed.requests[q].status \notin PipelineOpen
      BY <1>2 DEF EditorKnows
    <2>. QED  BY <1>1, <1>4, <1>6, <2>1 DEF Proposes
  <1>9. RowsOK(v.mine) /\ KeepsFinal(Committed, v.mine) /\ BuildsOnly(v.mine, NoTrend)
        /\ Numbered(v.mine, [ids EXCEPT !.request = @ + 1])
    <2>1. MayCommit(Committed, Committed)
      BY <1>2, NothingNew
    <2>. QED  BY <1>2, <1>7, <1>8, <2>1, ProposedRows
  <1>10. \A q \in RequestIds :
           Committed.requests[q].status = Absent /\ v.mine.requests[q].status # Absent
             => v.mine.requests[q].by = "editor"
    BY <1>4, <1>6
  <1>11. HeldBack(Committed, v.mine)
    BY <1>10 DEF HeldBack
  <1>12. SameTask(v, r)
    BY <1>4, <1>6 DEF SameTask
  <1>13. v.mine.requests[p].status = "pending_approval" /\ v.mine.requests[p].trend = t
         /\ v.mine.trends[t].status = "proposed"
    BY <1>1, <1>4, <1>6
  <1>. QED  BY <1>5, <1>6, <1>9, <1>10, <1>11, <1>12, <1>13 DEF MayCommit

LEMMA StoreTriggeredAlone ==
  ASSUME TypeInv, DeskInv, NEW e \in Busy, NEW v \in Tx, StoreTriggered(e, v),
         ~overlapped => /\ v.loaded = Committed /\ MayCommit(Committed, v.mine)
                        /\ BuildsOnly(v.mine, NoTrend)
                        /\ Numbered(v.mine, [ids EXCEPT !.request = @ + 1])
  PROVE  DeskInv' /\ StepOK
  <1>1. StoreAs(e, v) /\ ids' = [ids EXCEPT !.request = @ + 1] /\ overlapped' = overlapped
    BY DEF StoreTriggered
  <1>. QED  BY <1>1, AloneStores

LEMMA TriggerAlone ==
  ASSUME TypeInv, DeskInv, NEW e \in Editors, TriggerForm(e) \/ TriggerApi(e)
  PROVE  DeskInv' /\ StepOK
  <1>. DEFINE r == tx[e]
              p == ids.request + 1
              v == Triggered(r)
  <1>1. r.op \in {"trigger", "trigger_now"} /\ e \in Busy /\ e \in Processes
        /\ ScoutTypeOK /\ r \in Tx /\ r.trend \in TrendIds
    <2>1. r.op \in {"trigger", "trigger_now"}
      BY DEF TriggerForm, TriggerApi, TriggerGranted, StartRefused
    <2>. QED  BY <2>1 DEF Busy, Processes, TypeInv, ScoutTypeOK, Kind
  <1>2. v \in Tx
    BY <1>1, TriggeredTyped
  <1>3. CASE StoreTriggered(e, v)
    <2>1. p \in RequestIds
      BY <1>3 DEF StoreTriggered
    <2>2. ASSUME ~overlapped
          PROVE  v.loaded = Committed /\ MayCommit(Committed, v.mine) /\ BuildsOnly(v.mine, NoTrend)
                 /\ Numbered(v.mine, [ids EXCEPT !.request = @ + 1])
      BY <1>1, <2>1, <2>2, TriggeredIs
    <2>. HIDE DEF v
    <2>. QED  BY <1>1, <1>2, <1>3, <2>2, StoreTriggeredAlone
  <1>4. CASE StoreTriggered(e, Started(v, p, r.trend))
    <2>. DEFINE w == Started(v, p, r.trend)
    <2>1. p \in RequestIds
      BY <1>4 DEF StoreTriggered
    <2>2. w \in Tx
      BY <1>1, <1>2, <2>1, StartedTyped
    <2>3. ASSUME ~overlapped
          PROVE  w.loaded = Committed /\ MayCommit(Committed, w.mine) /\ BuildsOnly(w.mine, NoTrend)
                 /\ Numbered(w.mine, [ids EXCEPT !.request = @ + 1])
      <3>1. /\ v.loaded = Committed /\ MayCommit(Committed, v.mine) /\ BuildsOnly(v.mine, NoTrend)
            /\ Numbered(v.mine, [ids EXCEPT !.request = @ + 1])
            /\ v.mine.requests[p].status = "pending_approval" /\ v.mine.requests[p].trend = r.trend
            /\ v.mine.trends[r.trend].status = "proposed"
            /\ \A q \in RequestIds :
                 Committed.requests[q].status = Absent /\ v.mine.requests[q].status # Absent
                   => v.mine.requests[q].by = "editor"
        BY <1>1, <2>1, <2>3, TriggeredIs
      <3>. HIDE DEF v
      <3>2. RowsOK(v.mine) /\ v.mine \in Rows
        BY <1>2, <3>1, TxFields DEF MayCommit
      <3>3. w.loaded = Committed /\ Follows(v.mine, w.mine) /\ BuildsOnly(w.mine, NoTrend)
            /\ \A q \in RequestIds : w.mine.requests[q].by = v.mine.requests[q].by
        BY <1>1, <1>2, <2>1, <3>1, <3>2, StartedIs
      <3>. HIDE DEF w
      <3>4. w.mine \in Rows
        BY <2>2, TxFields
      <3>5. RowsOK(w.mine) /\ KeepsFinal(v.mine, w.mine)
            /\ Numbered(w.mine, [ids EXCEPT !.request = @ + 1])
        BY <3>1, <3>2, <3>3, <3>4, FollowsRows
      <3>6. KeepsFinal(Committed, w.mine)
        BY <3>1, <3>5 DEF MayCommit, KeepsFinal
      <3>7. HeldBack(Committed, w.mine)
        BY <3>1, <3>3 DEF HeldBack, Follows
      <3>. QED  BY <3>3, <3>5, <3>6, <3>7 DEF MayCommit
    <2>. HIDE DEF w
    <2>. QED  BY <1>1, <1>4, <2>2, <2>3, StoreTriggeredAlone DEF w
  <1>5. CASE /\ tx' = [tx EXCEPT ![e] = NoTx]
             /\ ids' = [ids EXCEPT !.request = IF @ < MaxRequests THEN @ + 1 ELSE @]
             /\ UNCHANGED <<trends, requests, seen, perished, overlapped>>
    <2>1. ids' = [ids EXCEPT !.request = @ + 1] \/ ids' = ids
      <3>1. ids \in Ids
        BY IdsTyped
      <3>. QED  BY <1>5, <3>1 DEF Ids
    <2>2. Numbered(Committed, ids) => Numbered(Committed, ids')
      BY <2>1, NumberedGrows
    <2>. QED  BY <1>1, <1>5, <2>2, AloneRollsBack
  <1>. QED  BY <1>3, <1>4, <1>5, Zenon DEF TriggerForm, TriggerApi, TriggerGranted

LEMMA AddManualAlone ==
  ASSUME TypeInv, DeskInv, NEW e \in Editors, AddManual(e)
  PROVE  DeskInv' /\ StepOK
  <1>. DEFINE r == tx[e]
              t == Upserted(r, r.key)
              row == UpsertedRow(r, r.key)
              building == [row EXCEPT !.status = IF @ \in Unactioned THEN "dossier_building" ELSE @]
              w == WithTrend(r, t, row)
              x == WithTrend(r, t, building)
              v == [x EXCEPT !.step = "dossier", !.trend = t, !.touched = {t}]
  <1>1. r.op = "manual" /\ r.step = "open" /\ t \in TrendIds /\ e \in Busy /\ e \in Processes
        /\ ScoutTypeOK /\ r \in Tx /\ r.key \in Clusters
        /\ tx' = [tx EXCEPT ![e] = v] /\ ids' = [ids EXCEPT !.trend = IF t > @ THEN t ELSE @]
        /\ UNCHANGED <<trends, requests, overlapped>>
    BY DEF AddManual, MoveTx, Busy, Processes, TypeInv, ScoutTypeOK, Kind
  <1>2. CASE overlapped
    BY <1>1, <1>2, CommittedSteady DEF DeskInv
  <1>3. CASE ~overlapped
    <2>1. /\ r.loaded = Committed /\ r.mine = Committed /\ Committed \in Rows /\ RowsOK(Committed)
          /\ BuildsOnly(Committed, NoTrend) /\ Numbered(Committed, ids)
          /\ MayCommit(Committed, r.mine)
      BY <1>1, <1>3, OneSession DEF SessionOK
    <2>2. /\ w \in Tx /\ w.mine.requests = r.mine.requests /\ w.mine.trends[t] = row /\ row \in TrendRow
          /\ \A u \in TrendIds : u # t => w.mine.trends[u] = r.mine.trends[u]
          /\ MayCommit(Committed, w.mine) /\ row.status \in TrendOpen
      BY <1>1, <2>1, UpsertRows
    <2>3. Numbered(w.mine, ids')
      BY <1>1, <2>1, UpsertRows
    <2>4. Numbered(Committed, ids')
      BY <1>1, <2>1, NumberedGrows
    <2>. HIDE DEF row, t, w
    <2>5. building \in TrendRow /\ building.key = row.key /\ building.suppressed = row.suppressed
          /\ building.status = IF row.status \in Unactioned THEN "dossier_building" ELSE row.status
      BY <2>2, Statuses DEF TrendRow
    <2>. HIDE DEF building
    <2>6. /\ x \in Tx /\ SameTask(x, r) /\ x.loaded = Committed /\ x.mine.requests = r.mine.requests
          /\ \A u \in TrendIds : x.mine.trends[u] = IF u = t THEN building ELSE r.mine.trends[u]
      BY <1>1, <2>1, <2>5, WithTrendFields
    <2>. HIDE DEF x
    <2>7. /\ v \in Tx /\ v.op = "manual" /\ v.step = "dossier" /\ v.trend = t
          /\ v.mine = x.mine /\ v.loaded = Committed
      BY <1>1, <2>6 DEF Tx, SameTask
    <2>. HIDE DEF v
    <2>8. w.mine \in Rows /\ x.mine \in Rows
      BY <2>2, <2>6, TxFields
    <2>9. Aligned(x.mine)
      <3>1. ASSUME NEW p \in RequestIds, w.mine.requests[p].status \in LiveRequest
            PROVE  \/ x.mine.trends[w.mine.requests[p].trend] = w.mine.trends[w.mine.requests[p].trend]
                   \/ w.mine.requests[p].trend = t
        <4>1. w.mine.requests[p].trend \in TrendIds
          BY <2>2, <3>1 DEF MayCommit, RowsOK, Owned, LiveRequest, Absent
        <4>. QED  BY <2>2, <2>6, <4>1
      <3>2. x.mine.trends[t] = building /\ w.mine.trends[t] = row
        BY <1>1, <2>2, <2>6
      <3>3. \A p \in RequestIds : x.mine.requests[p] = w.mine.requests[p]
        BY <2>2, <2>6
      <3>4. ASSUME NEW p \in RequestIds
            PROVE  /\ x.mine.requests[p].status = "pending_approval" =>
                        x.mine.trends[x.mine.requests[p].trend].status
                          \in {"dossier_building", "proposed", "dismissed"}
                   /\ x.mine.requests[p].status \in {"generating", "failed"} =>
                        x.mine.trends[x.mine.requests[p].trend].status \in {"approved", "dismissed"}
        <4>1. CASE w.mine.requests[p].status \in LiveRequest /\ w.mine.requests[p].trend = t
          BY <2>2, <2>5, <3>2, <3>3, <4>1 DEF MayCommit, RowsOK, Aligned, Unactioned, LiveRequest
        <4>2. CASE w.mine.requests[p].status \in LiveRequest /\ w.mine.requests[p].trend # t
          BY <2>2, <3>1, <3>3, <4>2 DEF MayCommit, RowsOK, Aligned
        <4>3. CASE w.mine.requests[p].status \notin LiveRequest
          BY <3>3, <4>3 DEF LiveRequest
        <4>. QED  BY <4>1, <4>2, <4>3
      <3>. QED  BY <3>4 DEF Aligned
    <2>10. Follows(w.mine, x.mine)
      <3>1. \A u \in TrendIds :
              /\ x.mine.trends[u].key = w.mine.trends[u].key
              /\ w.mine.trends[u].status = Absent => x.mine.trends[u] = w.mine.trends[u]
              /\ w.mine.trends[u].status # Absent => x.mine.trends[u].status # Absent
              /\ w.mine.trends[u].status \in DedupSkip
                   => x.mine.trends[u].status = w.mine.trends[u].status
        BY <2>2, <2>5, <2>6 DEF Absent, DedupSkip, TrendOpen
      <3>. QED  BY <2>2, <2>6, <2>9, <3>1 DEF Follows, MayCommit, RowsOK, Owned
    <2>11. MayCommit(Committed, x.mine) /\ Numbered(x.mine, ids')
      BY <2>1, <2>2, <2>3, <2>6, <2>8, <2>10, FollowsCommit, FollowsRows DEF MayCommit
    <2>12. BuildsOnly(x.mine, t)
      BY <2>1, <2>6 DEF BuildsOnly, TrendIds, NoTrend
    <2>13. SessionOK(v)
      BY <2>7, <2>11, <2>12 DEF SessionOK, ScanKnows, EditorKnows
    <2>. QED  BY <1>1, <2>4, <2>7, <2>11, <2>13, AloneMoves DEF v
  <1>. QED  BY <1>2, <1>3

LEMMA FinishManualAlone ==
  ASSUME TypeInv, DeskInv, NEW e \in Editors, FinishManual(e)
  PROVE  DeskInv' /\ StepOK
  <1>. DEFINE r == tx[e]
              t == r.trend
              row == r.mine.trends[t]
              done == [row EXCEPT !.status = IF @ = "dossier_building" THEN "proposed" ELSE @]
              v == WithTrend(r, t, done)
  <1>1. r.op = "manual" /\ r.step = "dossier" /\ e \in Busy /\ e \in Processes
        /\ ScoutTypeOK /\ r \in Tx /\ t \in TrendIds
        /\ StoreAs(e, v) /\ ids' = ids /\ overlapped' = overlapped
    BY DEF FinishManual, CommitAs, Busy, Processes, TypeInv, ScoutTypeOK, Kind
  <1>2. row \in TrendRow
    BY <1>1, TxFields
  <1>. HIDE DEF row
  <1>3. done \in TrendRow /\ done.key = row.key
        /\ done.status = (IF row.status = "dossier_building" THEN "proposed" ELSE row.status)
        /\ (row.status # "dossier_building" => done = row)
    BY <1>2, Statuses DEF TrendRow
  <1>. HIDE DEF done
  <1>4. v \in Tx /\ SameTask(v, r) /\ v.mine.requests = r.mine.requests
        /\ (r.loaded = Committed => v.loaded = Committed)
        /\ \A u \in TrendIds : v.mine.trends[u] = IF u = t THEN done ELSE r.mine.trends[u]
    BY <1>1, <1>3, WithTrendFields
  <1>. HIDE DEF v
  <1>5. ASSUME ~overlapped
        PROVE  v.loaded = Committed /\ MayCommit(Committed, v.mine) /\ BuildsOnly(v.mine, NoTrend)
               /\ Numbered(v.mine, ids)
    <2>1. /\ r.loaded = Committed /\ r.mine \in Rows /\ Committed \in Rows
          /\ MayCommit(Committed, r.mine) /\ Numbered(r.mine, ids) /\ SessionOK(r)
      BY <1>1, <1>5, OneSession
    <2>2. BuildsOnly(r.mine, t)
      BY <1>1, <2>1 DEF SessionOK
    <2>3. v.mine \in Rows
      BY <1>4, TxFields
    <2>4. ASSUME NEW u \in TrendIds
          PROVE  /\ v.mine.trends[u].key = r.mine.trends[u].key
                 /\ v.mine.trends[u].status = IF r.mine.trends[u].status = "dossier_building"
                                              THEN "proposed" ELSE r.mine.trends[u].status
                 /\ r.mine.trends[u].status # "dossier_building"
                      => v.mine.trends[u] = r.mine.trends[u]
      <3>1. CASE u = t
        BY <1>3, <1>4, <3>1 DEF row
      <3>2. CASE u # t
        BY <1>4, <2>2, <3>2 DEF BuildsOnly
      <3>. QED  BY <3>1, <3>2
    <2>5. Aligned(v.mine)
      <3>1. \A p \in RequestIds : r.mine.requests[p].status \in LiveRequest
                                    => r.mine.requests[p].trend \in TrendIds
        BY <2>1 DEF MayCommit, RowsOK, Owned, LiveRequest, Absent
      <3>2. ASSUME NEW p \in RequestIds
            PROVE  /\ v.mine.requests[p].status = "pending_approval" =>
                        v.mine.trends[v.mine.requests[p].trend].status
                          \in {"dossier_building", "proposed", "dismissed"}
                   /\ v.mine.requests[p].status \in {"generating", "failed"} =>
                        v.mine.trends[v.mine.requests[p].trend].status \in {"approved", "dismissed"}
        <4>1. CASE r.mine.requests[p].status \in LiveRequest
          <5>. DEFINE u == r.mine.requests[p].trend
          <5>1. /\ u \in TrendIds
                /\ v.mine.trends[u].status = IF r.mine.trends[u].status = "dossier_building"
                                             THEN "proposed" ELSE r.mine.trends[u].status
            BY <2>4, <3>1, <4>1
          <5>. QED  BY <1>4, <2>1, <5>1 DEF MayCommit, RowsOK, Aligned
        <4>2. CASE r.mine.requests[p].status \notin LiveRequest
          BY <1>4, <4>2 DEF LiveRequest
        <4>. QED  BY <4>1, <4>2
      <3>. QED  BY <3>2 DEF Aligned
    <2>6. Follows(r.mine, v.mine)
      <3>1. \A u \in TrendIds :
              /\ v.mine.trends[u].key = r.mine.trends[u].key
              /\ r.mine.trends[u].status = Absent => v.mine.trends[u] = r.mine.trends[u]
              /\ r.mine.trends[u].status # Absent => v.mine.trends[u].status # Absent
              /\ r.mine.trends[u].status \in DedupSkip
                   => v.mine.trends[u].status = r.mine.trends[u].status
        BY <2>4 DEF Absent, DedupSkip
      <3>. QED  BY <1>4, <2>1, <2>5, <3>1 DEF Follows, MayCommit, RowsOK, Owned
    <2>7. MayCommit(Committed, v.mine) /\ Numbered(v.mine, ids)
      BY <1>4, <2>1, <2>3, <2>6, FollowsCommit, FollowsRows DEF MayCommit
    <2>8. BuildsOnly(v.mine, NoTrend)
      BY <2>4 DEF BuildsOnly
    <2>. QED  BY <1>4, <2>1, <2>7, <2>8
  <1>. QED  BY <1>1, <1>4, <1>5, AloneStores

\* The last move of a request, with its trend or without it.
LEMMA RequestMoves ==
  ASSUME ScoutTypeOK, NEW r \in Tx, NEW p \in RequestIds, NEW st \in PipelineStatus, RowsOK(r.mine),
         r.loaded = Committed, r.mine.requests[p].status \notin PipelineTerminal \cup {Absent},
         st \in Reached, st \in {"generating", "failed"} =>
                           r.mine.requests[p].status \in {"generating", "failed"},
         st # "pending_approval"
  PROVE  LET v == SetRequest(r, p, st)
         IN  /\ v \in Tx /\ v.loaded = Committed /\ Follows(r.mine, v.mine)
             /\ v.mine.trends = r.mine.trends
             /\ v.mine.requests[p].status = st
             /\ \A q \in RequestIds : v.mine.requests[q].trend = r.mine.requests[q].trend
             /\ \A q \in RequestIds : q # p => v.mine.requests[q] = r.mine.requests[q]
  <1>. DEFINE v == SetRequest(r, p, st)
  <1>1. /\ v \in Tx /\ SameTask(v, r) /\ v.mine.trends = r.mine.trends
        /\ \A q \in RequestIds :
             /\ v.mine.requests[q].status = IF q = p THEN st ELSE r.mine.requests[q].status
             /\ v.mine.requests[q].trend = r.mine.requests[q].trend
             /\ q # p => v.mine.requests[q] = r.mine.requests[q]
        /\ v.loaded = Committed
    BY SetRequestFields
  <1>. HIDE DEF v
  <1>2. r.mine \in Rows /\ v.mine \in Rows
    BY <1>1, TxFields
  <1>3. Aligned(v.mine)
    <2>1. v.mine.requests[p].status \in {"generating", "failed"} =>
            v.mine.trends[v.mine.requests[p].trend].status \in {"approved", "dismissed"}
      BY <1>1 DEF RowsOK, Aligned
    <2>. QED  BY <1>1, <2>1, OthersAligned
  <1>4. Follows(r.mine, v.mine)
    <2>1. st # Absent
      BY Statuses DEF Absent
    <2>2. v.mine.requests[p].status \in LiveRequest => r.mine.requests[p].status \in LiveRequest
      BY <1>1 DEF LiveRequest
    <2>3. ASSUME NEW q \in RequestIds
          PROVE  /\ v.mine.requests[q].trend = r.mine.requests[q].trend
                 /\ v.mine.requests[q].status = Absent <=> r.mine.requests[q].status = Absent
                 /\ v.mine.requests[q].status \in LiveRequest
                      => r.mine.requests[q].status \in LiveRequest
                 /\ v.mine.requests[q].status \in Reached
                 /\ r.mine.requests[q].status \in PipelineTerminal
                      => v.mine.requests[q].status = r.mine.requests[q].status
      BY <1>1, <2>1, <2>2 DEF RowsOK, Owned
    <2>. QED  BY <1>1, <1>3, <2>3 DEF Follows
  <1>. QED  BY <1>1, <1>4 DEF v

\* A trend moves, while none of its requests needs it to stay.
LEMMA TrendMoves ==
  ASSUME ScoutTypeOK, NEW r \in Tx, NEW t \in TrendIds, NEW st \in TrendStatus, RowsOK(r.mine),
         r.loaded = Committed, r.mine.trends[t].status \notin DedupSkip \cup {Absent},
         \/ st = "dismissed"
         \/ \A q \in RequestIds : r.mine.requests[q].trend = t
                                    => r.mine.requests[q].status \notin LiveRequest
  PROVE  LET v == SetTrend(r, t, st)
         IN  /\ v \in Tx /\ v.loaded = Committed /\ Follows(r.mine, v.mine)
             /\ BuildsOnly(r.mine, NoTrend) /\ st # "dossier_building" => BuildsOnly(v.mine, NoTrend)
             /\ v.mine.requests = r.mine.requests
  <1>. DEFINE v == SetTrend(r, t, st)
  <1>1. /\ v \in Tx /\ SameTask(v, r) /\ v.mine.requests = r.mine.requests /\ v.loaded = Committed
        /\ \A u \in TrendIds :
             /\ v.mine.trends[u].status = IF u = t THEN st ELSE r.mine.trends[u].status
             /\ v.mine.trends[u].key = r.mine.trends[u].key
             /\ u # t => v.mine.trends[u] = r.mine.trends[u]
    BY SetTrendFields
  <1>. HIDE DEF v
  <1>2. \A q \in RequestIds : r.mine.requests[q].status \in LiveRequest
                                => r.mine.requests[q].trend \in TrendIds
    BY DEF RowsOK, Owned, LiveRequest, Absent
  <1>3. Aligned(v.mine)
    <2>1. ASSUME NEW q \in RequestIds
          PROVE  /\ v.mine.requests[q].status = "pending_approval" =>
                      v.mine.trends[v.mine.requests[q].trend].status
                        \in {"dossier_building", "proposed", "dismissed"}
                 /\ v.mine.requests[q].status \in {"generating", "failed"} =>
                      v.mine.trends[v.mine.requests[q].trend].status \in {"approved", "dismissed"}
      <3>1. CASE r.mine.requests[q].status \in LiveRequest /\ r.mine.requests[q].trend # t
        BY <1>1, <1>2, <3>1 DEF RowsOK, Aligned
      <3>2. CASE r.mine.requests[q].status \in LiveRequest /\ r.mine.requests[q].trend = t
        BY <1>1, <3>2
      <3>3. CASE r.mine.requests[q].status \notin LiveRequest
        BY <1>1, <3>3 DEF LiveRequest
      <3>. QED  BY <3>1, <3>2, <3>3
    <2>. QED  BY <2>1 DEF Aligned
  <1>4. Follows(r.mine, v.mine)
    <2>1. st # Absent
      BY Statuses DEF Absent
    <2>2. \A u \in TrendIds :
              /\ v.mine.trends[u].key = r.mine.trends[u].key
              /\ r.mine.trends[u].status = Absent => v.mine.trends[u] = r.mine.trends[u]
              /\ r.mine.trends[u].status # Absent => v.mine.trends[u].status # Absent
              /\ r.mine.trends[u].status \in DedupSkip
                   => v.mine.trends[u].status = r.mine.trends[u].status
      BY <1>1, <2>1
    <2>. QED  BY <1>1, <1>3, <2>2 DEF Follows, RowsOK, Owned
  <1>5. BuildsOnly(r.mine, NoTrend) /\ st # "dossier_building" => BuildsOnly(v.mine, NoTrend)
    BY <1>1 DEF BuildsOnly
  <1>. QED  BY <1>1, <1>4, <1>5 DEF v

LEMMA FollowsTwice ==
  ASSUME NEW U \in Rows, NEW V \in Rows, NEW W \in Rows, Follows(U, V), Follows(V, W)
  PROVE  Follows(U, W)
  BY DEF Follows

LEMMA EditorStartsAlone ==
  ASSUME TypeInv, DeskInv, NEW e \in Editors,
         \/ \E k \in Clusters : StartManual(e, k)
         \/ \E op \in {"trigger", "trigger_now"}, t \in TrendIds : StartTrigger(e, op, t)
         \/ \E op \in {"approve", "decline", "close", "work"}, p \in RequestIds : StartOn(e, op, p)
         \/ \E t \in TrendIds : StartDismiss(e, t)
  PROVE  DeskInv' /\ StepOK
  <1>. e \in Processes /\ ScoutTypeOK
    BY DEF Processes, TypeInv
  <1>1. ASSUME NEW k \in Clusters, StartManual(e, k) PROVE DeskInv' /\ StepOK
    <2>. DEFINE o == Opened("manual", "open")
                v == [o EXCEPT !.key = k]
    <2>1. "manual" \in ScoutOps
      BY DEF ScoutOps
    <2>2. o \in Tx /\ o.op = "manual" /\ o.step = "open" /\ o.mine = Committed /\ o.loaded = Committed
      BY <2>1, OpenedFields
    <2>. HIDE DEF o
    <2>3. v \in Tx /\ v.op = "manual" /\ v.step = "open" /\ v.mine = Committed /\ v.loaded = Committed
      BY <2>2 DEF Tx
    <2>4. BeginTx(e, v)
      BY <1>1 DEF StartManual, v, o
    <2>. HIDE DEF v
    <2>5. EditorKnows(v)
      BY <2>3 DEF EditorKnows
    <2>. QED  BY <2>3, <2>4, <2>5, EditorBegins
  <1>2. ASSUME NEW op \in {"trigger", "trigger_now"}, NEW t \in TrendIds, StartTrigger(e, op, t)
        PROVE  DeskInv' /\ StepOK
    <2>. DEFINE o == Opened(op, "open")
                v == [o EXCEPT !.trend = t]
    <2>1. op \in ScoutOps
      BY DEF ScoutOps
    <2>2. o \in Tx /\ o.op = op /\ o.step = "open" /\ o.mine = Committed /\ o.loaded = Committed
      BY <2>1, OpenedFields
    <2>3. BeginTx(e, v) /\ Triggerable(t) /\ CanCreate(o, t)
      BY <1>2 DEF StartTrigger
    <2>. HIDE DEF o
    <2>4. v \in Tx /\ v.op = op /\ v.step = "open" /\ v.trend = t /\ v.mine = Committed
          /\ v.loaded = Committed
      BY <2>2 DEF Tx
    <2>. HIDE DEF v
    <2>5. \A p \in RequestIds : Committed.requests[p].trend = t
                                  => Committed.requests[p].status \notin PipelineOpen
      <3>1. Matched(o) = Committed
        BY <2>2, MatchedAlone
      <3>. QED  BY <2>3, <3>1 DEF CanCreate, OpenOf
    <2>6. Committed.trends[t].status \in Unactioned
      BY <2>3 DEF Triggerable, Committed
    <2>7. EditorKnows(v)
      BY <2>4, <2>5, <2>6 DEF EditorKnows
    <2>. QED  BY <2>3, <2>4, <2>7, EditorBegins
  <1>3. ASSUME NEW op \in {"approve", "decline", "close", "work"}, NEW p \in RequestIds,
               StartOn(e, op, p)
        PROVE  DeskInv' /\ StepOK
    <2>. DEFINE o == Opened(op, "open")
                v == [o EXCEPT !.request = p, !.trend = requests[p].trend]
    <2>1. op \in ScoutOps /\ requests[p].trend \in TrendIds \cup {NoTrend}
      BY DEF ScoutOps, ScoutTypeOK, RequestRow
    <2>2. o \in Tx /\ o.op = op /\ o.step = "open" /\ o.mine = Committed /\ o.loaded = Committed
      BY <2>1, OpenedFields
    <2>3. BeginTx(e, v) /\ requests[p].status # Absent /\ MayOn(op, p)
      BY <1>3 DEF StartOn
    <2>. HIDE DEF o
    <2>4. v \in Tx /\ v.op = op /\ v.step = "open" /\ v.request = p /\ v.trend = requests[p].trend
          /\ v.mine = Committed /\ v.loaded = Committed
      BY <2>1, <2>2 DEF Tx
    <2>. HIDE DEF v
    <2>5. Committed.requests[p] = requests[p] /\ Committed.trends = trends
      BY DEF Committed
    <2>6. EditorKnows(v)
      BY <2>3, <2>4, <2>5 DEF EditorKnows, MayOn
    <2>. QED  BY <2>3, <2>4, <2>6, EditorBegins
  <1>4. ASSUME NEW t \in TrendIds, StartDismiss(e, t) PROVE DeskInv' /\ StepOK
    <2>. DEFINE o == Opened("dismiss", "open")
                v == [o EXCEPT !.trend = t]
    <2>1. "dismiss" \in ScoutOps
      BY DEF ScoutOps
    <2>2. o \in Tx /\ o.op = "dismiss" /\ o.step = "open" /\ o.mine = Committed
          /\ o.loaded = Committed
      BY <2>1, OpenedFields
    <2>3. BeginTx(e, v) /\ trends[t].status # Absent /\ TrendMay(trends[t].status, "dismissed")
      BY <1>4 DEF StartDismiss
    <2>. HIDE DEF o
    <2>4. v \in Tx /\ v.op = "dismiss" /\ v.step = "open" /\ v.trend = t /\ v.mine = Committed
          /\ v.loaded = Committed
      BY <2>2 DEF Tx
    <2>. HIDE DEF v
    <2>5. EditorKnows(v)
      BY <2>3, <2>4 DEF EditorKnows, Committed
    <2>. QED  BY <2>3, <2>4, <2>5, EditorBegins
  <1>. QED  BY <1>1, <1>2, <1>3, <1>4

\* The rows an editor's request on p commits.
LEMMA ActsOnLive ==
  ASSUME TypeInv, DeskInv, ~overlapped, NEW e \in Busy,
         tx[e].op \in {"approve", "decline", "close", "work"}
  PROVE  LET r == tx[e]
         IN  /\ ScoutTypeOK /\ r \in Tx /\ r.request \in RequestIds /\ r.trend \in TrendIds
             /\ r.loaded = Committed /\ r.mine = Committed /\ Committed \in Rows
             /\ RowsOK(Committed) /\ BuildsOnly(Committed, NoTrend) /\ EditorKnows(r)
             /\ r.mine.requests[r.request].trend = r.trend
             /\ r.mine.requests[r.request].status \notin PipelineTerminal \cup {Absent}
             /\ r.mine.trends[r.trend].status # Absent
             /\ \A q \in RequestIds : q # r.request /\ r.mine.requests[q].trend = r.trend
                  /\ r.mine.requests[r.request].status \in LiveRequest
                    => r.mine.requests[q].status \notin LiveRequest
  <1>. DEFINE r == tx[e]
              row == r.mine.requests[r.request]
  <1>1. ScoutTypeOK /\ r \in Tx /\ r.request \in RequestIds /\ r.step = "open"
    BY OneSession DEF Kind
  <1>2. /\ r.loaded = Committed /\ r.mine = Committed /\ Committed \in Rows
        /\ RowsOK(Committed) /\ BuildsOnly(Committed, NoTrend) /\ EditorKnows(r)
    BY <1>1, EditorSession
  <1>3. row.status # Absent /\ r.trend = row.trend
    BY <1>2 DEF EditorKnows
  <1>4. row.status \notin PipelineTerminal
    <2>1. CASE r.op = "close"
      <3>1. "closed" \in PipelineNext[row.status]
        BY <1>2, <2>1 DEF EditorKnows
      <3>. HIDE DEF row
      <3>. QED  BY <3>1 DEF PipelineNext, PipelineTerminal
    <2>2. CASE r.op # "close"
      BY <1>2, <2>2 DEF EditorKnows, PipelineTerminal
    <2>. QED  BY <2>1, <2>2
  <1>5. r.trend \in TrendIds /\ r.mine.trends[r.trend].status # Absent
    BY <1>1, <1>2, <1>3 DEF RowsOK, Owned
  <1>6. \A q \in RequestIds : q # r.request /\ r.mine.requests[q].trend = r.trend
          /\ row.status \in LiveRequest => r.mine.requests[q].status \notin LiveRequest
    BY <1>1, <1>2, <1>3 DEF RowsOK, OneLive
  <1>. QED  BY <1>1, <1>2, <1>3, <1>4, <1>5, <1>6

LEMMA ApproveAlone ==
  ASSUME TypeInv, DeskInv, NEW e \in Editors, ApproveRequest(e)
  PROVE  DeskInv' /\ StepOK
  <1>. DEFINE r == tx[e]
              v == Started(r, r.request, r.trend)
  <1>1. r.op = "approve" /\ e \in Busy /\ e \in Processes /\ ScoutTypeOK /\ r \in Tx
        /\ r.request \in RequestIds /\ CommitAs(e, v)
    BY DEF ApproveRequest, Busy, Processes, TypeInv, ScoutTypeOK, Kind
  <1>2. v \in Tx
    BY <1>1, StartedTyped
  <1>3. ASSUME ~overlapped
        PROVE  v.loaded = Committed /\ Follows(Committed, v.mine) /\ BuildsOnly(v.mine, NoTrend)
    <2>1. /\ r.trend \in TrendIds /\ r.loaded = Committed /\ r.mine = Committed
          /\ RowsOK(Committed) /\ BuildsOnly(Committed, NoTrend) /\ EditorKnows(r)
          /\ r.mine.requests[r.request].trend = r.trend
      BY <1>1, <1>3, ActsOnLive
    <2>2. r.mine.requests[r.request].status = "pending_approval" /\ MayStart(r.mine.trends[r.trend])
      BY <1>1, <2>1 DEF EditorKnows
    <2>3. r.mine.trends[r.trend].status = "proposed"
      <3>1. r.mine.trends[r.trend].status \in {"dossier_building", "proposed", "dismissed"}
        BY <1>1, <2>1, <2>2 DEF RowsOK, Aligned
      <3>2. r.mine.trends[r.trend].status # "dossier_building"
        BY <2>1 DEF BuildsOnly, TrendIds, NoTrend
      <3>. QED  BY <2>2, <3>1, <3>2 DEF MayStart, TrendOpen
    <2>. QED  BY <1>1, <2>1, <2>2, <2>3, StartedIs
  <1>. HIDE DEF v
  <1>. QED  BY <1>1, <1>2, <1>3, EditorCommits

LEMMA DeclineAlone ==
  ASSUME TypeInv, DeskInv, NEW e \in Editors, DeclineRequest(e)
  PROVE  DeskInv' /\ StepOK
  <1>. DEFINE r == tx[e]
              p == r.request
              t == r.trend
              d == SetRequest(r, p, "declined")
              st == IF r.mine.trends[t].status = "proposed" THEN "declined"
                    ELSE r.mine.trends[t].status
              v == WithTrend(d, t, [r.mine.trends[t] EXCEPT !.status = st])
  <1>1. r.op = "decline" /\ e \in Busy /\ e \in Processes /\ ScoutTypeOK /\ r \in Tx
        /\ p \in RequestIds /\ CommitAs(e, v)
    BY DEF DeclineRequest, SetRequest, Busy, Processes, TypeInv, ScoutTypeOK, Kind
  <1>. HIDE DEF st, v
  <1>2. d \in Tx /\ d.mine.trends = r.mine.trends
    <2>1. "declined" \in PipelineStatus
      BY Statuses
    <2>2. ScoutTypeOK /\ r \in Tx /\ p \in RequestIds
      BY <1>1
    <2>. HIDE DEF r
    <2>3. SetRequest(r, p, "declined") \in Tx /\ SetRequest(r, p, "declined").mine.trends = r.mine.trends
      BY <2>1, <2>2, SetRequestFields
    <2>. QED  BY <2>3
  <1>. USE DEF st, v
  <1>. HIDE DEF d
  <1>3. t \in TrendIds => st \in TrendStatus \cup {Absent}
    BY <1>1, TxFields, Statuses DEF TrendRow
  <1>. HIDE DEF st
  <1>4. v \in Tx
    <2>1. t \in TrendIds => [r.mine.trends[t] EXCEPT !.status = st] \in TrendRow
      BY <1>1, <1>3, TxFields DEF TrendRow
    <2>. QED  BY <1>1, <1>2, <2>1, WithTrendFields
  <1>5. ASSUME ~overlapped
        PROVE  v.loaded = Committed /\ Follows(Committed, v.mine) /\ BuildsOnly(v.mine, NoTrend)
    <2>1. /\ t \in TrendIds /\ r.loaded = Committed /\ r.mine = Committed /\ Committed \in Rows
          /\ RowsOK(Committed) /\ BuildsOnly(Committed, NoTrend) /\ EditorKnows(r)
          /\ r.mine.requests[p].trend = t
          /\ r.mine.requests[p].status \notin PipelineTerminal \cup {Absent}
          /\ r.mine.trends[t].status # Absent
          /\ \A q \in RequestIds : q # p /\ r.mine.requests[q].trend = t
               /\ r.mine.requests[p].status \in LiveRequest
                 => r.mine.requests[q].status \notin LiveRequest
      BY <1>1, <1>5, ActsOnLive
    <2>2. r.mine.requests[p].status \in LiveRequest
      BY <1>1, <2>1 DEF EditorKnows, LiveRequest
    <2>3. "declined" \in PipelineStatus /\ "declined" \in Reached
      BY Statuses DEF Reached
    <2>4. /\ d.loaded = Committed /\ Follows(Committed, d.mine)
          /\ d.mine.requests[p].status = "declined"
          /\ \A q \in RequestIds : d.mine.requests[q].trend = r.mine.requests[q].trend
          /\ \A q \in RequestIds : q # p => d.mine.requests[q] = r.mine.requests[q]
      BY <1>1, <2>1, <2>3, RequestMoves DEF d
    <2>5. d.mine \in Rows /\ RowsOK(d.mine) /\ BuildsOnly(d.mine, NoTrend)
      <3>1. d.mine \in Rows
        BY <1>2, TxFields
      <3>2. RowsOK(d.mine)
        BY <2>1, <2>4, <3>1, FollowsRows
      <3>. QED  BY <1>2, <2>1, <3>1, <3>2 DEF BuildsOnly
    <2>6. CASE r.mine.trends[t].status = "proposed"
      <3>1. v = SetTrend(d, t, "declined")
        BY <1>2, <2>6 DEF SetTrend, st
      <3>2. \A q \in RequestIds : d.mine.requests[q].trend = t
                                    => d.mine.requests[q].status \notin LiveRequest
        BY <2>1, <2>2, <2>4 DEF LiveRequest
      <3>3. d.mine.trends[t].status \notin DedupSkip \cup {Absent}
        BY <1>2, <2>6 DEF DedupSkip, Absent
      <3>4. "declined" \in TrendStatus
        BY Statuses
      <3>5. v.loaded = Committed /\ Follows(d.mine, v.mine) /\ BuildsOnly(v.mine, NoTrend)
        BY <1>1, <1>2, <2>1, <2>4, <2>5, <3>1, <3>2, <3>3, <3>4, TrendMoves
      <3>. HIDE DEF v
      <3>6. v.mine \in Rows
        BY <1>4, TxFields
      <3>. QED  BY <2>1, <2>4, <2>5, <3>5, <3>6, FollowsTwice
    <2>7. CASE r.mine.trends[t].status # "proposed"
      <3>. DEFINE row == [r.mine.trends[t] EXCEPT !.status = st]
      <3>1. row = r.mine.trends[t] /\ row \in TrendRow
        <4>1. r.mine.trends[t] \in TrendRow /\ st = r.mine.trends[t].status
          BY <1>1, <2>1, <2>7, TxFields DEF st
        <4>. QED  BY <4>1 DEF TrendRow
      <3>. HIDE DEF row
      <3>2. v.loaded = Committed /\ v.mine.requests = d.mine.requests
            /\ \A u \in TrendIds : v.mine.trends[u] = d.mine.trends[u]
        BY <1>1, <1>2, <2>1, <2>4, <3>1, WithTrendFields DEF row
      <3>. HIDE DEF v
      <3>3. v.mine = d.mine
        BY <1>2, <1>4, <3>2, TxFields DEF Rows
      <3>. QED  BY <2>4, <2>5, <3>2, <3>3
    <2>. QED  BY <2>6, <2>7
  <1>. HIDE DEF v
  <1>. QED  BY <1>1, <1>4, <1>5, EditorCommits

LEMMA CloseAlone ==
  ASSUME TypeInv, DeskInv, NEW e \in Editors, CloseRequest(e)
  PROVE  DeskInv' /\ StepOK
  <1>. DEFINE r == tx[e]
              p == r.request
              v == SetRequest(r, p, "closed")
  <1>1. r.op = "close" /\ e \in Busy /\ e \in Processes /\ ScoutTypeOK /\ r \in Tx
        /\ p \in RequestIds /\ CommitAs(e, v)
    BY DEF CloseRequest, SetRequest, Busy, Processes, TypeInv, ScoutTypeOK, Kind
  <1>2. v \in Tx
    BY <1>1, SetRequestFields, Statuses
  <1>3. ASSUME ~overlapped
        PROVE  v.loaded = Committed /\ Follows(Committed, v.mine) /\ BuildsOnly(v.mine, NoTrend)
    <2>1. /\ r.loaded = Committed /\ r.mine = Committed
          /\ RowsOK(Committed) /\ BuildsOnly(Committed, NoTrend)
          /\ r.mine.requests[p].status \notin PipelineTerminal \cup {Absent}
      BY <1>1, <1>3, ActsOnLive
    <2>2. "closed" \in PipelineStatus /\ "closed" \in Reached
      BY Statuses DEF Reached
    <2>3. v.loaded = Committed /\ Follows(Committed, v.mine) /\ v.mine.trends = r.mine.trends
      BY <1>1, <2>1, <2>2, RequestMoves
    <2>. QED  BY <2>1, <2>3 DEF BuildsOnly
  <1>. HIDE DEF v
  <1>. QED  BY <1>1, <1>2, <1>3, EditorCommits

LEMMA WorkAlone ==
  ASSUME TypeInv, DeskInv, NEW e \in Editors, Work(e)
  PROVE  DeskInv' /\ StepOK
  <1>. DEFINE r == tx[e]
              p == r.request
              t == r.trend
              now == r.mine.requests[p].status
  <1>1. r.op = "work" /\ e \in Busy /\ e \in Processes /\ ScoutTypeOK /\ r \in Tx
        /\ p \in RequestIds
    BY DEF Work, Busy, Processes, TypeInv, ScoutTypeOK, Kind
  <1>2. ASSUME NEW st \in {"failed", "generating", "published"}
        PROVE  /\ SetRequest(r, p, st) \in Tx
               /\ SetRequest(r, p, st).mine.trends = r.mine.trends
               /\ ~overlapped =>
                    LET v == SetRequest(r, p, st)
                    IN  /\ v.loaded = Committed /\ Follows(Committed, v.mine)
                        /\ BuildsOnly(v.mine, NoTrend) /\ v.mine.requests[p].status = st
                        /\ \A q \in RequestIds : v.mine.requests[q].trend = r.mine.requests[q].trend
                        /\ \A q \in RequestIds : q # p => v.mine.requests[q] = r.mine.requests[q]
    <2>. DEFINE v == SetRequest(r, p, st)
    <2>1. st \in PipelineStatus /\ st \in Reached
      BY Statuses DEF Reached
    <2>2. v \in Tx /\ v.mine.trends = r.mine.trends
      BY <1>1, <2>1, SetRequestFields
    <2>3. CASE ~overlapped
      <3>1. /\ r.loaded = Committed /\ r.mine = Committed /\ EditorKnows(r)
            /\ RowsOK(Committed) /\ BuildsOnly(Committed, NoTrend)
            /\ now \notin PipelineTerminal \cup {Absent}
        BY <1>1, <2>3, ActsOnLive
      <3>2. now \in {"generating", "failed"}
        BY <1>1, <3>1 DEF EditorKnows
      <3>3. /\ v.loaded = Committed /\ Follows(Committed, v.mine) /\ v.mine.requests[p].status = st
            /\ \A q \in RequestIds : v.mine.requests[q].trend = r.mine.requests[q].trend
            /\ \A q \in RequestIds : q # p => v.mine.requests[q] = r.mine.requests[q]
        BY <1>1, <2>1, <3>1, <3>2, RequestMoves
      <3>4. BuildsOnly(v.mine, NoTrend)
        BY <2>2, <3>1 DEF BuildsOnly
      <3>. QED  BY <2>2, <3>3, <3>4
    <2>. QED  BY <2>2, <2>3
  <1>3. CASE \E st \in {"failed", "generating"} : CommitAs(e, SetRequest(r, p, st))
    <2>1. PICK st \in {"failed", "generating"} : CommitAs(e, SetRequest(r, p, st))
      BY <1>3
    <2>. DEFINE v == SetRequest(r, p, st)
    <2>2. v \in Tx /\ (~overlapped => /\ v.loaded = Committed /\ Follows(Committed, v.mine)
                                     /\ BuildsOnly(v.mine, NoTrend))
      BY <1>2
    <2>. HIDE DEF v
    <2>. QED  BY <1>1, <2>1, <2>2, EditorCommits DEF v
  <1>4. CASE /\ now = "generating" /\ TrendMay(r.mine.trends[t].status, "completed")
             /\ CommitAs(e, WithTrend(SetRequest(r, p, "published"), t,
                                      [r.mine.trends[t] EXCEPT !.status = "completed"]))
    <2>. DEFINE d == SetRequest(r, p, "published")
                v == SetTrend(d, t, "completed")
    <2>1. d \in Tx /\ d.mine.trends = r.mine.trends /\ "completed" \in TrendStatus
      BY <1>2, Statuses
    <2>2. ~overlapped => /\ d.loaded = Committed /\ Follows(Committed, d.mine)
                         /\ BuildsOnly(d.mine, NoTrend) /\ d.mine.requests[p].status = "published"
                         /\ \A q \in RequestIds : d.mine.requests[q].trend = r.mine.requests[q].trend
                         /\ \A q \in RequestIds : q # p => d.mine.requests[q] = r.mine.requests[q]
      BY <1>2
    <2>3. CommitAs(e, v)
      BY <1>4, <2>1 DEF SetTrend
    <2>. HIDE DEF d
    <2>4. v \in Tx
      BY <1>1, <2>1, SetTrendFields
    <2>5. ASSUME ~overlapped
          PROVE  v.loaded = Committed /\ Follows(Committed, v.mine) /\ BuildsOnly(v.mine, NoTrend)
      <3>1. /\ t \in TrendIds /\ r.loaded = Committed /\ r.mine = Committed /\ Committed \in Rows
            /\ RowsOK(Committed) /\ r.mine.requests[p].trend = t
            /\ \A q \in RequestIds : q # p /\ r.mine.requests[q].trend = t
                 /\ now \in LiveRequest => r.mine.requests[q].status \notin LiveRequest
        BY <1>1, <2>5, ActsOnLive
      <3>2. d.mine \in Rows /\ RowsOK(d.mine)
        BY <2>1, <2>2, <2>5, <3>1, TxFields, FollowsRows
      <3>3. now \in LiveRequest
        BY <1>4 DEF LiveRequest
      <3>4. \A q \in RequestIds : d.mine.requests[q].trend = t
                                    => d.mine.requests[q].status \notin LiveRequest
        BY <2>2, <2>5, <3>1, <3>3 DEF LiveRequest
      <3>5. d.mine.trends[t].status \notin DedupSkip \cup {Absent}
        <4>1. r.mine.trends[t].status \in {"approved", "dismissed"}
          BY <1>1, <1>4, <3>1 DEF RowsOK, Aligned
        <4>2. r.mine.trends[t].status # "dismissed"
          BY <1>4 DEF TrendMay, TrendNext
        <4>. QED  BY <2>1, <4>1, <4>2 DEF DedupSkip, Absent
      <3>6. v.loaded = Committed /\ Follows(d.mine, v.mine) /\ BuildsOnly(v.mine, NoTrend)
        BY <1>1, <2>1, <2>2, <2>5, <3>1, <3>2, <3>4, <3>5, TrendMoves
      <3>. HIDE DEF v
      <3>7. v.mine \in Rows
        BY <2>4, TxFields
      <3>. QED  BY <2>2, <2>5, <3>1, <3>2, <3>6, <3>7, FollowsTwice
    <2>. HIDE DEF v
    <2>. QED  BY <1>1, <2>3, <2>4, <2>5, EditorCommits
  <1>. QED  BY <1>3, <1>4 DEF Work, SetRequest

LEMMA DismissAlone ==
  ASSUME TypeInv, DeskInv, NEW e \in Editors, DismissTrend(e)
  PROVE  DeskInv' /\ StepOK
  <1>. DEFINE r == tx[e]
              t == r.trend
              w == SetTrend(r, t, "dismissed")
              v == [w EXCEPT !.touched = {t}]
  <1>1. r.op = "dismiss" /\ e \in Busy /\ e \in Processes /\ ScoutTypeOK /\ r \in Tx
        /\ t \in TrendIds /\ r.step = "open" /\ CommitAs(e, v)
    BY DEF DismissTrend, SetTrend, Busy, Processes, TypeInv, ScoutTypeOK, Kind
  <1>2. "dismissed" \in TrendStatus
    BY Statuses
  <1>3. /\ w \in Tx /\ SameTask(w, r) /\ w.mine.requests = r.mine.requests
        /\ (r.loaded = Committed => w.loaded = Committed)
        /\ \A u \in TrendIds :
             /\ w.mine.trends[u].status = IF u = t THEN "dismissed" ELSE r.mine.trends[u].status
             /\ w.mine.trends[u].key = r.mine.trends[u].key
             /\ w.mine.trends[u].suppressed = r.mine.trends[u].suppressed
             /\ u # t => w.mine.trends[u] = r.mine.trends[u]
    BY <1>1, <1>2, SetTrendFields
  <1>4. ASSUME ~overlapped
        PROVE  w.loaded = Committed /\ Follows(Committed, w.mine) /\ BuildsOnly(w.mine, NoTrend)
    <2>1. /\ r.loaded = Committed /\ r.mine = Committed /\ Committed \in Rows /\ EditorKnows(r)
          /\ RowsOK(Committed) /\ BuildsOnly(Committed, NoTrend)
      BY <1>1, <1>4, EditorSession
    <2>2. /\ r.mine.trends[t].status # Absent
          /\ TrendMay(r.mine.trends[t].status, "dismissed")
      BY <1>1, <2>1 DEF EditorKnows
    <2>3. CASE r.mine.trends[t].status = "dismissed"
      <3>1. ASSUME NEW u \in TrendIds PROVE w.mine.trends[u] = r.mine.trends[u]
        <4>1. w.mine.trends[u] \in TrendRow /\ r.mine.trends[u] \in TrendRow
          BY <1>1, <1>3, TxFields
        <4>. QED  BY <1>3, <2>3, <4>1 DEF TrendRow
      <3>2. w.mine = r.mine
        BY <1>1, <1>3, <3>1, TxFields DEF Rows
      <3>3. Follows(Committed, Committed)
        BY <2>1 DEF Follows, RowsOK, Owned
      <3>. QED  BY <1>3, <2>1, <3>2, <3>3
    <2>4. CASE r.mine.trends[t].status # "dismissed"
      <3>1. r.mine.trends[t].status \notin DedupSkip \cup {Absent}
        BY <2>2, <2>4 DEF TrendMay, TrendNext, DedupSkip
      <3>. QED  BY <1>1, <1>2, <2>1, <3>1, TrendMoves
    <2>. QED  BY <2>3, <2>4
  <1>. HIDE DEF w
  <1>5. v \in Tx /\ v.mine = w.mine /\ v.loaded = w.loaded
    BY <1>1, <1>3 DEF Tx
  <1>. HIDE DEF v
  <1>. QED  BY <1>1, <1>4, <1>5, EditorCommits

LEMMA DeskStep == TypeInv /\ DeskInv /\ [ScoutNext]_scoutVars => DeskInv' /\ StepOK
  <1>. SUFFICES ASSUME TypeInv, DeskInv, [ScoutNext]_scoutVars PROVE DeskInv' /\ StepOK
    OBVIOUS
  <1>1. CASE UNCHANGED <<trends, requests, tx, ids, overlapped>>
    <2>1. Committed' = Committed /\ StepOK /\ Busy' = Busy
      BY <1>1, CommittedSteady DEF Busy
    <2>2. Alone' = Alone
      BY <1>1, <2>1 DEF Alone
    <2>. QED  BY <1>1, <2>1, <2>2 DEF DeskInv
  <1>2. ASSUME NEW s \in Processes, Rollback(s) PROVE DeskInv' /\ StepOK
    <2>1. s \in Busy /\ tx' = [tx EXCEPT ![s] = NoTx] /\ ids' = ids
          /\ UNCHANGED <<trends, requests, overlapped>>
      BY <1>2 DEF Rollback, Busy
    <2>. QED  BY <2>1, AloneRollsBack
  <1>3. ASSUME NEW e \in Editors, EditorStep(e) PROVE DeskInv' /\ StepOK
    BY <1>3, EditorStartsAlone, AddManualAlone, FinishManualAlone, TriggerAlone, ApproveAlone,
       DeclineAlone, CloseAlone, WorkAlone, DismissAlone, Zenon DEF EditorStep
  <1>4. CASE UNCHANGED scoutVars \/ (\E t \in TrendIds : Perish(t))
             \/ (\E k \in Clusters : WindowPasses(k))
    BY <1>1, <1>4 DEF scoutVars, Perish, WindowPasses
  <1>. QED  BY <1>2, <1>3, <1>4, ScanStepAlone DEF ScoutNext

LEMMA DeskInvariant == ScoutSpec => [](TypeInv /\ DeskInv)
  <1>1. ScoutInit => DeskInv
    <2>. SUFFICES ASSUME ScoutInit PROVE DeskInv
      OBVIOUS
    <2>1. \A t \in TrendIds : Committed.trends[t] = NoTrendRow
      BY DEF ScoutInit, Committed, NoRows
    <2>2. \A p \in RequestIds : Committed.requests[p] = NoRequestRow
      BY DEF ScoutInit, Committed, NoRows
    <2>3. NoTrendRow.status = Absent /\ NoRequestRow.status = Absent
      BY DEF NoTrendRow, NoRequestRow
    <2>4. RowsOK(Committed)
      BY <2>1, <2>2, <2>3 DEF RowsOK, Keyed, OnlyNewestOpen, Owned, OneLive, Aligned, LiveRequest,
                              Reached, Absent
    <2>5. BuildsOnly(Committed, NoTrend) /\ Numbered(Committed, ids)
      BY <2>1, <2>2, <2>3 DEF BuildsOnly, Numbered, Absent
    <2>6. Busy = {}
      BY NoTxTyped DEF ScoutInit, Busy
    <2>. QED  BY <2>4, <2>5, <2>6 DEF DeskInv, Alone
  <1>. QED  BY <1>1, DeskStep, ScoutTypeInvariant, PTL DEF ScoutSpec

\* However often a cluster is detected, added by hand, dismissed and detected again, it is one
\* open trend (upsert), and a trend has one open request (create), as long as no two
\* transactions overlap.
THEOREM OneOpenEachCorrect == ScoutSpec => []OneOpenEach
  <1>1. TypeInv /\ DeskInv => OneOpenEach
    <2>. SUFFICES ASSUME TypeInv, DeskInv, ~overlapped PROVE OneOpenEach
      BY DEF OneOpenEach
    <2>1. RowsOK(Committed) /\ Committed.trends = trends /\ Committed.requests = requests
      BY DEF DeskInv, Committed
    <2>2. ASSUME NEW t \in TrendIds, NEW u \in TrendIds, t < u, trends[t].key = trends[u].key
          PROVE  ~(trends[t].status \in TrendOpen /\ trends[u].status \in TrendOpen)
      BY <2>1, <2>2 DEF RowsOK, OnlyNewestOpen, TrendOpen, DedupSkip, Absent
    <2>3. ASSUME NEW t \in TrendIds, NEW u \in TrendIds, t # u, trends[t].key = trends[u].key
          PROVE  ~(trends[t].status \in TrendOpen /\ trends[u].status \in TrendOpen)
      <3>1. t < u \/ u < t
        BY <2>3 DEF TrendIds
      <3>. QED  BY <2>2, <2>3, <3>1
    <2>4. ASSUME NEW p \in RequestIds, NEW q \in RequestIds, p # q,
                 requests[p].trend = requests[q].trend
          PROVE  ~(requests[p].status \in PipelineOpen /\ requests[q].status \in PipelineOpen)
      <3>1. \A i \in RequestIds : requests[i].status \in PipelineOpen
                                    => requests[i].status \in LiveRequest
        BY <2>1 DEF RowsOK, Owned, Reached, PipelineOpen, LiveRequest, Absent
      <3>. QED  BY <2>1, <2>4, <3>1 DEF RowsOK, OneLive
    <2>. QED  BY <2>3, <2>4 DEF OneOpenEach
  <1>. QED  BY <1>1, DeskInvariant, PTL

\* A request that waits for approval has a trend that can be approved, unless the trend was
\* dismissed under it.
THEOREM PendingIsAliveCorrect == ScoutSpec => []PendingIsAlive
  <1>1. TypeInv /\ DeskInv => PendingIsAlive
    BY DEF DeskInv, RowsOK, Owned, Aligned, BuildsOnly, Committed, PendingIsAlive, TrendIds, NoTrend,
           Absent
  <1>. QED  BY <1>1, DeskInvariant, PTL

\* A request whose content is being generated has a trend that is approved, unless the trend
\* was dismissed under it: it does not expire and is not proposed again meanwhile.
THEOREM WorkIsWantedCorrect == ScoutSpec => []WorkIsWanted
  <1>1. TypeInv /\ DeskInv => WorkIsWanted
    BY DEF DeskInv, RowsOK, Aligned, Committed, WorkIsWanted
  <1>. QED  BY <1>1, DeskInvariant, PTL

\* What the scout proposes stays within the cap on open requests and was, before its scan, a
\* trend that nobody had acted on and that was not suppressed.
THEOREM ScoutHoldsBackCorrect == ScoutSpec => ScoutHoldsBack
  <1>. DEFINE A == ~overlapped' => \A p \in RequestIds : Proposed(p) =>
                     LET t == requests'[p].trend
                     IN  /\ OpenCount(requests') <= MaxOpen
                         /\ trends[t].status \in {Absent, "detected"}
                         /\ ~trends[t].suppressed
  <1>1. TypeInv /\ DeskInv /\ [ScoutNext]_scoutVars => [A]_scoutVars
    <2>. SUFFICES ASSUME TypeInv, DeskInv, [ScoutNext]_scoutVars PROVE A
      OBVIOUS
    <2>1. StepOK
      BY DeskStep
    <2>. SUFFICES ASSUME ~overlapped', NEW p \in RequestIds, Proposed(p)
                  PROVE  LET t == requests'[p].trend
                         IN  /\ OpenCount(requests') <= MaxOpen
                             /\ trends[t].status \in {Absent, "detected"}
                             /\ ~trends[t].suppressed
      OBVIOUS
    <2>. QED  BY <2>1 DEF StepOK, HeldBack, Free, Proposed, Committed
  <1>. QED  BY <1>1, DeskInvariant, PTL DEF ScoutSpec, ScoutHoldsBack

\* Dismissed, declined, expired and completed are final for a trend, declined, expired and
\* closed for its request.
THEOREM FinalIsFinalCorrect == ScoutSpec => FinalIsFinal
  <1>. DEFINE A == ~overlapped' =>
                     /\ \A t \in TrendIds : trends[t].status \in DedupSkip
                                              => trends'[t].status = trends[t].status
                     /\ \A p \in RequestIds : requests[p].status \in PipelineTerminal
                                                => requests'[p].status = requests[p].status
  <1>1. TypeInv /\ DeskInv /\ [ScoutNext]_scoutVars => [A]_scoutVars
    <2>. SUFFICES ASSUME TypeInv, DeskInv, [ScoutNext]_scoutVars PROVE A
      OBVIOUS
    <2>1. StepOK
      BY DeskStep
    <2>. QED  BY <2>1 DEF StepOK, KeepsFinal, Committed
  <1>. QED  BY <1>1, DeskInvariant, PTL DEF ScoutSpec, FinalIsFinal

=============================================================================
