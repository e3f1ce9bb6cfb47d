------------------------ MODULE ContentPipeline_proofs -------------------------
(***************************************************************************)
(* Theorems about ContentPipeline, for any jobs, workers, requests and     *)
(* bounds.  The first part does not depend on how many transactions        *)
(* overlap; the second is about those that do not.                         *)
(***************************************************************************)
EXTENDS ContentPipeline, FiniteSetTheorems, TLAPS

\* The statuses of the three tables.
LEMMA Statuses ==
  /\ JobStatus = {"queued", "running", "preview_ready", "approved", "rejected", "failed",
                  "published", "cancelled", "absent"}
  /\ PipelineStatus = {"pending_approval", "approved", "generating", "previews_ready",
                       "partially_published", "published", "failed", "declined", "expired",
                       "closed"}
  /\ TrendStatus = {"detected", "dossier_building", "proposed", "approved", "dismissed",
                    "declined", "expired", "completed"}
  BY DEF JobStatus, PipelineStatus, TrendStatus, JobNext, PipelineNext, TrendNext

\* A roll-up leaves a pipeline status.
LEMMA RollupTyped ==
  ASSUME NEW p \in PipelineStatus, NEW S
  PROVE  Rollup(p, S) \in PipelineStatus
  BY Statuses DEF Rollup, Derived

--------------------------------------------------------------------------------
(***************************************************************************)
(* Types                                                                   *)
(***************************************************************************)

USE DEF Sessions

LEMMA BlankTyped == BlankRow \in Row /\ BlankView \in View
  BY PipelineAssumption, Statuses DEF BlankRow, BlankView, Row, View, Attempts, Absent

LEMMA IdleTyped == IdleSession \in Session
  BY BlankTyped DEF IdleSession, Session, Ops

\* What a session loads is typed.
LEMMA LoadingTyped ==
  ASSUME TypeOK, NEW op \in Ops, NEW j \in Jobs \cup {NoJob}, NEW R
  PROVE  Loading(op, j, R) \in Session
  <1>1. Snapshot(R) \in View
    BY BlankTyped DEF TypeOK, Snapshot, View
  <1>. QED  BY <1>1 DEF Loading, Session

\* A flushed session is typed if the view it flushes is.
LEMMA FlushTyped ==
  ASSUME TypeOK, NEW s \in Sessions, NEW view \in View, Flush(s, view)
  PROVE  session' \in [Sessions -> Session]
  BY DEF TypeOK, Flush, FlushAs, Session

\* A commit writes typed rows over typed rows.
LEMMA WrittenTyped ==
  ASSUME NEW now \in Row, NEW loaded \in Row, NEW mine \in Row
  PROVE  Written(now, loaded, mine) \in Row
  BY DEF Written, Column, Row

LEMMA RolledUpTyped ==
  ASSUME NEW view \in View, NEW j, NEW row \in Row
  PROVE  RolledUp(view, j, row) \in View
  BY RollupTyped DEF RolledUp, View

\* The job a row operation is about is a job.
AboutJob == \A s \in Sessions :
  session[s].op \in {"generate", "recover", "review", "regenerate", "publish"}
    => session[s].job \in Jobs

TypeInv == TypeOK /\ AboutJob

LEMMA TypeInit == Init => TypeInv
  BY BlankTyped, IdleTyped, Statuses, PipelineAssumption
  DEF Init, TypeInv, TypeOK, AboutJob, IdleSession

\* Beginning a session preserves the types.
LEMMA BeginTyped ==
  ASSUME TypeInv, NEW s \in Sessions, NEW op \in Ops, NEW j \in Jobs \cup {NoJob}, NEW R,
         op \in {"generate", "recover", "review", "regenerate", "publish"} => j \in Jobs,
         session' = [session EXCEPT ![s] = Loading(op, j, R)]
  PROVE  session' \in [Sessions -> Session] /\ AboutJob'
  BY LoadingTyped DEF TypeInv, TypeOK, AboutJob, Loading

\* Closing one, too.
LEMMA IdlingTyped ==
  ASSUME TypeInv, NEW s \in Sessions, session' = [session EXCEPT ![s] = IdleSession]
  PROVE  session' \in [Sessions -> Session] /\ AboutJob'
  BY IdleTyped DEF TypeInv, TypeOK, AboutJob, IdleSession

\* And flushing one: what it is about does not change.
LEMMA FlushingTyped ==
  ASSUME TypeInv, NEW s \in Sessions, NEW view \in View, Flush(s, view)
  PROVE  session' \in [Sessions -> Session] /\ AboutJob'
  <1>1. session' \in [Sessions -> Session]
    BY FlushTyped DEF TypeInv
  <1>2. \A u \in Sessions : session'[u].op = session[u].op /\ session'[u].job = session[u].job
    BY DEF TypeInv, TypeOK, Flush, FlushAs, Session
  <1>. QED  BY <1>1, <1>2 DEF TypeInv, AboutJob

LEMMA SweepTyped ==
  ASSUME TypeInv, NEW w \in Workers, Sweep(w)
  PROVE  TypeInv'
  <1>. USE DEF TypeInv, TypeOK
  <1>. DEFINE free   == Jobs \ LockedRows(w)
              queued == InStatus("queued") \cap free
              stuck  == Resumed(InStatus("running") \cap lapsed \cap free)
              dead   == Reaped(InStatus("running") \cap lapsed \cap free)
              new    == [j \in Jobs |-> IF j \in queued THEN "running"
                                       ELSE IF j \in dead THEN "failed" ELSE job[j].status]
              rolled == Rollup(pipe, {new[j] : j \in Jobs} \ {Absent})
              ses    == Loading("sweep", NoJob, queued \cup stuck \cup dead)
              rows   == [j \in Jobs |-> IF j \in queued \cup dead
                                       THEN [job[j] EXCEPT !.status = new[j]]
                                       ELSE ses.mine.rows[j]]
              next   == [ses EXCEPT !.mine.pipe = IF dead = {} THEN pipe ELSE rolled,
                                    !.mine.rows = rows]
  <1>1. ses \in Session
    BY LoadingTyped DEF Ops
  <1>2. rows \in [Jobs -> Row]
    <2>1. \A j \in Jobs : new[j] \in JobStatus
      BY Statuses DEF Row
    <2>2. \A j \in Jobs : [job[j] EXCEPT !.status = new[j]] \in Row
      BY <2>1 DEF Row
    <2>3. \A j \in Jobs : ses.mine.rows[j] \in Row
      BY <1>1 DEF Session, View
    <2>. QED  BY <2>2, <2>3
  <1>3. (IF dead = {} THEN pipe ELSE rolled) \in PipelineStatus
    BY RollupTyped
  <1>. HIDE DEF rows, rolled, dead, queued, stuck
  <1>4. next \in Session /\ next.op = "sweep"
    BY <1>1, <1>2, <1>3 DEF Session, View, Loading
  <1>5. session' = [session EXCEPT ![w] = [next EXCEPT !.phase = "flushed"]]
    BY DEF Sweep, FlushAs, rows, rolled, dead, queued, stuck
  <1>. HIDE DEF next
  <1>6. session' \in [Sessions -> Session]
    BY <1>4, <1>5 DEF Session
  <1>7. AboutJob'
    BY <1>4, <1>5 DEF AboutJob, Session
  <1>8. queued \cup stuck \in SUBSET Jobs
    BY DEF queued, stuck, Resumed, InStatus
  <1>9. todo' \in [Workers -> SUBSET Jobs]
    BY <1>8 DEF Sweep, queued, stuck
  <1>. QED  BY <1>6, <1>7, <1>9 DEF Sweep

LEMMA CommitTyped ==
  ASSUME TypeInv, NEW s \in Sessions, Commit(s)
  PROVE  TypeInv'
  <1>. USE DEF TypeInv, TypeOK
  <1>1. session[s].loaded \in View /\ session[s].mine \in View
    BY DEF Session
  <1>2. trend' \in TrendStatus /\ pipe' \in PipelineStatus
    BY <1>1 DEF Commit, Column, View
  <1>3. job' \in [Jobs -> Row]
    <2>1. \A j \in Jobs : Written(job[j], session[s].loaded.rows[j], session[s].mine.rows[j])
                            \in Row
      BY <1>1, WrittenTyped DEF View
    <2>. QED  BY <2>1 DEF Commit
  <1>4. reviewed' \in [Jobs -> 0 .. MaxAttempt]
    <2>1. \A j \in Jobs : session[s].loaded.rows[j].attempt \in 0 .. MaxAttempt
      BY <1>1, PipelineAssumption DEF View, Row, Attempts
    <2>. QED  BY <2>1 DEF Commit
  <1>5. approvals' \in Nat /\ lapsed' \in SUBSET Jobs
    BY DEF Commit
  <1>6. session' \in [Sessions -> Session] /\ AboutJob'
    BY IdlingTyped DEF Commit
  <1>. QED  BY <1>2, <1>3, <1>4, <1>5, <1>6 DEF Commit

LEMMA WorkerTyped ==
  ASSUME TypeInv, NEW w \in Workers, WorkerStep(w)
  PROVE  TypeInv'
  <1>. USE DEF TypeInv, TypeOK
  <1>. DEFINE j   == session[w].job
              row == session[w].mine.rows[j]
  <1>a. session[w] \in Session /\ session[w].loaded \in View /\ session[w].mine \in View
    BY DEF Session
  <1>b. ASSUME session[w].op \in {"generate", "recover"}
        PROVE  j \in Jobs /\ row \in Row /\ session[w].loaded.rows[j] \in Row
    BY <1>a, <1>b DEF AboutJob, View
  <1>c. ASSUME Recovering(w), session[w].op = "generate"  
        PROVE  session' \in [Sessions -> Session] /\ AboutJob'
    BY <1>b, <1>c, BeginTyped DEF Recovering, Ops
  <1>1. CASE Sweep(w)
    BY <1>1, SweepTyped
  <1>2. ASSUME NEW i \in Jobs, StartJob(w, i)  PROVE  TypeInv'
    BY <1>2, BeginTyped DEF StartJob, Begin, Ops
  <1>3. CASE Intake(w)
    <2>1. session[w].loaded.rows[j].attempt \in 0 .. MaxAttempt
      BY <1>3, <1>b, PipelineAssumption DEF Intake, Doing, Row, Attempts
    <2>2. [row EXCEPT !.topic = session[w].loaded.rows[j].attempt] \in Row
      BY <2>1, <1>3, <1>b DEF Intake, Doing, Row
    <2>. DEFINE out  == [row EXCEPT !.topic = session[w].loaded.rows[j].attempt]
                view == [session[w].mine EXCEPT !.rows = [@ EXCEPT ![j] = out]]
    <2>3. session' = [session EXCEPT ![w] = [@ EXCEPT !.mine = view]]
      BY <1>3, <1>a, <1>b DEF Intake, Doing, Session, View, Row
    <2>6. view \in View
      BY <2>2, <1>a DEF View
    <2>. HIDE DEF view
    <2>4. session' \in [Sessions -> Session]
      BY <2>3, <2>6, <1>a DEF Session
    <2>5. AboutJob'
      BY <2>3, <1>a DEF AboutJob, Session
    <2>7. intakes' \in [Jobs -> Nat]
      <3>1. intakes' = [intakes EXCEPT ![j] = @ + 1] /\ j \in Jobs
        BY <1>3, <1>b DEF Intake, Doing
      <3>. QED  BY <3>1
    <2>8. overdue' \in SUBSET Jobs
      BY <1>3 DEF Intake
    <2>. QED  BY <1>3, <2>4, <2>5, <2>7, <2>8 DEF Intake
  <1>4. CASE Pending(w)
    BY <1>4, <1>a, FlushingTyped DEF Pending
  <1>5. CASE Preview(w)
    <2>. DEFINE draft == IF j \in HcvJobs THEN row.topic ELSE row.attempt
                out == [row EXCEPT !.status = "preview_ready", !.content = draft]
    <2>0. row \in Row
      BY <1>5, <1>b DEF Preview, Doing
    <2>1. draft \in 0 .. MaxAttempt
      BY <2>0, PipelineAssumption DEF Row, Attempts
    <2>2. out \in Row
      BY <2>0, <2>1, Statuses DEF Row
    <2>. QED  BY <1>5, <2>2, <1>a, RolledUpTyped, FlushingTyped DEF Preview
  <1>6. CASE GenerationFails(w)
    <2>1. PICK keep \in BOOLEAN : Flush(w, RolledUp(session[w].mine, j,
             [row EXCEPT !.status = "failed",
                         !.topic = IF keep THEN @ ELSE session[w].loaded.rows[j].topic]))
      BY <1>6 DEF GenerationFails
    <2>. DEFINE out == [row EXCEPT !.status = "failed",
                         !.topic = IF keep THEN @ ELSE session[w].loaded.rows[j].topic]
    <2>2. out \in Row
      BY <1>6, <1>b, Statuses DEF GenerationFails, Doing, Row
    <2>. QED  BY <1>6, <2>1, <2>2, <1>a, RolledUpTyped, FlushingTyped DEF GenerationFails
  <1>7. CASE Refused(w)
    BY <1>7, <1>c DEF Refused, Doing, Recovering
  <1>8. CASE MarkFailed(w)
    <2>1. [row EXCEPT !.status = "failed"] \in Row
      BY <1>8, <1>b, Statuses DEF MarkFailed, Doing, Row
    <2>. QED  BY <1>8, <2>1, <1>a, RolledUpTyped, FlushingTyped, IdlingTyped DEF MarkFailed
  <1>9. CASE JobRaises(w)
    BY <1>9, <1>c DEF JobRaises, Fault, Recovering
  <1>10. CASE Die(w)
    <2>1. session' \in [Sessions -> Session] /\ AboutJob'
      BY <1>10, IdlingTyped DEF Die
    <2>2. todo' \in [Workers -> SUBSET Jobs] /\ faults' \in Nat
      BY <1>10 DEF Die, Fault
    <2>. QED  BY <1>10, <2>1, <2>2 DEF Die
  <1>. QED  BY <1>1, <1>2, <1>3, <1>4, <1>5, <1>6, <1>7, <1>8, <1>9, <1>10 DEF WorkerStep

LEMMA RequestTyped ==
  ASSUME TypeInv, NEW r \in Requests, RequestStep(r)
  PROVE  TypeInv'
  <1>. USE DEF TypeInv, TypeOK
  <1>. DEFINE j    == session[r].job
              row  == session[r].mine.rows[j]
              view == session[r].mine
  <1>a. view \in View
    BY DEF Session
  <1>b. ASSUME session[r].op \in {"review", "regenerate", "publish"}
        PROVE  j \in Jobs /\ row \in Row
    BY <1>a, <1>b DEF AboutJob, View
  \* A request that only moves its session, and the pushes it may have made, is typed.
  <1>c. ASSUME session' \in [Sessions -> Session] /\ AboutJob', AtRest,
               pushes' \in [Jobs -> Nat]
        PROVE  TypeInv'
    BY <1>c DEF AtRest
  <1>d. ASSUME NEW new \in View, Flush(r, new), AtRest, UNCHANGED pushes  PROVE  TypeInv'
    BY <1>c, <1>d, FlushingTyped
  <1>1. ASSUME NEW op \in {"approve", "decline", "close", "dismiss", "expire"},
               RequestOnPipeline(r, op)
        PROVE  TypeInv'
    <2>1. session' \in [Sessions -> Session] /\ AboutJob'
      BY <1>1, BeginTyped DEF RequestOnPipeline, Begin, Ops
    <2>. QED  BY <1>1, <2>1, <1>c DEF RequestOnPipeline
  <1>2. ASSUME NEW op \in {"review", "regenerate", "publish"}, NEW i \in Jobs,
               RequestOnJob(r, op, i)
        PROVE  TypeInv'
    <2>1. session' \in [Sessions -> Session] /\ AboutJob'
      BY <1>2, BeginTyped DEF RequestOnJob, Begin, Ops
    <2>. QED  BY <1>2, <2>1, <1>c DEF RequestOnJob
  <1>3. CASE Approve(r)
    <2>1. [view EXCEPT !.pipe = "approved"] \in View
      BY <1>a, Statuses DEF View
    <2>2. ASSUME NEW new \in SUBSET Jobs
          PROVE  [trend |-> IF TrendMay(view.trend, "approved") THEN "approved" ELSE view.trend,
                  pipe  |-> "generating",
                  rows  |-> [i \in Jobs |-> IF i \in new
                                            THEN [BlankRow EXCEPT !.status = "queued"]
                                            ELSE view.rows[i]]] \in View
      <3>1. [BlankRow EXCEPT !.status = "queued"] \in Row
        BY BlankTyped, Statuses DEF Row
      <3>. QED  BY <1>a, <3>1, Statuses DEF View
    <2>3. (InStatus(Absent) \ LockedRows(r)) \in SUBSET Jobs
      BY DEF InStatus
    <2>. QED  BY <1>3, <2>1, <2>2, <2>3, <1>d DEF Approve
  <1>4. CASE Decline(r)
    <2>1. [view EXCEPT !.pipe = "declined",
                       !.trend = IF @ = "proposed" THEN "declined" ELSE @] \in View
      BY <1>a, Statuses DEF View
    <2>. QED  BY <1>4, <2>1, <1>d DEF Decline
  <1>5. CASE Close(r)
    <2>. DEFINE rows == [i \in Jobs |-> IF view.rows[i].status \in Spared THEN view.rows[i]
                                       ELSE [view.rows[i] EXCEPT !.status = "cancelled"]]
    <2>1. rows \in [Jobs -> Row]
      <3>1. \A i \in Jobs : view.rows[i] \in Row
        BY <1>a DEF View
      <3>2. \A i \in Jobs : [view.rows[i] EXCEPT !.status = "cancelled"] \in Row
        BY <3>1, Statuses DEF Row
      <3>. QED  BY <3>1, <3>2
    <2>. HIDE DEF rows
    <2>2. [view EXCEPT !.pipe = "closed", !.rows = rows] \in View
      BY <1>a, <2>1, Statuses DEF View
    <2>. QED  BY <1>5, <2>2, <1>d DEF Close, rows
  <1>6. CASE Dismiss(r)
    <2>1. [view EXCEPT !.trend = "dismissed"] \in View
      BY <1>a, Statuses DEF View
    <2>. QED  BY <1>6, <2>1, <1>d DEF Dismiss
  <1>7. CASE Expire(r)
    <2>. DEFINE pending == pipe = "pending_approval"
    <2>1. [view EXCEPT !.trend = "expired",
                       !.pipe = IF pending THEN "expired" ELSE @] \in View
      BY <1>a, Statuses DEF View
    <2>. QED  BY <1>7, <2>1, <1>d DEF Expire
  <1>8. CASE Review(r)
    <2>1. \E verdict \in {"approved", "rejected"} \cap JobNext[row.status] :
            Flush(r, RolledUp(view, j, [row EXCEPT !.status = verdict]))
      BY <1>8 DEF Review
    <2>2. ASSUME NEW verdict \in {"approved", "rejected"}
          PROVE  RolledUp(view, j, [row EXCEPT !.status = verdict]) \in View
      <3>1. [row EXCEPT !.status = verdict] \in Row
        BY <1>8, <1>b, Statuses DEF Review, Doing, Row
      <3>. QED  BY <3>1, <1>a, RolledUpTyped
    <2>. QED  BY <1>8, <2>1, <2>2, <1>d DEF Review
  <1>9. CASE Regenerate(r)
    <2>. DEFINE drafts == row.archived \cup ({row.content} \ {0})
                out    == [row EXCEPT !.status = "queued", !.attempt = @ + 1, !.content = 0,
                                      !.archived = drafts]
    <2>0. row \in Row /\ row.attempt < MaxAttempt
      BY <1>9, <1>b DEF Regenerate, Doing
    <2>1. row.attempt + 1 \in Attempts /\ 0 \in 0 .. MaxAttempt
      BY <2>0, PipelineAssumption DEF Row, Attempts
    <2>2. drafts \in SUBSET Attempts
      BY <2>0, PipelineAssumption DEF Row, Attempts
    <2>3. out \in Row
      BY <2>0, <2>1, <2>2, Statuses DEF Row
    <2>. QED  BY <1>9, <2>3, <1>a, <1>d, RolledUpTyped DEF Regenerate
  <1>10. CASE Publish(r)
    <2>. DEFINE done == RolledUp(view, j, [row EXCEPT !.status = "published"])
    <2>1. [row EXCEPT !.status = "published"] \in Row /\ j \in Jobs
      BY <1>10, <1>b, Statuses DEF Publish, Doing, Row
    <2>2. done \in View
      BY <2>1, <1>a, RolledUpTyped
    <2>3. [done EXCEPT !.trend = "completed"] \in View
      BY <2>2, Statuses DEF View
    <2>4. pushes' \in [Jobs -> Nat]
      <3>1. pushes' = [pushes EXCEPT ![j] = @ + 1]
        BY <1>10 DEF Publish
      <3>. QED  BY <2>1, <3>1
    <2>5. session' \in [Sessions -> Session] /\ AboutJob'
      BY <1>10, <2>2, <2>3, FlushingTyped, IdlingTyped DEF Publish
    <2>. QED  BY <1>10, <2>4, <2>5, <1>c DEF Publish
  <1>11. CASE Abort(r)
    <2>1. session' \in [Sessions -> Session] /\ AboutJob'
      BY <1>11, IdlingTyped DEF Abort
    <2>2. faults' \in Nat
      BY <1>11 DEF Abort, Fault
    <2>. QED  BY <1>11, <2>1, <2>2 DEF Abort
  <1>. QED  BY <1>1, <1>2, <1>3, <1>4, <1>5, <1>6, <1>7, <1>8, <1>9, <1>10, <1>11
            DEF RequestStep

LEMMA TypeNext == TypeInv /\ [Next]_vars => TypeInv'
  <1>. SUFFICES ASSUME TypeInv, [Next]_vars  PROVE TypeInv'
    OBVIOUS
  <1>1. ASSUME NEW w \in Workers, WorkerStep(w)  PROVE TypeInv'
    BY <1>1, WorkerTyped
  <1>2. ASSUME NEW r \in Requests, RequestStep(r)  PROVE TypeInv'
    BY <1>2, RequestTyped
  <1>3. ASSUME NEW s \in Sessions, Commit(s)  PROVE TypeInv'
    BY <1>3, CommitTyped
  <1>4. ASSUME NEW j \in Jobs, Lapse(j) \/ Deadline(j)  PROVE TypeInv'
    BY <1>4 DEF Lapse, Deadline, TypeInv, TypeOK, AboutJob
  <1>5. CASE UNCHANGED vars
    BY <1>5 DEF vars, TypeInv, TypeOK, AboutJob
  <1>. QED  BY <1>1, <1>2, <1>3, <1>4, <1>5 DEF Next

LEMMA TypeInvariant == Spec => []TypeInv
  BY TypeInit, TypeNext, PTL DEF Spec

\* Every reachable state is typed: whatever the workers and the requests write, the rows
\* hold statuses of the tables and attempts within their bound.
THEOREM TypeCorrect == Spec => []TypeOK
  BY TypeInvariant, PTL DEF TypeInv
--------------------------------------------------------------------------------
(***************************************************************************)
(* The human gates                                                         *)
(*                                                                         *)
(* HumanGates speaks of committed rows, which sessions overwrite from rows *)
(* they loaded any time ago.  What makes it inductive is what every open   *)
(* session knows of the rows it holds: a row it loaded existed and exists, *)
(* a loaded "approved" was cleared, a loaded "published" went out, and     *)
(* only a review of this very job writes "approved" without that.          *)
(***************************************************************************)

RowGated(j) ==
  /\ job[j].status # Absent => approvals > 0
  /\ job[j].status = "approved" => reviewed[j] # 0
  /\ job[j].status = "published" => pushes[j] > 0
  /\ pushes[j] > 0 => reviewed[j] # 0

SessionGated(ses, j) ==
  LET was == ses.loaded.rows[j].status
      is  == ses.mine.rows[j].status
  IN  /\ was # Absent => job[j].status # Absent /\ is # Absent
      /\ was = "approved" => reviewed[j] # 0
      /\ was = "published" => pushes[j] > 0
      /\ was = Absent /\ ses.op # "approve" => is = Absent
      /\ is = "approved" => reviewed[j] # 0 \/ (ses.op = "review" /\ ses.job = j)
      /\ is = "published" => pushes[j] > 0
      /\ ses.op = "publish" /\ ses.job = j => was = "approved"
      /\ ses.op = "regenerate" /\ ses.job = j => was # Absent

GateInv ==
  /\ \A j \in Jobs : RowGated(j)
  /\ \A s \in Sessions, j \in Jobs : SessionGated(session[s], j)

\* The history and the rows are as they were, but for session s.
OnlySession(s) ==
  /\ UNCHANGED <<job, approvals, reviewed, pushes>>
  /\ \A u \in Sessions \ {s} : session'[u] = session[u]

\* A step that only moves one session keeps the gates if what that session holds fits.
LEMMA MoveGated ==
  ASSUME GateInv, NEW s \in Sessions, OnlySession(s),
         \A j \in Jobs : SessionGated(session'[s], j)
  PROVE  GateInv'
  <1>1. ASSUME NEW j \in Jobs  PROVE  RowGated(j)'
    BY DEF GateInv, OnlySession, RowGated
  <1>2. ASSUME NEW u \in Sessions, NEW j \in Jobs  PROVE  SessionGated(session[u], j)'
    <2>1. CASE u = s
      BY <2>1 DEF OnlySession, SessionGated
    <2>2. CASE u # s
      BY <2>2 DEF GateInv, OnlySession, SessionGated
    <2>. QED  BY <2>1, <2>2
  <1>. QED  BY <1>1, <1>2 DEF GateInv

\* What a session just loaded fits.
LEMMA LoadGated ==
  ASSUME TypeInv, GateInv, NEW op, NEW i, NEW R, NEW j \in Jobs,
         op = "publish" /\ i = j => j \in R /\ job[j].status = "approved",
         op = "regenerate" /\ i = j => j \in R /\ job[j].status # Absent
  PROVE  SessionGated(Loading(op, i, R), j)
  <1>. DEFINE row == Snapshot(R).rows[j]
  <1>1. row.status = IF j \in R THEN job[j].status ELSE Absent
    BY DEF Snapshot, BlankRow
  <1>2. RowGated(j)
    BY DEF GateInv
  <1>3. /\ Loading(op, i, R).loaded.rows[j].status = row.status
        /\ Loading(op, i, R).mine.rows[j].status = row.status
        /\ Loading(op, i, R).op = op /\ Loading(op, i, R).job = i
    BY DEF Loading
  <1>. HIDE DEF row
  <1>. QED  BY <1>1, <1>2, <1>3 DEF SessionGated, RowGated, Absent

\* A session that holds nothing fits.
LEMMA IdleGated == \A j \in Jobs : SessionGated(IdleSession, j)
  BY DEF SessionGated, IdleSession, BlankView, BlankRow, Absent

LEMMA IdlingGated ==
  ASSUME TypeInv, GateInv, NEW s \in Sessions, session' = [session EXCEPT ![s] = IdleSession],
         UNCHANGED <<job, approvals, reviewed, pushes>>
  PROVE  GateInv'
  <1>1. session'[s] = IdleSession /\ OnlySession(s)
    BY DEF TypeInv, TypeOK, OnlySession
  <1>2. \A j \in Jobs : SessionGated(session'[s], j)
    BY <1>1, IdleGated
  <1>. QED  BY <1>1, <1>2, MoveGated

\* A session flushes a view that fits.
LEMMA FlushGated ==
  ASSUME TypeInv, GateInv, NEW s \in Sessions, NEW view \in View, Flush(s, view),
         UNCHANGED <<job, approvals, reviewed, pushes>>,
         \A j \in Jobs : SessionGated([session[s] EXCEPT !.mine = view], j)
  PROVE  GateInv'
  <1>1. OnlySession(s)
    BY DEF TypeInv, TypeOK, OnlySession, Flush, FlushAs
  <1>2. session'[s] = [[session[s] EXCEPT !.mine = view] EXCEPT !.phase = "flushed"]
    BY DEF TypeInv, TypeOK, Flush, FlushAs
  <1>3. \A j \in Jobs : SessionGated(session'[s], j)
    BY <1>2 DEF SessionGated, TypeInv, TypeOK, Session
  <1>. QED  BY <1>1, <1>3, MoveGated

\* Flushing a new row for the job the session is about, rolled up.
LEMMA RolledGated ==
  ASSUME TypeInv, GateInv, NEW s \in Sessions, NEW row \in Row,
         session[s].job \in Jobs,
         session[s].mine.rows[session[s].job].status # Absent,
         row.status # Absent,
         row.status = "approved" => \/ reviewed[session[s].job] # 0
                                    \/ session[s].op = "review",
         row.status = "published" => pushes[session[s].job] > 0,
         session[s].op # "approve",
         NEW j \in Jobs
  PROVE  SessionGated([session[s] EXCEPT
                         !.mine = RolledUp(session[s].mine, session[s].job, row)], j)
  <1>. DEFINE ses == session[s]
              new == [ses EXCEPT !.mine = RolledUp(ses.mine, ses.job, row)]
  <1>1. SessionGated(ses, j)
    BY DEF GateInv
  <1>2. ses \in Session /\ ses.mine \in View
    BY DEF TypeInv, TypeOK, Session
  <1>3. new.loaded = ses.loaded /\ new.op = ses.op /\ new.job = ses.job
    BY <1>2 DEF Session
  <1>4. new.mine.rows[j].status = IF j = ses.job THEN row.status ELSE ses.mine.rows[j].status
    BY <1>2 DEF Session, View, RolledUp
  <1>. HIDE DEF new
  <1>. QED  BY <1>1, <1>3, <1>4 DEF SessionGated, new

\* No transition leads out of a row that does not exist.
LEMMA NothingFromAbsent == \A v : v \notin JobNext[Absent]
  BY DEF JobNext, Absent

\* The sweep's claims are rows that exist, and it makes none of them approved or published.
LEMMA SweepGated ==
  ASSUME TypeInv, GateInv, NEW w \in Workers, Sweep(w)
  PROVE  GateInv'
  <1>. DEFINE free   == Jobs \ LockedRows(w)
              queued == InStatus("queued") \cap free
              stuck  == Resumed(InStatus("running") \cap lapsed \cap free)
              dead   == Reaped(InStatus("running") \cap lapsed \cap free)
              new    == [j \in Jobs |-> IF j \in queued THEN "running"
                                       ELSE IF j \in dead THEN "failed" ELSE job[j].status]
              rolled == Rollup(pipe, {new[j] : j \in Jobs} \ {Absent})
              claims == queued \cup stuck \cup dead
              ses    == Loading("sweep", NoJob, claims)
              rows   == [j \in Jobs |-> IF j \in queued \cup dead
                                       THEN [job[j] EXCEPT !.status = new[j]]
                                       ELSE ses.mine.rows[j]]
              to     == IF dead = {} THEN pipe ELSE rolled
              next   == [ses EXCEPT !.mine.pipe = to, !.mine.rows = rows,
                                    !.phase = "flushed"]
  <1>1. \A j \in Jobs : SessionGated(ses, j)
    BY LoadGated
  <1>2. \A j \in queued \cup dead : job[j].status \in InWork /\ j \in Jobs
    BY DEF InStatus, Reaped, InWork
  <1>3. ses \in Session
    BY LoadingTyped DEF Ops, TypeInv
  <1>4. \A j \in Jobs : rows[j].status = IF j \in queued THEN "running"
                                         ELSE IF j \in dead THEN "failed"
                                         ELSE ses.mine.rows[j].status
    BY DEF TypeInv, TypeOK, Row
  <1>5. \A j \in queued \cup dead : ses.loaded.rows[j].status = job[j].status
    BY <1>2 DEF Loading, Snapshot
  <1>6. ses.op = "sweep"
    BY DEF Loading
  <1>. HIDE DEF rows, to, ses, rolled, dead, queued, stuck, new
  <1>7. next.loaded = ses.loaded /\ next.mine.rows = rows /\ next.op = ses.op
        /\ next.job = ses.job
    BY <1>3 DEF Session, View
  <1>8. session'[w] = next /\ OnlySession(w)
    BY <1>3 DEF Sweep, FlushAs, OnlySession, TypeInv, TypeOK, rows, to, ses, rolled, dead,
                queued, stuck, new
  <1>9. \A j \in Jobs : SessionGated(next, j)
    BY <1>1, <1>2, <1>4, <1>5, <1>6, <1>7 DEF SessionGated, InWork, Absent
  <1>. QED  BY <1>8, <1>9, MoveGated

\* Generations, their failure included, never move a row to "approved" or "published".
LEMMA WorkerGated ==
  ASSUME TypeInv, GateInv, NEW w \in Workers, WorkerStep(w)
  PROVE  GateInv'
  <1>. DEFINE ses == session[w]
              j   == session[w].job
              row == session[w].mine.rows[j]
  <1>a. ses \in Session /\ ses.mine \in View /\ ses.loaded \in View
    BY DEF TypeInv, TypeOK, Session
  <1>b. ASSUME ses.op \in {"generate", "recover"}
        PROVE  j \in Jobs /\ row \in Row /\ ses.loaded.rows[j] \in Row
    BY <1>a, <1>b DEF TypeInv, AboutJob, View
  <1>c. ASSUME Recovering(w), NEW i \in Jobs
        PROVE  GateInv'
    <2>1. session'[w] = Loading("recover", j, {j}) /\ OnlySession(w)
      BY <1>c DEF Recovering, OnlySession, TypeInv, TypeOK
    <2>2. \A k \in Jobs : SessionGated(session'[w], k)
      BY <2>1, LoadGated
    <2>. QED  BY <2>1, <2>2, MoveGated
  <1>d. ASSUME NEW new \in Row, ses.op \in {"generate", "recover"}, row.status # Absent,
               new.status \in {"failed", "preview_ready"},
               Flush(w, RolledUp(ses.mine, j, new)),
               UNCHANGED <<job, approvals, reviewed, pushes>>
        PROVE  GateInv'
    <2>1. RolledUp(ses.mine, j, new) \in View
      BY <1>a, RolledUpTyped
    <2>2. \A k \in Jobs : SessionGated([ses EXCEPT !.mine = RolledUp(ses.mine, j, new)], k)
      BY <1>b, <1>d, RolledGated DEF Absent
    <2>. QED  BY <1>d, <2>1, <2>2, FlushGated
  <1>1. CASE Sweep(w)
    BY <1>1, SweepGated
  <1>2. ASSUME NEW i \in Jobs, StartJob(w, i)  PROVE  GateInv'
    <2>1. session'[w] = Loading("generate", i, {i}) /\ OnlySession(w)
      BY <1>2 DEF StartJob, Begin, OnlySession, TypeInv, TypeOK
    <2>2. \A k \in Jobs : SessionGated(session'[w], k)
      BY <2>1, LoadGated
    <2>. QED  BY <2>1, <2>2, MoveGated
  <1>3. CASE Intake(w)
    <2>. DEFINE out  == [row EXCEPT !.topic = ses.loaded.rows[j].attempt]
                view == [ses.mine EXCEPT !.rows = [@ EXCEPT ![j] = out]]
    <2>1. session'[w] = [ses EXCEPT !.mine = view] /\ OnlySession(w)
      BY <1>3, <1>a, <1>b DEF Intake, Doing, Session, View, Row, OnlySession, TypeInv, TypeOK
    <2>2. ASSUME NEW k \in Jobs  PROVE view.rows[k].status = ses.mine.rows[k].status
      BY <1>3, <1>a, <1>b DEF Intake, Doing, View, Row
    <2>3. ASSUME NEW k \in Jobs  PROVE SessionGated(session'[w], k)
      <3>1. SessionGated(ses, k)
        BY DEF GateInv
      <3>. HIDE DEF view
      <3>2. /\ session'[w].loaded = ses.loaded /\ session'[w].mine = view
            /\ session'[w].op = ses.op /\ session'[w].job = ses.job
        BY <2>1, <1>a DEF Session
      <3>. QED  BY <3>1, <3>2, <2>2 DEF SessionGated
    <2>. QED  BY <2>1, <2>3, MoveGated
  <1>4. CASE Pending(w)
    <2>1. [ses EXCEPT !.mine = ses.mine] = ses
      BY <1>a DEF Session
    <2>2. \A k \in Jobs : SessionGated([ses EXCEPT !.mine = ses.mine], k)
      BY <2>1 DEF GateInv
    <2>. QED  BY <1>4, <1>a, <2>2, FlushGated DEF Pending
  <1>5. CASE Preview(w)
    <2>. DEFINE draft == IF j \in HcvJobs THEN row.topic ELSE row.attempt
                out == [row EXCEPT !.status = "preview_ready", !.content = draft]
    <2>0. ses.op = "generate" /\ row \in Row /\ row.status # Absent
      BY <1>5, <1>b, NothingFromAbsent DEF Preview, Doing
    <2>1. draft \in 0 .. MaxAttempt
      BY <2>0, PipelineAssumption DEF Row, Attempts
    <2>2. out \in Row /\ out.status = "preview_ready"
      BY <2>0, <2>1, Statuses DEF Row
    <2>. QED  BY <1>5, <2>0, <2>2, <1>d DEF Preview
  <1>6. CASE GenerationFails(w)
    <2>0. ses.op = "generate" /\ row \in Row /\ ses.loaded.rows[j] \in Row /\ row.status # Absent
      BY <1>6, <1>b, NothingFromAbsent DEF GenerationFails, Doing
    <2>1. PICK keep \in BOOLEAN : Flush(w, RolledUp(session[w].mine, j,
             [row EXCEPT !.status = "failed",
                         !.topic = IF keep THEN @ ELSE session[w].loaded.rows[j].topic]))
      BY <1>6 DEF GenerationFails
    <2>. DEFINE out == [row EXCEPT !.status = "failed",
                         !.topic = IF keep THEN @ ELSE session[w].loaded.rows[j].topic]
    <2>2. out \in Row /\ out.status = "failed"
      BY <2>0, Statuses DEF Row
    <2>. QED  BY <1>6, <2>0, <2>1, <2>2, <1>d DEF GenerationFails
  <1>7. CASE Refused(w)
    BY <1>7, <1>b, <1>c DEF Refused, Doing
  <1>8. CASE MarkFailed(w)
    <2>0. ses.op = "recover" /\ row \in Row
      BY <1>8, <1>b DEF MarkFailed, Doing
    <2>1. CASE "failed" \in JobNext[row.status]
      <3>1. row.status # Absent
        BY <2>1, NothingFromAbsent
      <3>2. [row EXCEPT !.status = "failed"] \in Row
            /\ [row EXCEPT !.status = "failed"].status = "failed"
        BY <2>0, Statuses DEF Row
      <3>. QED  BY <1>8, <2>0, <2>1, <3>1, <3>2, <1>d DEF MarkFailed
    <2>2. CASE "failed" \notin JobNext[row.status]
      BY <1>8, <2>2, IdlingGated DEF MarkFailed
    <2>. QED  BY <2>1, <2>2
  <1>9. CASE JobRaises(w)
    BY <1>9, <1>b, <1>c DEF JobRaises
  <1>10. CASE Die(w)
    BY <1>10, IdlingGated DEF Die
  <1>. QED  BY <1>1, <1>2, <1>3, <1>4, <1>5, <1>6, <1>7, <1>8, <1>9, <1>10 DEF WorkerStep

LEMMA CommitGated ==
  ASSUME TypeInv, GateInv, NEW s \in Sessions, Commit(s)
  PROVE  GateInv'
  <1>. DEFINE ses == session[s]
  <1>1. ses \in Session /\ ses.loaded \in View /\ ses.mine \in View
    BY DEF TypeInv, TypeOK, Session
  <1>2. ASSUME NEW j \in Jobs
        PROVE  /\ job'[j].status = IF ses.mine.rows[j].status # ses.loaded.rows[j].status
                                   THEN ses.mine.rows[j].status ELSE job[j].status
               /\ reviewed[j] # 0 \/ Approves(ses, j) => reviewed'[j] # 0
               /\ SessionGated(ses, j) /\ RowGated(j)
    <2>1. ses.loaded.rows[j].attempt # 0
      BY <1>1 DEF View, Row, Attempts
    <2>2. reviewed'[j] = IF Approves(ses, j) THEN ses.loaded.rows[j].attempt ELSE reviewed[j]
      BY DEF Commit, TypeInv, TypeOK
    <2>3. job'[j] = Written(job[j], ses.loaded.rows[j], ses.mine.rows[j])
      BY DEF Commit
    <2>. QED  BY <2>1, <2>2, <2>3 DEF Written, Column, GateInv
  <1>3. /\ approvals > 0 => approvals' > 0
        /\ ses.op = "approve" => approvals' > 0
        /\ pushes' = pushes
    BY DEF Commit, TypeInv, TypeOK
  <1>4. ASSUME NEW j \in Jobs  PROVE  RowGated(j)'
    BY <1>2, <1>3 DEF RowGated, SessionGated, Approves
  <1>5. ASSUME NEW u \in Sessions, NEW j \in Jobs  PROVE  SessionGated(session[u], j)'
    <2>1. CASE u = s
      <3>1. session'[u] = IdleSession
        BY <2>1 DEF Commit, TypeInv, TypeOK
      <3>. QED  BY <3>1 DEF SessionGated, IdleSession, BlankView, BlankRow, Absent
    <2>2. CASE u # s
      <3>1. session'[u] = session[u] /\ SessionGated(session[u], j)
        BY <2>2 DEF Commit, GateInv, TypeInv, TypeOK
      <3>2. job[j].status # Absent => job'[j].status # Absent
        BY <1>2 DEF SessionGated
      <3>. QED  BY <1>2, <1>3, <3>1, <3>2 DEF SessionGated
    <2>. QED  BY <2>1, <2>2
  <1>. QED  BY <1>4, <1>5 DEF GateInv

\* What goes out was approved when it was loaded, so it had been cleared.
LEMMA PublishGated ==
  ASSUME TypeInv, GateInv, NEW r \in Requests, Publish(r)
  PROVE  GateInv'
  <1>. DEFINE ses  == session[r]
              j    == session[r].job
              row  == [session[r].mine.rows[j] EXCEPT !.status = "published"]
              view == RolledUp(ses.mine, j, row)
  <1>1. ses \in Session /\ ses.mine \in View /\ ses.op = "publish" /\ j \in Jobs
    BY DEF Publish, Doing, TypeInv, TypeOK, AboutJob, Session
  <1>2. SessionGated(ses, j) /\ RowGated(j)
    BY <1>1 DEF GateInv
  <1>3. reviewed[j] # 0
    BY <1>1, <1>2 DEF SessionGated
  <1>4. pushes' = [pushes EXCEPT ![j] = @ + 1] /\ UNCHANGED <<job, approvals, reviewed>>
    BY DEF Publish, AtRest
  <1>5. \A k \in Jobs : pushes[k] > 0 => pushes'[k] > 0
    BY <1>1, <1>4 DEF TypeInv, TypeOK
  <1>6. pushes'[j] > 0 /\ \A k \in Jobs \ {j} : pushes'[k] = pushes[k]
    BY <1>1, <1>4 DEF TypeInv, TypeOK
  <1>7. row \in Row /\ row.status = "published"
    BY <1>1, Statuses DEF View, Row
  <1>8. view \in View
    BY <1>1, <1>7, RolledUpTyped
  <1>9. \A k \in Jobs : view.rows[k].status = IF k = j THEN "published"
                                              ELSE ses.mine.rows[k].status
    BY <1>1, <1>7 DEF RolledUp, View
  <1>. HIDE DEF view
  <1>10. \/ session'[r] = IdleSession
         \/ /\ session'[r].loaded = ses.loaded /\ session'[r].mine.rows = view.rows
            /\ session'[r].op = ses.op /\ session'[r].job = ses.job
    <2>1. \/ Flush(r, [view EXCEPT !.trend = "completed"])
          \/ Flush(r, view)
          \/ session' = [session EXCEPT ![r] = IdleSession]
      BY DEF Publish, view
    <2>2. ASSUME NEW new \in View, Flush(r, new)
          PROVE  /\ session'[r].loaded = ses.loaded /\ session'[r].mine = new
                 /\ session'[r].op = ses.op /\ session'[r].job = ses.job
      BY <1>1, <2>2 DEF Flush, FlushAs, Session, TypeInv, TypeOK
    <2>3. [view EXCEPT !.trend = "completed"] \in View
          /\ [view EXCEPT !.trend = "completed"].rows = view.rows
      BY <1>8, Statuses DEF View
    <2>4. CASE session' = [session EXCEPT ![r] = IdleSession]
      BY <2>4 DEF TypeInv, TypeOK
    <2>. QED  BY <1>8, <2>1, <2>2, <2>3, <2>4
  <1>11. \A u \in Sessions \ {r} : session'[u] = session[u]
    BY DEF Publish, Flush, FlushAs, TypeInv, TypeOK
  <1>12. ASSUME NEW k \in Jobs  PROVE  RowGated(k)'
    BY <1>3, <1>4, <1>5, <1>6 DEF GateInv, RowGated
  <1>13. ASSUME NEW k \in Jobs  PROVE  SessionGated(session[r], k)'
    <2>1. CASE session'[r] = IdleSession
      BY <2>1 DEF SessionGated, IdleSession, BlankView, BlankRow, Absent
    <2>2. CASE session'[r] # IdleSession
      <3>1. SessionGated(ses, k) /\ SessionGated(ses, j)
        BY <1>1 DEF GateInv
      <3>2. /\ session'[r].loaded = ses.loaded
            /\ session'[r].op = ses.op /\ session'[r].job = ses.job
            /\ session'[r].mine.rows[k].status = IF k = j THEN "published"
                                                 ELSE ses.mine.rows[k].status
        BY <1>9, <1>10, <2>2
      <3>3. UNCHANGED <<job, reviewed>> /\ (pushes[k] > 0 => pushes'[k] > 0)
            /\ (k = j => pushes'[k] > 0)
        BY <1>4, <1>5, <1>6
      <3>4. CASE k = j
        <4>1. ses.loaded.rows[k].status = "approved" /\ reviewed[k] # 0 /\ job[k].status # Absent
          BY <1>1, <3>1, <3>4 DEF SessionGated, Absent
        <4>. QED  BY <1>1, <3>2, <3>3, <3>4, <4>1 DEF SessionGated, Absent
      <3>5. CASE k # j
        BY <1>1, <3>1, <3>2, <3>3, <3>5 DEF SessionGated
      <3>. QED  BY <3>4, <3>5
    <2>. QED  BY <2>1, <2>2
  <1>14. ASSUME NEW u \in Sessions \ {r}, NEW k \in Jobs  PROVE  SessionGated(session[u], k)'
    BY <1>4, <1>5, <1>11 DEF SessionGated, GateInv
  <1>. QED  BY <1>12, <1>13, <1>14 DEF GateInv

LEMMA RequestGated ==
  ASSUME TypeInv, GateInv, NEW r \in Requests, RequestStep(r)
  PROVE  GateInv'
  <1>. DEFINE ses  == session[r]
              j    == session[r].job
              view == session[r].mine
              row  == session[r].mine.rows[j]
  <1>a. ses \in Session /\ view \in View /\ (\A k \in Jobs : SessionGated(ses, k))
    BY DEF TypeInv, TypeOK, Session, GateInv
  <1>b. ASSUME ses.op \in {"review", "regenerate", "publish"}
        PROVE  j \in Jobs /\ row \in Row
    BY <1>a, <1>b DEF TypeInv, AboutJob, View
  <1>c. ASSUME NEW new \in View, Flush(r, new), AtRest, UNCHANGED pushes, new.rows = view.rows
        PROVE  GateInv'
    <2>1. \A k \in Jobs : SessionGated([ses EXCEPT !.mine = new], k)
      BY <1>a, <1>c DEF SessionGated, Session
    <2>. QED  BY <1>c, <2>1, FlushGated DEF AtRest
  <1>1. ASSUME NEW op \in {"approve", "decline", "close", "dismiss", "expire"},
               RequestOnPipeline(r, op)
        PROVE  GateInv'
    <2>1. PICK R : session'[r] = Loading(op, NoJob, R)
      BY <1>1 DEF RequestOnPipeline, Begin, TypeInv, TypeOK
    <2>2. OnlySession(r)
      BY <1>1 DEF RequestOnPipeline, Begin, AtRest, OnlySession, TypeInv, TypeOK
    <2>3. \A k \in Jobs : SessionGated(session'[r], k)
      BY <2>1, LoadGated
    <2>. QED  BY <2>2, <2>3, MoveGated
  <1>2. ASSUME NEW op \in {"review", "regenerate", "publish"}, NEW i \in Jobs,
               RequestOnJob(r, op, i)
        PROVE  GateInv'
    <2>1. session'[r] = Loading(op, i, {i}) /\ OnlySession(r)
      BY <1>2 DEF RequestOnJob, Begin, AtRest, OnlySession, TypeInv, TypeOK
    <2>2. op = "publish" => job[i].status = "approved"
      <3>1. MayOnJob(i).publish => job[i].status = "approved"
        BY DEF MayOnJob
      <3>. QED  BY <1>2, <3>1 DEF RequestOnJob
    <2>3. op = "regenerate" => job[i].status # Absent
      <3>1. MayOnJob(i).regenerate => job[i].status # Absent
        BY NothingFromAbsent DEF MayOnJob
      <3>. QED  BY <1>2, <3>1 DEF RequestOnJob
    <2>4. \A k \in Jobs : SessionGated(session'[r], k)
      BY <2>1, <2>2, <2>3, LoadGated
    <2>. QED  BY <2>1, <2>4, MoveGated
  <1>3. CASE Approve(r)
    <2>1. CASE Flush(r, [view EXCEPT !.pipe = "approved"])
      <3>1. [view EXCEPT !.pipe = "approved"] \in View
            /\ [view EXCEPT !.pipe = "approved"].rows = view.rows
        BY <1>a, Statuses DEF View
      <3>. QED  BY <1>3, <2>1, <3>1, <1>c DEF Approve
    <2>2. ASSUME NEW new \in SUBSET Jobs,
                 Flush(r, [trend |-> IF TrendMay(view.trend, "approved") THEN "approved"
                                                                        ELSE view.trend,
                           pipe  |-> "generating",
                           rows  |-> [k \in Jobs |-> IF k \in new
                                                     THEN [BlankRow EXCEPT !.status = "queued"]
                                                     ELSE view.rows[k]]])
          PROVE  GateInv'
      <3>. DEFINE to == [trend |-> IF TrendMay(view.trend, "approved") THEN "approved"
                                                                      ELSE view.trend,
                         pipe  |-> "generating",
                         rows  |-> [k \in Jobs |-> IF k \in new
                                                   THEN [BlankRow EXCEPT !.status = "queued"]
                                                   ELSE view.rows[k]]]
      <3>1. [BlankRow EXCEPT !.status = "queued"] \in Row
            /\ [BlankRow EXCEPT !.status = "queued"].status = "queued"
        BY BlankTyped, Statuses DEF Row
      <3>2. to \in View
        BY <1>a, <3>1, Statuses DEF View
      <3>3. ses.op = "approve"
        BY <1>3 DEF Approve, Doing
      <3>4. ASSUME NEW k \in Jobs  PROVE SessionGated([ses EXCEPT !.mine = to], k)
        <4>1. to.rows[k].status = IF k \in new THEN "queued" ELSE view.rows[k].status
          BY <3>1
        <4>. HIDE DEF to
        <4>2. LET s == [ses EXCEPT !.mine = to]
              IN  s.loaded = ses.loaded /\ s.mine = to /\ s.op = ses.op /\ s.job = ses.job
          BY <1>a DEF Session
        <4>. QED  BY <1>a, <3>3, <4>1, <4>2 DEF SessionGated, Absent
      <3>. QED  BY <1>3, <2>2, <3>2, <3>4, FlushGated DEF Approve, AtRest
    <2>3. (InStatus(Absent) \ LockedRows(r)) \in SUBSET Jobs
      BY DEF InStatus
    <2>. QED  BY <1>3, <2>1, <2>2, <2>3 DEF Approve
  <1>4. CASE Decline(r)
    <2>. DEFINE new == [view EXCEPT !.pipe = "declined",
                                    !.trend = IF @ = "proposed" THEN "declined" ELSE @]
    <2>1. new \in View /\ new.rows = view.rows
      BY <1>a, Statuses DEF View
    <2>. QED  BY <1>4, <2>1, <1>c DEF Decline
  <1>5. CASE Close(r)
    <2>. DEFINE rows == [k \in Jobs |-> IF view.rows[k].status \in Spared THEN view.rows[k]
                                       ELSE [view.rows[k] EXCEPT !.status = "cancelled"]]
                new  == [view EXCEPT !.pipe = "closed", !.rows = rows]
    <2>1. ASSUME NEW k \in Jobs
          PROVE  /\ rows[k] \in Row
                 /\ rows[k].status = IF view.rows[k].status \in Spared THEN view.rows[k].status
                                                                      ELSE "cancelled"
      <3>1. view.rows[k] \in Row
        BY <1>a DEF View
      <3>. QED  BY <3>1, Statuses DEF Row
    <2>2. rows \in [Jobs -> Row]
      BY <2>1
    <2>. HIDE DEF rows
    <2>3. new \in View /\ new.rows = rows
      BY <1>a, <2>2, Statuses DEF View
    <2>4. ses.op = "close"
      BY <1>5 DEF Close, Doing
    <2>5. ASSUME NEW k \in Jobs  PROVE SessionGated([ses EXCEPT !.mine = new], k)
      <3>. HIDE DEF new
      <3>1. LET s == [ses EXCEPT !.mine = new]
            IN  s.loaded = ses.loaded /\ s.mine = new /\ s.op = ses.op /\ s.job = ses.job
        BY <1>a DEF Session
      <3>. QED  BY <1>a, <2>1, <2>3, <2>4, <3>1 DEF SessionGated, Absent, Spared
    <2>. QED  BY <1>5, <2>3, <2>5, FlushGated DEF Close, AtRest, rows
  <1>6. CASE Dismiss(r)
    <2>1. [view EXCEPT !.trend = "dismissed"] \in View
          /\ [view EXCEPT !.trend = "dismissed"].rows = view.rows
      BY <1>a, Statuses DEF View
    <2>. QED  BY <1>6, <2>1, <1>c DEF Dismiss
  <1>7. CASE Expire(r)
    <2>. DEFINE pending == pipe = "pending_approval"
                new == [view EXCEPT !.trend = "expired",
                                    !.pipe = IF pending THEN "expired" ELSE @]
    <2>1. new \in View /\ new.rows = view.rows
      BY <1>a, Statuses DEF View
    <2>. QED  BY <1>7, <2>1, <1>c DEF Expire
  <1>8. CASE Review(r)
    <2>0. ses.op = "review" /\ j \in Jobs /\ row \in Row
      BY <1>8, <1>b DEF Review, Doing
    <2>1. \E verdict \in {"approved", "rejected"} \cap JobNext[row.status] :
            Flush(r, RolledUp(view, j, [row EXCEPT !.status = verdict]))
      BY <1>8 DEF Review
    <2>2. ASSUME NEW verdict \in {"approved", "rejected"}, verdict \in JobNext[row.status],
                 Flush(r, RolledUp(view, j, [row EXCEPT !.status = verdict]))
          PROVE  GateInv'
      <3>. DEFINE out == [row EXCEPT !.status = verdict]
      <3>1. out \in Row /\ out.status = verdict
        BY <2>0, Statuses DEF Row
      <3>2. row.status # Absent
        BY <2>2, NothingFromAbsent
      <3>3. RolledUp(view, j, out) \in View
        BY <1>a, <3>1, RolledUpTyped
      <3>. HIDE DEF out
      <3>4. \A k \in Jobs : SessionGated([ses EXCEPT !.mine = RolledUp(view, j, out)], k)
        BY <2>0, <3>1, <3>2, RolledGated DEF Absent
      <3>. QED  BY <1>8, <2>2, <3>3, <3>4, FlushGated DEF Review, AtRest, out
    <2>. QED  BY <2>1, <2>2
  <1>9. CASE Regenerate(r)
    <2>. DEFINE drafts == row.archived \cup ({row.content} \ {0})
                out    == [row EXCEPT !.status = "queued", !.attempt = @ + 1, !.content = 0,
                                      !.archived = drafts]
    <2>0. row \in Row /\ row.attempt < MaxAttempt /\ j \in Jobs /\ ses.op = "regenerate"
      BY <1>9, <1>b DEF Regenerate, Doing
    <2>1. row.attempt + 1 \in Attempts /\ 0 \in 0 .. MaxAttempt
      BY <2>0, PipelineAssumption DEF Row, Attempts
    <2>2. drafts \in SUBSET Attempts
      BY <2>0, PipelineAssumption DEF Row, Attempts
    <2>3. out \in Row /\ out.status = "queued"
      BY <2>0, <2>1, <2>2, Statuses DEF Row
    <2>4. row.status # Absent
      BY <1>a, <2>0 DEF SessionGated
    <2>5. RolledUp(view, j, out) \in View
      BY <1>a, <2>3, RolledUpTyped
    <2>. HIDE DEF out
    <2>6. \A k \in Jobs : SessionGated([ses EXCEPT !.mine = RolledUp(view, j, out)], k)
      BY <2>0, <2>3, <2>4, RolledGated DEF Absent
    <2>. QED  BY <1>9, <2>5, <2>6, FlushGated DEF Regenerate, AtRest, out
  <1>10. CASE Publish(r)
    BY <1>10, PublishGated
  <1>11. CASE Abort(r)
    BY <1>11, IdlingGated DEF Abort
  <1>. QED  BY <1>1, <1>2, <1>3, <1>4, <1>5, <1>6, <1>7, <1>8, <1>9, <1>10, <1>11
            DEF RequestStep

LEMMA GateInit == Init => GateInv
  <1>. SUFFICES ASSUME Init  PROVE GateInv
    OBVIOUS
  <1>1. \A j \in Jobs : RowGated(j)
    BY DEF Init, RowGated, BlankRow, Absent
  <1>2. \A s \in Sessions, j \in Jobs : SessionGated(session[s], j)
    BY IdleGated DEF Init
  <1>. QED  BY <1>1, <1>2 DEF GateInv

LEMMA GateNext == TypeInv /\ GateInv /\ [Next]_vars => GateInv'
  <1>. SUFFICES ASSUME TypeInv, GateInv, [Next]_vars  PROVE GateInv'
    OBVIOUS
  <1>1. ASSUME NEW w \in Workers, WorkerStep(w)  PROVE GateInv'
    BY <1>1, WorkerGated
  <1>2. ASSUME NEW r \in Requests, RequestStep(r)  PROVE GateInv'
    BY <1>2, RequestGated
  <1>3. ASSUME NEW s \in Sessions, Commit(s)  PROVE GateInv'
    BY <1>3, CommitGated
  <1>4. ASSUME NEW j \in Jobs, Lapse(j) \/ Deadline(j)  PROVE GateInv'
    BY <1>4 DEF Lapse, Deadline, GateInv, RowGated, SessionGated
  <1>5. CASE UNCHANGED vars
    BY <1>5 DEF vars, GateInv, RowGated, SessionGated
  <1>. QED  BY <1>1, <1>2, <1>3, <1>4, <1>5 DEF Next

LEMMA GateInvariant == Spec => []GateInv
  <1>1. Init => TypeInv /\ GateInv
    BY TypeInit, GateInit
  <1>2. TypeInv /\ GateInv /\ [Next]_vars => (TypeInv /\ GateInv)'
    BY TypeNext, GateNext
  <1>. QED  BY <1>1, <1>2, PTL DEF Spec

\* Nothing exists without an approved request, leaves without an approved preview, or reads
\* "published" without having left: with any number of overlapping, crashing and retried
\* transactions, each working from rows it loaded arbitrarily long ago.
THEOREM HumanGatesHold == Spec => []HumanGates
  <1>1. GateInv => HumanGates
    BY DEF GateInv, RowGated, HumanGates
  <1>. QED  BY <1>1, GateInvariant, PTL
--------------------------------------------------------------------------------
(***************************************************************************)
(* The pipeline implements EditorialGate                                   *)
(***************************************************************************)

\* Only commits and publications show at the gate.
LEMMA QuietSteps ==
  ASSUME UNCHANGED <<job, approvals, reviewed, pushes>>
  PROVE  UNCHANGED Gate!gate
  BY DEF Gate!gate

LEMMA WorkerQuiet ==
  ASSUME NEW w \in Workers, WorkerStep(w)
  PROVE  UNCHANGED <<job, approvals, reviewed, pushes>>
  BY DEF WorkerStep, Sweep, StartJob, Intake, Pending, Preview, GenerationFails, Refused,
         MarkFailed, JobRaises, Die, Recovering

LEMMA RequestQuiet ==
  ASSUME NEW r \in Requests, RequestStep(r), ~Publish(r)
  PROVE  UNCHANGED <<job, approvals, reviewed, pushes>>
  BY DEF RequestStep, RequestOnPipeline, RequestOnJob, Approve, Decline, Close, Dismiss,
         Expire, Review, Regenerate, Abort, AtRest

\* A publication is a release of a cleared item.
LEMMA PublishReleases ==
  ASSUME TypeInv, GateInv, NEW r \in Requests, Publish(r)
  PROVE  Gate!Next
  <1>. DEFINE j == session[r].job
  <1>1. j \in Jobs /\ session[r].op = "publish"
    BY DEF Publish, Doing, TypeInv, AboutJob
  <1>2. reviewed[j] # 0
    <2>1. SessionGated(session[r], j)
      BY <1>1 DEF GateInv
    <2>. QED  BY <1>1, <2>1 DEF SessionGated
  <1>3. pushes' = [pushes EXCEPT ![j] = @ + 1] /\ UNCHANGED <<job, approvals, reviewed>>
    BY DEF Publish, AtRest
  <1>4. {i \in Jobs : pushes'[i] > 0} = {i \in Jobs : pushes[i] > 0} \cup {j}
    BY <1>1, <1>3 DEF TypeInv, TypeOK
  <1>5. PICK i \in Jobs : i = j
    BY <1>1
  <1>6. Gate!Release(i)
    BY <1>2, <1>3, <1>4, <1>5 DEF Gate!Release
  <1>. QED  BY <1>6 DEF Gate!Next

\* A commit makes items if it approves the request, clears one if it approves a preview, and
\* else shows nothing.
LEMMA CommitAtGate ==
  ASSUME TypeInv, GateInv, NEW s \in Sessions, Commit(s)
  PROVE  [Gate!Next]_(Gate!gate)
  <1>. DEFINE ses     == session[s]
              made    == {j \in Jobs : job[j].status # Absent}
              cleared == {j \in Jobs : reviewed[j] # 0}
  <1>1. ses \in Session /\ ses.loaded \in View /\ ses.mine \in View
    BY DEF TypeInv, TypeOK, Session
  <1>2. \A j \in Jobs : SessionGated(ses, j) /\ RowGated(j)
    BY DEF GateInv
  <1>3. \A j \in Jobs : job'[j].status =
           IF ses.mine.rows[j].status # ses.loaded.rows[j].status
           THEN ses.mine.rows[j].status ELSE job[j].status
    BY DEF Commit, Written, Column
  <1>4. \A j \in Jobs : reviewed'[j] = IF Approves(ses, j) THEN ses.loaded.rows[j].attempt
                                                          ELSE reviewed[j]
    BY DEF Commit
  <1>5. \A j \in Jobs : ses.loaded.rows[j].attempt # 0
    BY <1>1 DEF View, Row, Attempts
  <1>6. pushes' = pushes /\ approvals \in Nat
        /\ approvals' = IF ses.op = "approve" THEN approvals + 1 ELSE approvals
    BY DEF Commit, TypeInv, TypeOK
  <1>7. CASE ses.op = "approve"
    <2>0. PICK new \in SUBSET Jobs : new = {j \in Jobs : job'[j].status # Absent}
      OBVIOUS
    <2>1. \A j \in Jobs : job[j].status # Absent => job'[j].status # Absent
      BY <1>2, <1>3 DEF SessionGated
    <2>2. new = made \cup new
      BY <2>0, <2>1
    <2>3. {j \in Jobs : reviewed'[j] # 0} = cleared
      BY <1>4, <1>7 DEF Approves
    <2>4. (approvals' > 0) = TRUE
      BY <1>6, <1>7
    <2>5. Gate!Approve(new)
      BY <2>0, <2>2, <2>3, <2>4, <1>6 DEF Gate!Approve
    <2>. QED  BY <2>5 DEF Gate!Next
  <1>8. CASE ses.op # "approve"
    <2>1. \A j \in Jobs : job'[j].status = Absent <=> job[j].status = Absent
      BY <1>2, <1>3, <1>8 DEF SessionGated
    <2>2. {j \in Jobs : job'[j].status # Absent} = made /\ approvals' = approvals
      BY <2>1, <1>6, <1>8
    <2>3. CASE \E j \in Jobs : Approves(ses, j)
      <3>1. PICK i \in Jobs : Approves(ses, i)
        BY <2>3
      <3>2. {j \in Jobs : reviewed'[j] # 0} = cleared \cup {i}
        BY <3>1, <1>4, <1>5 DEF Approves
      <3>3. i \in made
        BY <3>1, <1>2 DEF SessionGated, Approves, Absent
      <3>4. Gate!Clear(i)
        BY <2>2, <3>2, <3>3, <1>6 DEF Gate!Clear
      <3>. QED  BY <3>4 DEF Gate!Next
    <2>4. CASE ~ \E j \in Jobs : Approves(ses, j)
      <3>1. {j \in Jobs : reviewed'[j] # 0} = cleared
        BY <2>4, <1>4
      <3>. QED  BY <2>2, <3>1, <1>6 DEF Gate!gate
    <2>. QED  BY <2>3, <2>4
  <1>. QED  BY <1>7, <1>8

LEMMA GateStep == TypeInv /\ GateInv /\ [Next]_vars => [Gate!Next]_(Gate!gate)
  <1>. SUFFICES ASSUME TypeInv, GateInv, [Next]_vars  PROVE [Gate!Next]_(Gate!gate)
    OBVIOUS
  <1>1. ASSUME NEW w \in Workers, WorkerStep(w)  PROVE UNCHANGED Gate!gate
    BY <1>1, WorkerQuiet, QuietSteps
  <1>2. ASSUME NEW r \in Requests, RequestStep(r)  PROVE [Gate!Next]_(Gate!gate)
    BY <1>2, PublishReleases, RequestQuiet, QuietSteps
  <1>3. ASSUME NEW s \in Sessions, Commit(s)  PROVE [Gate!Next]_(Gate!gate)
    BY <1>3, CommitAtGate
  <1>4. ASSUME NEW j \in Jobs, Lapse(j) \/ Deadline(j)  PROVE UNCHANGED Gate!gate
    BY <1>4, QuietSteps DEF Lapse, Deadline
  <1>5. CASE UNCHANGED vars
    BY <1>5, QuietSteps DEF vars
  <1>. QED  BY <1>1, <1>2, <1>3, <1>4, <1>5 DEF Next

LEMMA GateStart == Init => Gate!Init
  BY DEF Init, Gate!Init, BlankRow, Absent

\* The detailed pipeline implements the abstract gate: approval, then items, then clearance,
\* then release, none of them ever taken back, whatever transactions overlap or die.
THEOREM PipelineImplementsGate == Spec => ImplementsGate
  <1>1. TypeInv /\ GateInv /\ [Next]_vars => [Gate!Next]_(Gate!gate)
    BY GateStep
  <1>. QED  BY <1>1, GateStart, TypeInvariant, GateInvariant, PTL
            DEF Spec, ImplementsGate, Gate!Spec

--------------------------------------------------------------------------------
(***************************************************************************)
(* Without overlap: what the code's logic guarantees, with crashes,        *)
(* time-outs and retries, but on fresh rows.  A session that is alone has  *)
(* loaded what is committed, so that its commit writes exactly what it     *)
(* made of the rows; SessionOK says what that is before it happens.        *)
(***************************************************************************)

USE DEF Sessions

\* At most one transaction is open.
Alone == \A s, u \in Sessions : ~Idle(s) /\ ~Idle(u) => s = u

\* The status p of a pipeline, given those of its jobs: stronger than StatusShowsJobs, because
\* a roll-up is dropped if the table does not allow it from p.
Shown(p, st) ==
  /\ p \in {"pending_approval", "approved", "declined", "expired"} =>
       \A j \in Jobs : st[j] = Absent
  /\ p = "closed" => \A j \in Jobs : st[j] \in {Absent, "published", "rejected", "cancelled"}
  /\ p = "published" => \A j \in Jobs : st[j] \in {Absent, "published", "cancelled"}
  /\ p = "partially_published" =>
       \A j \in Jobs : st[j] \in {Absent, "published", "rejected", "cancelled"}
  /\ p = "failed" => \A j \in Jobs : st[j] \in {Absent, "failed"}
  /\ p \notin PipelineTerminal =>
       /\ (\E j \in Jobs : st[j] \in InWork) => p = "generating"
       /\ (\A j \in Jobs : st[j] \notin InWork)
            /\ (\E j \in Jobs : st[j] \in {"preview_ready", "approved"}) => p = "previews_ready"

StatusOf(rows) == [j \in Jobs |-> rows[j].status]

\* What the editor looked at is what is approved, and what is published.
AsReviewed(rows, rev) ==
  \A j \in Jobs : rows[j].status \in {"approved", "published"} => rows[j].attempt = rev[j]

AbsentIsBlank(rows) == \A j \in Jobs : rows[j].status = Absent => rows[j] = BlankRow

\* The rows are in order; p, rows and rev are those of the pipeline now, or after a commit.
RowsOK(p, rows, rev) ==
  /\ Shown(p, StatusOf(rows))
  /\ AsReviewed(rows, rev)
  /\ AbsentIsBlank(rows)

\* The step from p and rows to q and next keeps what is settled.
Settled(p, rows, q, next) ==
  /\ p \in PipelineTerminal => q = p
  /\ \A j \in Jobs :
       /\ rows[j].status \in {"published", "cancelled"} => next[j].status = rows[j].status
       /\ rows[j].status # Absent => next[j].status # Absent

\* What the commit of a session would leave.
RowsAfter(ses, rows) ==
  [j \in Jobs |-> Written(rows[j], ses.loaded.rows[j], ses.mine.rows[j])]

ReviewedAfter(ses, rev) ==
  [j \in Jobs |-> IF Approves(ses, j) THEN ses.loaded.rows[j].attempt ELSE rev[j]]

JobOps == {"generate", "recover", "review", "regenerate", "publish"}

\* An open session has loaded what is committed, and validated it.
OpenOK(ses, p, rows) ==
  /\ ses.loaded.pipe = p /\ ses.mine.pipe = p
  /\ ses.op \in JobOps =>
       /\ ses.loaded.rows[ses.job] = rows[ses.job]
       /\ ses.mine.rows[ses.job].status = rows[ses.job].status
       /\ ses.mine.rows[ses.job].attempt = rows[ses.job].attempt
       /\ \A i \in Jobs \ {ses.job} : ses.mine.rows[i] = ses.loaded.rows[i]
  /\ ses.op \notin JobOps => ses.mine = ses.loaded
  /\ ses.op \in {"review", "regenerate", "publish"} => p \notin PipelineTerminal
  /\ ses.op = "regenerate" => "queued" \in JobNext[rows[ses.job].status]
  /\ ses.op = "publish" => rows[ses.job].status = "approved"
  /\ ses.op \in {"approve", "decline"} =>
       p = "pending_approval" /\ ses.loaded.rows = [j \in Jobs |-> BlankRow]
  /\ ses.op = "close" => p \notin PipelineTerminal /\ ses.loaded.rows = rows

\* A flushed session is about to leave rows that are in order.
FlushedOK(ses, p, rows, rev) ==
  /\ ses.loaded.pipe = p
  /\ RowsOK(ses.mine.pipe, RowsAfter(ses, rows), ReviewedAfter(ses, rev))
  /\ Settled(p, rows, ses.mine.pipe, RowsAfter(ses, rows))

SessionOK(ses, p, rows, rev) ==
  /\ ses.phase = "idle" => ses.op = "none"
  /\ ses.phase = "open" => OpenOK(ses, p, rows)
  /\ ses.phase = "flushed" => FlushedOK(ses, p, rows, rev)
  /\ ses.op \in JobOps => ses.job \in Jobs /\ rows[ses.job].status # Absent

\* A worker claims rows that exist.
ClaimsExist == \A w \in Workers : \A j \in todo[w] : job[j].status # Absent

SerialInv ==
  /\ Alone
  /\ ClaimsExist
  /\ RowsOK(pipe, job, reviewed)
  /\ \A s \in Sessions : SessionOK(session[s], pipe, job, reviewed)

--------------------------------------------------------------------------------
(***************************************************************************)
(* The roll-up                                                             *)
(***************************************************************************)

\* If jobs move as their table allows (and are not cancelled), the roll-up says where they are.
LEMMA RollupShows ==
  ASSUME NEW p \in PipelineStatus, NEW st \in [Jobs -> JobStatus], NEW new \in [Jobs -> JobStatus],
         Shown(p, st), p \notin PipelineTerminal,
         \A j \in Jobs : new[j] = st[j] \/ new[j] \in JobNext[st[j]] \ {"cancelled"},
         NEW S, S = {new[j] : j \in Jobs} \ {Absent}
  PROVE  Shown(Rollup(p, S), new)
  <1>. DEFINE Work == \E j \in Jobs : new[j] \in InWork
              Wait == \E j \in Jobs : new[j] \in {"preview_ready", "approved"}
  <1>1. p \in {"pending_approval", "approved", "generating", "previews_ready",
               "partially_published", "published", "failed"}
    BY Statuses DEF PipelineTerminal
  <1>2. \A j \in Jobs : new[j] \in S \/ new[j] = Absent
    OBVIOUS
  <1>3. \A v \in S : v # Absent /\ \E j \in Jobs : new[j] = v
    OBVIOUS
  <1>4. Work <=> S \cap InWork # {}
    BY <1>2, <1>3 DEF InWork, Absent
  <1>5. Wait <=> S \cap {"preview_ready", "approved"} # {}
    BY <1>2, <1>3 DEF Absent
  <1>6. CASE p \in {"pending_approval", "approved"}
    <2>1. \A j \in Jobs : new[j] = Absent
      BY <1>6 DEF Shown, JobNext, Absent
    <2>2. S = {}
      BY <2>1
    <2>. QED  BY <1>6, <2>1, <2>2 DEF Shown, Rollup, InWork, Absent, PipelineTerminal
  <1>7. CASE p = "published"
    <2>1. \A j \in Jobs : new[j] = st[j] /\ new[j] \in {Absent, "published", "cancelled"}
      BY <1>7 DEF Shown, JobNext, Absent
    <2>2. S \subseteq {"published", "cancelled"}
      BY <1>3, <2>1
    <2>3. Rollup(p, S) \in {"published", "closed"} /\ (Rollup(p, S) = "closed" => S # {})
      BY <1>7, <2>2 DEF Rollup, Derived, PipelineNext, InWork, PipelineTerminal
    <2>. QED  BY <2>1, <2>3 DEF Shown, InWork, Absent, PipelineTerminal
  <1>8. CASE p = "partially_published"
    <2>1. \A j \in Jobs : new[j] \in {Absent, "published", "cancelled", "rejected", "queued"}
      BY <1>8 DEF Shown, JobNext, Absent
    <2>2. CASE Work
      <3>1. Rollup(p, S) = "generating"
        BY <1>4, <1>8, <2>2 DEF Rollup, Derived, PipelineNext, InWork, PipelineTerminal
      <3>. QED  BY <2>2, <3>1 DEF Shown, PipelineTerminal
    <2>3. CASE ~Work
      <3>1. S \subseteq {"published", "cancelled", "rejected"} /\ S \cap InWork = {}
        BY <1>3, <1>4, <2>1, <2>3 DEF InWork
      <3>2. /\ Rollup(p, S) \in {"published", "closed", "partially_published"}
            /\ Rollup(p, S) = "published" => "rejected" \notin S
        BY <1>8, <3>1 DEF Rollup, Derived, PipelineNext, PipelineTerminal
      <3>. QED  BY <1>2, <3>1, <3>2 DEF Shown, InWork, Absent, PipelineTerminal
    <2>. QED  BY <2>2, <2>3
  <1>9. CASE p = "failed"
    <2>1. \A j \in Jobs : new[j] \in {Absent, "failed", "queued"}
      BY <1>9 DEF Shown, JobNext, Absent
    <2>2. CASE Work
      <3>1. Rollup(p, S) = "generating"
        BY <1>4, <1>9, <2>2 DEF Rollup, Derived, PipelineNext, InWork, PipelineTerminal
      <3>. QED  BY <2>2, <3>1 DEF Shown, PipelineTerminal
    <2>3. CASE ~Work
      <3>1. S \subseteq {"failed"}
        BY <1>3, <2>1, <2>3 DEF InWork
      <3>2. Rollup(p, S) = "failed"
        BY <1>9, <3>1 DEF Rollup, Derived, PipelineNext, InWork, PipelineTerminal
      <3>. QED  BY <1>2, <3>1, <3>2 DEF Shown, InWork, Absent, PipelineTerminal
    <2>. QED  BY <2>2, <2>3
  <1>10. CASE p = "generating"
    <2>1. CASE Work
      <3>1. Rollup(p, S) = "generating"
        BY <1>4, <1>10, <2>1 DEF Rollup, Derived, PipelineNext, InWork, PipelineTerminal
      <3>. QED  BY <2>1, <3>1 DEF Shown, PipelineTerminal
    <2>2. CASE ~Work /\ Wait
      <3>1. Rollup(p, S) = "previews_ready"
        BY <1>4, <1>5, <1>10, <2>2 DEF Rollup, Derived, PipelineNext, InWork, PipelineTerminal
      <3>. QED  BY <2>2, <3>1 DEF Shown, PipelineTerminal
    <2>3. CASE ~Work /\ ~Wait
      <3>1. /\ Rollup(p, S) \in {"generating", "closed", "failed", "previews_ready"}
            /\ Rollup(p, S) = "closed" => S \subseteq {"published", "rejected", "cancelled"}
            /\ Rollup(p, S) = "failed" => S = {"failed"}
        BY <1>4, <1>10, <2>3 DEF Rollup, Derived, PipelineNext, InWork, PipelineTerminal
      <3>. QED  BY <1>2, <2>3, <3>1 DEF Shown, PipelineTerminal
    <2>. QED  BY <2>1, <2>2, <2>3
  <1>11. CASE p = "previews_ready"
    <2>1. CASE Work
      <3>1. Rollup(p, S) = "generating"
        BY <1>4, <1>11, <2>1 DEF Rollup, Derived, PipelineNext, InWork, PipelineTerminal
      <3>. QED  BY <2>1, <3>1 DEF Shown, PipelineTerminal
    <2>2. CASE ~Work /\ Wait
      <3>1. Rollup(p, S) = "previews_ready"
        BY <1>4, <1>5, <1>11, <2>2 DEF Rollup, Derived, PipelineNext, InWork, PipelineTerminal
      <3>. QED  BY <2>2, <3>1 DEF Shown, PipelineTerminal
    <2>3. CASE ~Work /\ ~Wait
      <3>1. /\ Rollup(p, S) \in {"previews_ready", "closed", "published", "partially_published"}
            /\ Rollup(p, S) # p => S \subseteq {"published", "rejected", "cancelled"}
            /\ Rollup(p, S) = "published" => "rejected" \notin S
        BY <1>4, <1>11, <2>3 DEF Rollup, Derived, PipelineNext, InWork, PipelineTerminal
      <3>. QED  BY <1>2, <1>11, <2>3, <3>1 DEF Shown, PipelineTerminal
    <2>. QED  BY <2>1, <2>2, <2>3
  <1>. QED  BY <1>1, <1>6, <1>7, <1>8, <1>9, <1>10, <1>11

--------------------------------------------------------------------------------
(***************************************************************************)
(* What a commit writes                                                    *)
(***************************************************************************)
LEMMA WrittenFresh ==
  ASSUME NEW now \in Row, NEW mine \in Row
  PROVE  Written(now, now, mine) = mine /\ Written(now, mine, mine) = now
  BY DEF Written, Column, Row

LEMMA StatusSet ==
  ASSUME NEW r \in Row, NEW v \in JobStatus, NEW x, x = [r EXCEPT !.status = v]
  PROVE  /\ x \in Row /\ x.status = v /\ x.attempt = r.attempt
         /\ v = r.status => x = r
  BY DEF Row

\* A session that moves no job and leaves the pipeline as it is.
LEMMA StaysOK ==
  ASSUME TypeOK, RowsOK(pipe, job, reviewed), NEW ses,
         ses.loaded.pipe = pipe, ses.mine.pipe = pipe, ses.op # "review",
         \A j \in Jobs : LET after == RowsAfter(ses, job)[j]
                        IN  /\ after.status = job[j].status /\ after.attempt = job[j].attempt
                            /\ job[j].status = Absent => after = job[j]
  PROVE  FlushedOK(ses, pipe, job, reviewed)
  <1>. DEFINE rows == RowsAfter(ses, job)
  <1>1. StatusOf(rows) = StatusOf(job)
    BY DEF StatusOf
  <1>2. ReviewedAfter(ses, reviewed) = reviewed
    BY DEF ReviewedAfter, Approves, TypeOK
  <1>3. \A j \in Jobs : /\ rows[j].status = job[j].status /\ rows[j].attempt = job[j].attempt
                        /\ job[j].status = Absent => rows[j] = job[j]
    OBVIOUS
  <1>. HIDE DEF rows
  <1>4. RowsOK(pipe, rows, reviewed)
    BY <1>1, <1>3 DEF RowsOK, AsReviewed, AbsentIsBlank
  <1>5. Settled(pipe, job, pipe, rows)
    BY <1>3 DEF Settled
  <1>. QED  BY <1>2, <1>4, <1>5 DEF FlushedOK, rows

\* A session that writes its own job and rolls up, on a pipeline that is not finished.
LEMMA MovesOK ==
  ASSUME TypeOK, RowsOK(pipe, job, reviewed), NEW ses \in Session, OpenOK(ses, pipe, job),
         ses.op \in JobOps, ses.job \in Jobs, job[ses.job].status # Absent,
         pipe \notin PipelineTerminal, NEW row \in Row,
         row.status # Absent,
         \/ row.status = job[ses.job].status
         \/ row.status \in JobNext[job[ses.job].status] \ {"cancelled"},
         row.status \in {"approved", "published"} =>
           row.attempt = IF ses.op = "review" /\ row.status = "approved"
                         THEN job[ses.job].attempt ELSE reviewed[ses.job],
         NEW done \in Session, done.op = ses.op, done.job = ses.job, done.loaded = ses.loaded,
         done.mine.pipe = Rollup(pipe, StatusesWith(ses.job, row.status)),
         done.mine.rows = [ses.mine.rows EXCEPT ![ses.job] = row]
  PROVE  FlushedOK(done, pipe, job, reviewed)
  <1>. DEFINE j == ses.job
              rows == [job EXCEPT ![j] = row]
  <1>1. j \in Jobs /\ ses.loaded.rows[j] = job[j] /\ job[j].status # Absent
        /\ \A i \in Jobs \ {j} : ses.mine.rows[i] = ses.loaded.rows[i]
    BY DEF OpenOK
  <1>2. /\ ses.mine.rows \in [Jobs -> Row] /\ ses.loaded.rows \in [Jobs -> Row]
        /\ job \in [Jobs -> Row]
    BY DEF Session, View, TypeOK
  <1>3. RowsAfter(done, job) = rows
    <2>1. \A i \in Jobs : Written(job[i], ses.loaded.rows[i], done.mine.rows[i]) = rows[i]
      BY <1>1, <1>2, WrittenFresh
    <2>. QED  BY <1>2, <2>1 DEF RowsAfter
  <1>4. \A i \in Jobs : ReviewedAfter(done, reviewed)[i] =
           IF ses.op = "review" /\ i = j /\ row.status = "approved" THEN job[j].attempt
                                                                 ELSE reviewed[i]
    BY <1>1, <1>2 DEF ReviewedAfter, Approves
  <1>5. \A i \in Jobs : rows[i] = IF i = j THEN row ELSE job[i]
    BY <1>2
  <1>. HIDE DEF rows
  <1>6. AsReviewed(rows, ReviewedAfter(done, reviewed))
    BY <1>1, <1>4, <1>5 DEF AsReviewed, RowsOK
  <1>7. AbsentIsBlank(rows)
    BY <1>5 DEF AbsentIsBlank, RowsOK
  <1>. DEFINE st == StatusOf(job)
              new == StatusOf(rows)
              S == StatusesWith(j, row.status)
  <1>8. st \in [Jobs -> JobStatus] /\ new \in [Jobs -> JobStatus]
    BY <1>2, <1>5 DEF StatusOf, Row
  <1>9. \A i \in Jobs : /\ st[i] = job[i].status
                        /\ new[i] = IF i = j THEN row.status ELSE job[i].status
    BY <1>5 DEF StatusOf
  <1>10. S = {new[i] : i \in Jobs} \ {Absent}
    BY <1>1, <1>9 DEF StatusesWith
  <1>11. \A i \in Jobs : new[i] = st[i] \/ new[i] \in JobNext[st[i]] \ {"cancelled"}
    BY <1>9
  <1>12. Shown(pipe, st) /\ pipe \in PipelineStatus
    BY DEF RowsOK, TypeOK
  <1>. HIDE DEF st, new, S
  <1>13. Shown(Rollup(pipe, S), new)
    BY <1>8, <1>10, <1>11, <1>12, RollupShows
  <1>14. Settled(pipe, job, Rollup(pipe, S), rows)
    <2>1. \A i \in Jobs : job[i].status \in {"published", "cancelled"}
                           => rows[i].status = job[i].status
      BY <1>5 DEF JobNext
    <2>2. \A i \in Jobs : job[i].status # Absent => rows[i].status # Absent
      BY <1>5
    <2>. QED  BY <2>1, <2>2 DEF Settled
  <1>15. RowsOK(Rollup(pipe, S), rows, ReviewedAfter(done, reviewed))
    BY <1>6, <1>7, <1>13 DEF RowsOK, new
  <1>16. done.loaded.pipe = pipe /\ done.mine.pipe = Rollup(pipe, S)
    BY DEF OpenOK, S
  <1>. QED  BY <1>3, <1>14, <1>15, <1>16 DEF FlushedOK

--------------------------------------------------------------------------------
(***************************************************************************)
(* Sessions that are alone                                                 *)
(***************************************************************************)
LEMMA OthersIdle ==
  ASSUME SerialInv, NEW s \in Sessions, ~Idle(s)
  PROVE  \A u \in Sessions \ {s} : Idle(u)
  BY DEF SerialInv, Alone

LEMMA NoneOpen ==
  ASSUME MaxOverlap = 1, SerialInv, Cardinality(OpenSessions) < MaxOverlap
  PROVE  \A u \in Sessions : Idle(u)
  <1>. SUFFICES ASSUME NEW u \in Sessions, ~Idle(u) PROVE FALSE
    OBVIOUS
  <1>1. OpenSessions = {u}
    BY DEF OpenSessions, SerialInv, Alone
  <1>2. Cardinality({u}) = 1
    BY FS_Singleton
  <1>. QED  BY <1>1, <1>2

\* A step of a session that is alone, which commits nothing.
LEMMA OneStep ==
  ASSUME TypeInv, SerialInv, NEW s \in Sessions, NEW X, session' = [session EXCEPT ![s] = X],
         UNCHANGED <<pipe, job, reviewed>>, \A u \in Sessions \ {s} : Idle(u),
         SessionOK(X, pipe, job, reviewed), ClaimsExist'
  PROVE  SerialInv'
  <1>1. \A u \in Sessions : session'[u] = IF u = s THEN X ELSE session[u]
    BY DEF TypeInv, TypeOK
  <1>2. Alone'
    BY <1>1 DEF Alone, Idle
  <1>3. \A u \in Sessions : SessionOK(session'[u], pipe, job, reviewed)
    BY <1>1 DEF SerialInv
  <1>. QED  BY <1>2, <1>3 DEF SerialInv

LEMMA IdleOK == SessionOK(IdleSession, pipe, job, reviewed)
  BY DEF SessionOK, IdleSession, JobOps

\* A session ends without a commit.
LEMMA EndsIdle ==
  ASSUME TypeInv, SerialInv, NEW s \in Sessions, session' = [session EXCEPT ![s] = IdleSession],
         UNCHANGED <<pipe, job, reviewed>>, ClaimsExist'
  PROVE  SerialInv'
  <1>1. \A u \in Sessions : session'[u] = IF u = s THEN IdleSession ELSE session[u]
    BY DEF TypeInv, TypeOK
  <1>2. Alone'
    BY <1>1 DEF SerialInv, Alone, Idle, IdleSession
  <1>3. \A u \in Sessions : SessionOK(session'[u], pipe, job, reviewed)
    BY <1>1, IdleOK DEF SerialInv
  <1>. QED  BY <1>2, <1>3 DEF SerialInv

\* Flushing its own job, rolled up.
LEMMA JobFlush ==
  ASSUME TypeInv, SerialInv, NEW s \in Sessions, session[s].phase = "open",
         session[s].op \in JobOps, pipe \notin PipelineTerminal, NEW row \in Row,
         row.status # Absent,
         \/ row.status = job[session[s].job].status
         \/ row.status \in JobNext[job[session[s].job].status] \ {"cancelled"},
         row.status \in {"approved", "published"} =>
           row.attempt = IF session[s].op = "review" /\ row.status = "approved"
                         THEN job[session[s].job].attempt ELSE reviewed[session[s].job],
         NEW view \in View,
         view.pipe = Rollup(pipe, StatusesWith(session[s].job, row.status)),
         view.rows = [session[s].mine.rows EXCEPT ![session[s].job] = row],
         Flush(s, view), UNCHANGED <<pipe, job, reviewed, todo>>
  PROVE  SerialInv'
  <1>. DEFINE done == [session[s] EXCEPT !.mine = view, !.phase = "flushed"]
  <1>1. session[s] \in Session /\ OpenOK(session[s], pipe, job) /\ TypeOK
        /\ RowsOK(pipe, job, reviewed)
        /\ session[s].job \in Jobs /\ job[session[s].job].status # Absent
    BY DEF SerialInv, SessionOK, TypeInv, TypeOK
  <1>2. done \in Session /\ done.op = session[s].op /\ done.job = session[s].job
        /\ done.loaded = session[s].loaded /\ done.mine = view /\ done.phase = "flushed"
    BY <1>1 DEF Session
  <1>3. session' = [session EXCEPT ![s] = done]
    BY DEF Flush, FlushAs
  <1>. HIDE DEF done
  <1>4. FlushedOK(done, pipe, job, reviewed)
    BY <1>1, <1>2, MovesOK
  <1>5. SessionOK(done, pipe, job, reviewed)
    BY <1>1, <1>2, <1>4 DEF SessionOK
  <1>6. ClaimsExist'
    BY DEF SerialInv, ClaimsExist
  <1>7. \A u \in Sessions \ {s} : Idle(u)
    BY OthersIdle DEF Idle
  <1>. QED  BY <1>3, <1>5, <1>6, <1>7, OneStep

\* Flushing a view that moves no job.
LEMMA StayFlush ==
  ASSUME TypeInv, SerialInv, NEW s \in Sessions, session[s].phase = "open",
         session[s].op # "review", NEW view \in View, view.pipe = pipe,
         \A j \in Jobs : LET after == Written(job[j], session[s].loaded.rows[j], view.rows[j])
                        IN  /\ after.status = job[j].status /\ after.attempt = job[j].attempt
                            /\ job[j].status = Absent => after = job[j],
         Flush(s, view), UNCHANGED <<pipe, job, reviewed, todo>>
  PROVE  SerialInv'
  <1>. DEFINE done == [session[s] EXCEPT !.mine = view, !.phase = "flushed"]
  <1>1. /\ session[s] \in Session /\ OpenOK(session[s], pipe, job) /\ TypeOK
        /\ RowsOK(pipe, job, reviewed)
        /\ session[s].op \in JobOps
             => session[s].job \in Jobs /\ job[session[s].job].status # Absent
    BY DEF SerialInv, SessionOK, TypeInv, TypeOK
  <1>2. /\ done.op = session[s].op /\ done.job = session[s].job
        /\ done.loaded = session[s].loaded /\ done.mine = view /\ done.phase = "flushed"
    BY <1>1 DEF Session
  <1>3. session' = [session EXCEPT ![s] = done]
    BY DEF Flush, FlushAs
  <1>. HIDE DEF done
  <1>4. \A j \in Jobs : RowsAfter(done, job)[j]
                          = Written(job[j], session[s].loaded.rows[j], view.rows[j])
    BY <1>2 DEF RowsAfter
  <1>5. done.loaded.pipe = pipe /\ done.mine.pipe = pipe
    BY <1>1, <1>2 DEF OpenOK
  <1>6. FlushedOK(done, pipe, job, reviewed)
    BY <1>1, <1>2, <1>4, <1>5, StaysOK
  <1>7. SessionOK(done, pipe, job, reviewed)
    BY <1>1, <1>2, <1>6 DEF SessionOK
  <1>8. ClaimsExist'
    BY DEF SerialInv, ClaimsExist
  <1>9. \A u \in Sessions \ {s} : Idle(u)
    BY OthersIdle DEF Idle
  <1>. QED  BY <1>3, <1>7, <1>8, <1>9, OneStep

--------------------------------------------------------------------------------
(***************************************************************************)
(* The worker                                                              *)
(***************************************************************************)

\* The claiming transaction: what it claims is running, what it reaps has failed.
LEMMA SweepSerial ==
  ASSUME MaxOverlap = 1, TypeInv, SerialInv, NEW w \in Workers, Sweep(w)
  PROVE  SerialInv'
  <1>. DEFINE free   == Jobs \ LockedRows(w)
              queued == InStatus("queued") \cap free
              stuck  == Resumed(InStatus("running") \cap lapsed \cap free)
              dead   == Reaped(InStatus("running") \cap lapsed \cap free)
              new    == [j \in Jobs |-> IF j \in queued THEN "running"
                                       ELSE IF j \in dead THEN "failed" ELSE job[j].status]
              S      == {new[j] : j \in Jobs} \ {Absent}
              rolled == Rollup(pipe, S)
              ses    == Loading("sweep", NoJob, queued \cup stuck \cup dead)
              mine   == [j \in Jobs |-> IF j \in queued \cup dead
                                        THEN [job[j] EXCEPT !.status = new[j]]
                                        ELSE ses.mine.rows[j]]
              done   == [[ses EXCEPT !.mine.pipe = IF dead = {} THEN pipe ELSE rolled,
                                     !.mine.rows = mine] EXCEPT !.phase = "flushed"]
              rows   == [j \in Jobs |-> [job[j] EXCEPT !.status = new[j]]]
  <1>1. /\ session' = [session EXCEPT ![w] = done]
        /\ todo' = [todo EXCEPT ![w] = queued \cup stuck]
        /\ queued \cup stuck \cup dead # {} /\ Cardinality(OpenSessions) < MaxOverlap
        /\ UNCHANGED <<pipe, job, reviewed>>
    BY DEF Sweep, FlushAs
  <1>2. /\ queued \subseteq Jobs /\ \A j \in queued : job[j].status = "queued"
        /\ stuck \subseteq Jobs /\ \A j \in stuck : job[j].status = "running"
        /\ dead \subseteq Jobs /\ \A j \in dead : job[j].status = "running"
    BY DEF InStatus, Resumed, Reaped
  <1>3. \A j \in Jobs : new[j] = IF j \in queued THEN "running"
                                ELSE IF j \in dead THEN "failed" ELSE job[j].status
    OBVIOUS
  <1>4. job \in [Jobs -> Row] /\ pipe \in PipelineStatus /\ RowsOK(pipe, job, reviewed)
    BY DEF TypeInv, TypeOK, SerialInv
  <1>5. done.phase = "flushed" /\ done.op = "sweep" /\ done.loaded = ses.loaded
        /\ done.mine.rows = mine /\ done.mine.pipe = IF dead = {} THEN pipe ELSE rolled
    BY DEF Loading, Snapshot
  <1>7. \A j \in Jobs : mine[j] = IF j \in queued \cup dead THEN [job[j] EXCEPT !.status = new[j]]
                                 ELSE ses.mine.rows[j]
    OBVIOUS
  <1>8. \A j \in Jobs : rows[j] = [job[j] EXCEPT !.status = new[j]]
    OBVIOUS
  <1>. HIDE DEF free, queued, stuck, dead, mine, done, ses, rows
  <1>6. /\ ses.loaded.pipe = pipe /\ ses.mine = ses.loaded
        /\ \A i \in Jobs : ses.loaded.rows[i] =
              IF i \in queued \cup stuck \cup dead THEN job[i] ELSE BlankRow
    BY DEF Loading, Snapshot, ses
  <1>9. new \in [Jobs -> JobStatus]
    BY <1>4, Statuses DEF Row
  <1>. HIDE DEF new
  <1>10. \A j \in Jobs : /\ rows[j] \in Row
                         /\ rows[j].status = new[j] /\ rows[j].attempt = job[j].attempt
                         /\ new[j] = job[j].status => rows[j] = job[j]
    <2>. TAKE j \in Jobs
    <2>1. job[j] \in Row /\ new[j] \in JobStatus /\ rows[j] = [job[j] EXCEPT !.status = new[j]]
      BY <1>4, <1>8, <1>9
    <2>. DEFINE r == job[j]  v == new[j]  x == rows[j]
    <2>. HIDE DEF r, v, x
    <2>2. /\ x \in Row /\ x.status = v /\ x.attempt = r.attempt
          /\ v = r.status => x = r
      BY <2>1, StatusSet DEF r, v, x
    <2>. QED  BY <2>2 DEF r, v, x
  <1>11. RowsAfter(done, job) = rows
    <2>1. ASSUME NEW j \in Jobs PROVE Written(job[j], ses.loaded.rows[j], mine[j]) = rows[j]
      <3>1. CASE j \in queued \cup dead
        <4>1. mine[j] = rows[j]
          BY <3>1, <1>7, <1>8
        <4>2. ses.loaded.rows[j] = job[j] /\ job[j] \in Row /\ rows[j] \in Row
          BY <3>1, <1>4, <1>6, <1>10
        <4>. QED  BY <4>1, <4>2, WrittenFresh
      <3>2. CASE j \notin queued \cup dead
        <4>1. mine[j] = ses.loaded.rows[j] /\ ses.loaded.rows[j] \in Row
          BY <3>2, <1>4, <1>6, <1>7, BlankTyped
        <4>. QED  BY <3>2, <4>1, <1>3, <1>4, <1>10, WrittenFresh
      <3>. QED  BY <3>1, <3>2
    <2>. QED  BY <2>1, <1>5 DEF RowsAfter, rows
  <1>12. \A j \in Jobs : new[j] = job[j].status \/ new[j] \in JobNext[job[j].status] \ {"cancelled"}
    BY <1>2, <1>3 DEF JobNext
  <1>13. PICK k \in Jobs : k \in queued \cup stuck \cup dead
    BY <1>1, <1>2
  <1>14. pipe = "generating"
    <2>1. job[k].status \in InWork
      BY <1>2, <1>13 DEF InWork
    <2>2. pipe \notin PipelineTerminal
      BY <2>1, <1>4 DEF RowsOK, Shown, StatusOf, InWork, PipelineTerminal, Absent
    <2>. QED  BY <2>1, <2>2, <1>4 DEF RowsOK, Shown, StatusOf
  <1>15. Shown(rolled, new)
    <2>. DEFINE st == StatusOf(job)
    <2>1. st \in [Jobs -> JobStatus] /\ \A j \in Jobs : st[j] = job[j].status
      BY <1>4 DEF StatusOf, Row
    <2>2. Shown(pipe, st) /\ pipe \notin PipelineTerminal
      BY <1>4, <1>14 DEF RowsOK, PipelineTerminal
    <2>. HIDE DEF st
    <2>. QED  BY <2>1, <2>2, <1>4, <1>9, <1>12, RollupShows
  <1>16. dead = {} => rolled = pipe
    <2>1. ASSUME dead = {} PROVE "running" \in S
      <3>1. new[k] = "running"
        BY <2>1, <1>2, <1>3, <1>13
      <3>. QED  BY <3>1 DEF Absent
    <2>. QED  BY <2>1, <1>14 DEF Rollup, Derived, PipelineNext, InWork, PipelineTerminal
  <1>17. done.mine.pipe = rolled
    BY <1>5, <1>16
  <1>18. ReviewedAfter(done, reviewed) = reviewed
    BY <1>5 DEF ReviewedAfter, Approves, TypeInv, TypeOK
  <1>19. RowsOK(rolled, rows, reviewed)
    <2>1. StatusOf(rows) = new
      BY <1>9, <1>10 DEF StatusOf
    <2>2. AsReviewed(rows, reviewed)
      BY <1>2, <1>3, <1>4, <1>10 DEF RowsOK, AsReviewed
    <2>3. AbsentIsBlank(rows)
      BY <1>2, <1>3, <1>4, <1>10 DEF RowsOK, AbsentIsBlank, Absent
    <2>. QED  BY <2>1, <2>2, <2>3, <1>15 DEF RowsOK
  <1>20. Settled(pipe, job, rolled, rows)
    BY <1>2, <1>3, <1>10, <1>14 DEF Settled, PipelineTerminal, Absent
  <1>21. SessionOK(done, pipe, job, reviewed)
    BY <1>5, <1>6, <1>11, <1>17, <1>18, <1>19, <1>20 DEF SessionOK, FlushedOK, JobOps
  <1>22. ClaimsExist'
    <2>1. \A v \in Workers : todo'[v] = IF v = w THEN queued \cup stuck ELSE todo[v]
      BY <1>1 DEF TypeInv, TypeOK
    <2>. QED  BY <2>1, <1>1, <1>2 DEF SerialInv, ClaimsExist, Absent
  <1>23. \A u \in Sessions \ {w} : Idle(u)
    BY <1>1, NoneOpen
  <1>. QED  BY <1>1, <1>21, <1>22, <1>23, OneStep

\* A session that begins is open on what is committed.
LEMMA BeginSerial ==
  ASSUME MaxOverlap = 1, TypeInv, SerialInv, NEW s \in Sessions, NEW op, NEW j, NEW R,
         Begin(s, op, j, R), OpenOK(Loading(op, j, R), pipe, job), ClaimsExist',
         op \in JobOps => j \in Jobs /\ job[j].status # Absent,
         UNCHANGED <<pipe, job, reviewed>>
  PROVE  SerialInv'
  <1>1. SessionOK(Loading(op, j, R), pipe, job, reviewed)
    BY DEF SessionOK, Loading
  <1>2. \A u \in Sessions \ {s} : Idle(u)
    BY NoneOpen DEF Begin
  <1>. QED  BY <1>1, <1>2, OneStep DEF Begin

\* Opening on a job that exists.
LEMMA JobOpens ==
  ASSUME TypeInv, NEW op \in JobOps, NEW j \in Jobs, job[j].status # Absent,
         op \in {"review", "regenerate", "publish"} => pipe \notin PipelineTerminal,
         op = "regenerate" => "queued" \in JobNext[job[j].status],
         op = "publish" => job[j].status = "approved"
  PROVE  OpenOK(Loading(op, j, {j}), pipe, job)
  <1>. DEFINE ses == Loading(op, j, {j})
  <1>1. /\ ses.op = op /\ ses.job = j /\ ses.mine = ses.loaded /\ ses.loaded.pipe = pipe
        /\ ses.loaded.rows[j] = job[j]
    BY DEF Loading, Snapshot
  <1>. HIDE DEF ses
  <1>2. OpenOK(ses, pipe, job)
    BY <1>1 DEF OpenOK, JobOps
  <1>. QED  BY <1>2 DEF ses

LEMMA WorkerSerial ==
  ASSUME MaxOverlap = 1, TypeInv, SerialInv, NEW w \in Workers, WorkerStep(w)
  PROVE  SerialInv'
  <1>. DEFINE j   == session[w].job
              row == session[w].mine.rows[j]
  <1>1. session[w] \in Session /\ session[w].loaded \in View /\ session[w].mine \in View
    BY DEF TypeInv, TypeOK, Session
  <1>2. ASSUME session[w].phase = "open", session[w].op \in {"generate", "recover"}
        PROVE  /\ j \in Jobs /\ row \in Row /\ OpenOK(session[w], pipe, job)
               /\ row.status = job[j].status /\ row.attempt = job[j].attempt
               /\ job[j].status # Absent /\ session[w].loaded.rows[j] = job[j]
               /\ session[w].mine.pipe = pipe
               /\ \A i \in Jobs \ {j} : session[w].mine.rows[i] = session[w].loaded.rows[i]
    <2>1. OpenOK(session[w], pipe, job) /\ j \in Jobs /\ job[j].status # Absent
      BY <1>2 DEF SerialInv, SessionOK, JobOps
    <2>. QED  BY <1>1, <1>2, <2>1 DEF OpenOK, JobOps, View
  <1>3. \A i \in Jobs : job[i].status = "running" => pipe \notin PipelineTerminal
    BY DEF SerialInv, RowsOK, Shown, StatusOf, PipelineTerminal, Absent
  <1>4. \A r \in Row : "failed" \in JobNext[r.status] \/ "preview_ready" \in JobNext[r.status]
                      => r.status = "running"
    BY Statuses DEF JobNext, Row
  <1>5. ASSUME session[w].phase = "open", session[w].op \in {"generate", "recover"},
               row.status = "running", NEW out \in Row, out.status \in {"preview_ready", "failed"},
               Flush(w, RolledUp(session[w].mine, j, out)), UNCHANGED <<pipe, job, reviewed, todo>>
        PROVE  SerialInv'
    <2>1. RolledUp(session[w].mine, j, out) \in View
      BY <1>1, <1>5, RolledUpTyped
    <2>2. /\ RolledUp(session[w].mine, j, out).pipe = Rollup(pipe, StatusesWith(j, out.status))
          /\ RolledUp(session[w].mine, j, out).rows = [session[w].mine.rows EXCEPT ![j] = out]
      BY <1>1, <1>2, <1>5 DEF RolledUp, View
    <2>3. pipe \notin PipelineTerminal
      BY <1>2, <1>3, <1>5
    <2>4. out.status \in JobNext[job[j].status] \ {"cancelled"} /\ out.status # Absent
          /\ out.status \notin {"approved", "published"}
      BY <1>2, <1>5 DEF JobNext, Absent
    <2>5. session[w].op \in JobOps
      BY <1>5 DEF JobOps
    <2>. QED  BY <1>5, <2>1, <2>2, <2>3, <2>4, <2>5, JobFlush
  <1>6. ASSUME session[w].op = "generate", Recovering(w), pipe' = pipe, UNCHANGED reviewed
        PROVE  SerialInv'
    <2>. DEFINE ses == Loading("recover", j, {j})
    <2>1. j \in Jobs /\ job[j].status # Absent /\ ~Idle(w)
      BY <1>6 DEF SerialInv, SessionOK, JobOps, Idle
    <2>2. OpenOK(ses, pipe, job)
      BY <2>1, JobOpens DEF JobOps
    <2>3. ses.phase = "open" /\ ses.job = j
      BY DEF Loading, Snapshot
    <2>4. session' = [session EXCEPT ![w] = ses] /\ UNCHANGED <<job, todo>>
      BY <1>6 DEF Recovering
    <2>. HIDE DEF ses
    <2>5. SessionOK(ses, pipe, job, reviewed)
      BY <2>1, <2>2, <2>3 DEF SessionOK
    <2>6. ClaimsExist'
      BY <2>4 DEF SerialInv, ClaimsExist
    <2>7. \A u \in Sessions \ {w} : Idle(u)
      BY <2>1, OthersIdle
    <2>. QED  BY <1>6, <2>4, <2>5, <2>6, <2>7, OneStep
  <1>7. CASE Sweep(w)
    BY <1>7, SweepSerial
  <1>8. ASSUME NEW i \in Jobs, StartJob(w, i) PROVE SerialInv'
    <2>1. job[i].status # Absent
      BY <1>8 DEF StartJob, SerialInv, ClaimsExist
    <2>2. OpenOK(Loading("generate", i, {i}), pipe, job)
      BY <2>1, JobOpens DEF JobOps
    <2>3. ClaimsExist'
      BY <1>8 DEF StartJob, SerialInv, ClaimsExist, TypeInv, TypeOK
    <2>. QED  BY <1>8, <2>1, <2>2, <2>3, BeginSerial DEF StartJob
  <1>9. CASE Intake(w)
    <2>. DEFINE out  == [row EXCEPT !.topic = session[w].loaded.rows[j].attempt]
                view == [session[w].mine EXCEPT !.rows = [@ EXCEPT ![j] = out]]
                ses  == [session[w] EXCEPT !.mine = view]
    <2>1. session[w].phase = "open" /\ session[w].op = "generate"
      BY <1>9 DEF Intake, Doing
    <2>2. session' = [session EXCEPT ![w] = [@ EXCEPT !.mine = view]]
          /\ UNCHANGED <<pipe, job, reviewed, todo>>
      BY <1>1, <1>2, <1>9, <2>1 DEF Intake, Session, View, Row
    <2>8. out.status = row.status /\ out.attempt = row.attempt
      BY <1>2, <2>1 DEF Row
    <2>. HIDE DEF out
    <2>9. /\ view.pipe = pipe
          /\ view.rows[j].status = row.status /\ view.rows[j].attempt = row.attempt
          /\ \A i \in Jobs \ {j} : view.rows[i] = session[w].mine.rows[i]
      BY <1>1, <1>2, <2>1, <2>8 DEF View
    <2>. HIDE DEF view
    <2>3. /\ ses.phase = "open" /\ ses.op = "generate" /\ ses.job = j
          /\ ses.loaded = session[w].loaded /\ ses.mine = view
      BY <1>1, <2>1 DEF Session
    <2>10. session' = [session EXCEPT ![w] = ses]
      BY <2>2 DEF TypeInv, TypeOK
    <2>. HIDE DEF ses
    <2>4. OpenOK(ses, pipe, job)
      BY <1>2, <2>1, <2>3, <2>9 DEF OpenOK, JobOps
    <2>5. SessionOK(ses, pipe, job, reviewed)
      BY <1>2, <2>1, <2>3, <2>4 DEF SessionOK
    <2>6. ClaimsExist'
      BY <2>2 DEF SerialInv, ClaimsExist
    <2>7. \A u \in Sessions \ {w} : Idle(u)
      BY <2>1, OthersIdle DEF Idle
    <2>. QED  BY <2>2, <2>10, <2>5, <2>6, <2>7, OneStep
  <1>10. CASE Pending(w)
    <2>1. session[w].phase = "open" /\ session[w].op = "generate" /\ Flush(w, session[w].mine)
          /\ UNCHANGED <<pipe, job, reviewed, todo>>
      BY <1>10 DEF Pending, Doing
    <2>2. ASSUME NEW i \in Jobs
          PROVE  LET after == Written(job[i], session[w].loaded.rows[i], session[w].mine.rows[i])
                 IN  /\ after.status = job[i].status /\ after.attempt = job[i].attempt
                     /\ job[i].status = Absent => after = job[i]
      <3>1. job[i] \in Row /\ session[w].mine.rows[i] \in Row
        BY <1>1 DEF TypeInv, TypeOK, View
      <3>2. CASE i = j
        BY <1>2, <2>1, <3>1, <3>2, WrittenFresh
      <3>3. CASE i # j
        BY <1>2, <2>1, <3>1, <3>3, WrittenFresh
      <3>. QED  BY <3>2, <3>3
    <2>. QED  BY <1>1, <1>2, <2>1, <2>2, StayFlush
  <1>11. CASE Preview(w)
    <2>. DEFINE draft == IF j \in HcvJobs THEN row.topic ELSE row.attempt
                out == [row EXCEPT !.status = "preview_ready", !.content = draft]
    <2>1. /\ session[w].phase = "open" /\ session[w].op = "generate"
          /\ "preview_ready" \in JobNext[row.status]
          /\ Flush(w, RolledUp(session[w].mine, j, out))
          /\ UNCHANGED <<pipe, job, reviewed, todo>>
      BY <1>11 DEF Preview, Doing
    <2>2. draft \in 0 .. MaxAttempt
      <3>1. row.topic \in 0 .. MaxAttempt /\ row.attempt \in Attempts
        BY <1>2, <2>1 DEF Row
      <3>2. Attempts \subseteq 0 .. MaxAttempt
        BY PipelineAssumption DEF Attempts
      <3>. QED  BY <3>1, <3>2
    <2>. HIDE DEF draft
    <2>3. out \in Row /\ out.status = "preview_ready"
      BY <1>2, <2>1, <2>2, Statuses DEF Row
    <2>. HIDE DEF out
    <2>. QED  BY <1>2, <1>4, <1>5, <2>1, <2>3
  <1>12. CASE GenerationFails(w)
    <2>1. /\ session[w].phase = "open" /\ session[w].op = "generate"
          /\ "failed" \in JobNext[row.status] /\ UNCHANGED <<pipe, job, reviewed, todo>>
      BY <1>12 DEF GenerationFails, Doing
    <2>2. PICK keep \in BOOLEAN :
            Flush(w, RolledUp(session[w].mine, j,
              [row EXCEPT !.status = "failed",
                          !.topic = IF keep THEN @ ELSE session[w].loaded.rows[j].topic]))
      BY <1>12 DEF GenerationFails
    <2>. DEFINE out == [row EXCEPT !.status = "failed",
                          !.topic = IF keep THEN @ ELSE session[w].loaded.rows[j].topic]
    <2>3. session[w].loaded.rows[j] \in Row
      BY <1>1, <1>2, <2>1 DEF View
    <2>4. out \in Row /\ out.status = "failed"
      BY <1>2, <2>1, <2>3, Statuses DEF Row
    <2>. HIDE DEF out
    <2>5. Flush(w, RolledUp(session[w].mine, j, out))
      BY <2>2 DEF out
    <2>. QED  BY <1>2, <1>4, <1>5, <2>1, <2>4, <2>5
  <1>13. CASE Refused(w)
    BY <1>6, <1>13 DEF Refused, Doing, Recovering
  <1>14. CASE JobRaises(w)
    BY <1>6, <1>14 DEF JobRaises, Recovering
  <1>15. CASE MarkFailed(w)
    <2>1. session[w].phase = "open" /\ session[w].op = "recover"
          /\ UNCHANGED <<pipe, job, reviewed, todo>>
      BY <1>15 DEF MarkFailed, Doing
    <2>2. CASE session' = [session EXCEPT ![w] = IdleSession]
      <3>1. ClaimsExist'
        BY <2>1 DEF SerialInv, ClaimsExist
      <3>. QED  BY <2>1, <2>2, <3>1, EndsIdle
    <2>3. CASE /\ "failed" \in JobNext[row.status]
               /\ Flush(w, RolledUp(session[w].mine, j, [row EXCEPT !.status = "failed"]))
      <3>. DEFINE out == [row EXCEPT !.status = "failed"]
      <3>1. out \in Row /\ out.status = "failed"
        BY <1>2, <2>1, Statuses DEF Row
      <3>2. Flush(w, RolledUp(session[w].mine, j, out))
        BY <2>3
      <3>. HIDE DEF out
      <3>. QED  BY <1>2, <1>4, <1>5, <2>1, <2>3, <3>1, <3>2
    <2>. QED  BY <1>15, <2>2, <2>3 DEF MarkFailed
  <1>16. CASE Die(w)
    <2>1. session' = [session EXCEPT ![w] = IdleSession] /\ UNCHANGED <<pipe, job, reviewed>>
      BY <1>16 DEF Die
    <2>2. ClaimsExist'
      BY <1>16 DEF Die, SerialInv, ClaimsExist, TypeInv, TypeOK
    <2>. QED  BY <2>1, <2>2, EndsIdle
  <1>. QED  BY <1>7, <1>8, <1>9, <1>10, <1>11, <1>12, <1>13, <1>14, <1>15, <1>16 DEF WorkerStep

--------------------------------------------------------------------------------
(***************************************************************************)
(* Requests                                                                *)
(***************************************************************************)

\* Flushing what changes the pipeline, and perhaps its jobs, as a whole.
LEMMA PipeFlush ==
  ASSUME TypeInv, SerialInv, NEW s \in Sessions, session[s].phase = "open",
         session[s].op \notin JobOps, NEW view \in View, NEW rows \in [Jobs -> Row],
         \A j \in Jobs : Written(job[j], session[s].loaded.rows[j], view.rows[j]) = rows[j],
         RowsOK(view.pipe, rows, reviewed), Settled(pipe, job, view.pipe, rows),
         Flush(s, view), UNCHANGED <<pipe, job, reviewed, todo>>
  PROVE  SerialInv'
  <1>. DEFINE done == [session[s] EXCEPT !.mine = view, !.phase = "flushed"]
  <1>1. session[s] \in Session /\ OpenOK(session[s], pipe, job)
    BY DEF SerialInv, SessionOK, TypeInv, TypeOK
  <1>2. done.op = session[s].op /\ done.loaded = session[s].loaded /\ done.mine = view
        /\ done.phase = "flushed"
    BY <1>1 DEF Session
  <1>3. session' = [session EXCEPT ![s] = done]
    BY DEF Flush, FlushAs
  <1>. HIDE DEF done
  <1>4. RowsAfter(done, job) = rows
    BY <1>2 DEF RowsAfter
  <1>5. ReviewedAfter(done, reviewed) = reviewed
    BY <1>2 DEF ReviewedAfter, Approves, JobOps, TypeInv, TypeOK
  <1>6. FlushedOK(done, pipe, job, reviewed)
    BY <1>1, <1>2, <1>4, <1>5 DEF FlushedOK, OpenOK
  <1>7. SessionOK(done, pipe, job, reviewed)
    BY <1>2, <1>6 DEF SessionOK
  <1>8. ClaimsExist'
    BY DEF SerialInv, ClaimsExist
  <1>9. \A u \in Sessions \ {s} : Idle(u)
    BY OthersIdle DEF Idle
  <1>. QED  BY <1>3, <1>7, <1>8, <1>9, OneStep

\* A status of a request that has no jobs yet.
LEMMA NoJobsYet ==
  ASSUME TypeInv, SerialInv, NEW p \in {"pending_approval", "approved", "declined", "expired"},
         \A j \in Jobs : job[j].status = Absent, pipe \notin PipelineTerminal
  PROVE  RowsOK(p, job, reviewed) /\ Settled(pipe, job, p, job)
  <1>1. RowsOK(pipe, job, reviewed)
    BY DEF SerialInv
  <1>2. Shown(p, StatusOf(job))
    BY DEF Shown, StatusOf, InWork, Absent, PipelineTerminal
  <1>. QED  BY <1>1, <1>2 DEF RowsOK, Settled

LEMMA OpenOnPipeline ==
  ASSUME TypeInv, SerialInv,
         NEW op \in {"approve", "decline", "close", "dismiss", "expire"}, MayOnPipeline[op]
  PROVE  OpenOK(Loading(op, NoJob, IF op = "close" THEN Jobs ELSE {}), pipe, job)
  <1>. DEFINE R   == IF op = "close" THEN Jobs ELSE {}
              ses == Loading(op, NoJob, R)
  <1>1. /\ ses.op = op /\ ses.mine = ses.loaded /\ ses.loaded.pipe = pipe
        /\ ses.loaded.rows = [j \in Jobs |-> IF j \in R THEN job[j] ELSE BlankRow]
    BY DEF Loading, Snapshot
  <1>. HIDE DEF ses
  <1>a. /\ MayOnPipeline.approve => "approved" \in PipelineNext[pipe]
        /\ MayOnPipeline.decline => "declined" \in PipelineNext[pipe]
        /\ MayOnPipeline.close => "closed" \in PipelineNext[pipe]
    BY DEF MayOnPipeline
  <1>b. /\ "approved" \in PipelineNext[pipe] \/ "declined" \in PipelineNext[pipe]
             => pipe = "pending_approval"
        /\ "closed" \in PipelineNext[pipe] => pipe \notin PipelineTerminal
    BY Statuses DEF PipelineNext, PipelineTerminal, TypeInv, TypeOK
  <1>2. op \in {"approve", "decline"} => /\ pipe = "pending_approval"
                                         /\ ses.loaded.rows = [j \in Jobs |-> BlankRow]
    BY <1>1, <1>a, <1>b
  <1>3. op = "close" => pipe \notin PipelineTerminal /\ ses.loaded.rows = job
    <2>1. op = "close" => pipe \notin PipelineTerminal
      BY <1>a, <1>b
    <2>2. op = "close" => ses.loaded.rows = job
      BY <1>1 DEF TypeInv, TypeOK
    <2>. QED  BY <2>1, <2>2
  <1>4. OpenOK(ses, pipe, job)
    BY <1>1, <1>2, <1>3 DEF OpenOK, JobOps
  <1>. QED  BY <1>4 DEF ses

\* approve_and_start inserts the first jobs of a request that has none.
LEMMA ApproveSerial ==
  ASSUME TypeInv, SerialInv, NEW r \in Requests, Approve(r)
  PROVE  SerialInv'
  <1>. DEFINE ses  == session[r]
              view == session[r].mine
  <1>1. ses.phase = "open" /\ ses.op = "approve" /\ UNCHANGED <<pipe, job, reviewed, todo>>
    BY DEF Approve, Doing, AtRest
  <1>2. ses \in Session /\ view \in View /\ ses.op \notin JobOps
    BY <1>1 DEF TypeInv, TypeOK, Session, JobOps
  <1>3. /\ OpenOK(ses, pipe, job) /\ pipe = "pending_approval" /\ view = ses.loaded
        /\ \A j \in Jobs : ses.loaded.rows[j] = BlankRow /\ view.rows[j] = BlankRow
    BY <1>1, <1>2 DEF SerialInv, SessionOK, OpenOK
  <1>4. \A j \in Jobs : job[j].status = Absent /\ job[j] = BlankRow
    BY <1>3 DEF SerialInv, RowsOK, Shown, StatusOf, AbsentIsBlank
  <1>5. pipe \notin PipelineTerminal /\ job \in [Jobs -> Row]
    BY <1>3 DEF PipelineTerminal, TypeInv, TypeOK
  <1>6. CASE Flush(r, [view EXCEPT !.pipe = "approved"])
    <2>. DEFINE next == [view EXCEPT !.pipe = "approved"]
    <2>1. next \in View /\ next.pipe = "approved" /\ next.rows = view.rows
      BY <1>2, Statuses DEF View
    <2>. HIDE DEF next
    <2>2. \A j \in Jobs : Written(job[j], ses.loaded.rows[j], next.rows[j]) = job[j]
      BY <1>3, <1>4, <1>5, <2>1, WrittenFresh
    <2>3. RowsOK(next.pipe, job, reviewed) /\ Settled(pipe, job, next.pipe, job)
      BY <1>4, <1>5, <2>1, NoJobsYet
    <2>4. Flush(r, next)
      BY <1>6 DEF next
    <2>. QED  BY <1>1, <1>2, <1>5, <2>1, <2>2, <2>3, <2>4, PipeFlush
  <1>7. ASSUME NEW new \in SUBSET (InStatus(Absent) \ LockedRows(r)), new # {},
               Flush(r, [trend |-> IF TrendMay(view.trend, "approved") THEN "approved"
                                                                       ELSE view.trend,
                         pipe  |-> "generating",
                         rows  |-> [j \in Jobs |-> IF j \in new
                                                   THEN [BlankRow EXCEPT !.status = "queued"]
                                                   ELSE view.rows[j]]])
        PROVE  SerialInv'
    <2>. DEFINE first == [BlankRow EXCEPT !.status = "queued"]
                rows  == [j \in Jobs |-> IF j \in new THEN first ELSE view.rows[j]]
                next  == [trend |-> IF TrendMay(view.trend, "approved") THEN "approved"
                                                                        ELSE view.trend,
                          pipe  |-> "generating", rows |-> rows]
    <2>1. Flush(r, next)
      BY <1>7
    <2>2. first \in Row /\ first.status = "queued"
      BY BlankTyped, Statuses DEF Row
    <2>3. new \subseteq Jobs
      BY DEF InStatus
    <2>. HIDE DEF first
    <2>4. \A j \in Jobs : rows[j] = IF j \in new THEN first ELSE BlankRow
      BY <1>3
    <2>5. rows \in [Jobs -> Row]
      BY <2>2, <2>4, BlankTyped
    <2>. HIDE DEF rows
    <2>6. next \in View /\ next.pipe = "generating" /\ next.rows = rows
      BY <1>2, <2>5, Statuses DEF View
    <2>. HIDE DEF next
    <2>7. \A j \in Jobs : Written(job[j], ses.loaded.rows[j], next.rows[j]) = rows[j]
      <3>. TAKE j \in Jobs
      <3>1. job[j] = BlankRow /\ ses.loaded.rows[j] = BlankRow /\ rows[j] \in Row
        BY <1>3, <1>4, <2>5
      <3>. QED  BY <2>6, <3>1, WrittenFresh, BlankTyped
    <2>8. \A j \in Jobs : rows[j].status = IF j \in new THEN "queued" ELSE Absent
      BY <2>2, <2>4 DEF BlankRow
    <2>9. Shown("generating", StatusOf(rows))
      BY <1>7, <2>3, <2>8 DEF Shown, StatusOf, InWork, PipelineTerminal
    <2>10. RowsOK(next.pipe, rows, reviewed)
      BY <2>4, <2>6, <2>8, <2>9 DEF RowsOK, AsReviewed, AbsentIsBlank, Absent
    <2>11. Settled(pipe, job, next.pipe, rows)
      BY <1>4, <1>5 DEF Settled, Absent
    <2>. QED  BY <1>1, <1>2, <2>1, <2>5, <2>6, <2>7, <2>10, <2>11, PipeFlush
  <1>. QED  BY <1>6, <1>7 DEF Approve

\* close: what it leaves is published, cancelled or was never there.
LEMMA CloseSerial ==
  ASSUME TypeInv, SerialInv, NEW r \in Requests, Close(r)
  PROVE  SerialInv'
  <1>. DEFINE ses  == session[r]
              view == session[r].mine
              rows == [j \in Jobs |-> IF view.rows[j].status \in Spared THEN view.rows[j]
                                     ELSE [view.rows[j] EXCEPT !.status = "cancelled"]]
              next == [view EXCEPT !.pipe = "closed", !.rows = rows]
  <1>1. ses.phase = "open" /\ ses.op = "close" /\ UNCHANGED <<pipe, job, reviewed, todo>>
        /\ Flush(r, next)
    BY DEF Close, Doing, AtRest
  <1>2. ses \in Session /\ view \in View /\ ses.op \notin JobOps
    BY <1>1 DEF TypeInv, TypeOK, Session, JobOps
  <1>3. pipe \notin PipelineTerminal /\ view = ses.loaded /\ ses.loaded.rows = job
    BY <1>1, <1>2 DEF SerialInv, SessionOK, OpenOK
  <1>4. job \in [Jobs -> Row] /\ RowsOK(pipe, job, reviewed)
    BY DEF TypeInv, TypeOK, SerialInv
  <1>5. \A j \in Jobs : /\ rows[j] \in Row
                        /\ IF job[j].status \in Spared THEN rows[j] = job[j]
                                                       ELSE rows[j].status = "cancelled"
    <2>. TAKE j \in Jobs
    <2>. DEFINE gone == [job[j] EXCEPT !.status = "cancelled"]
    <2>1. gone \in Row /\ gone.status = "cancelled"
      BY <1>4, Statuses, StatusSet
    <2>. HIDE DEF gone
    <2>2. rows[j] = IF job[j].status \in Spared THEN job[j] ELSE gone
      BY <1>3 DEF gone
    <2>. QED  BY <1>4, <2>1, <2>2
  <1>6. rows \in [Jobs -> Row]
    BY <1>5
  <1>. HIDE DEF rows
  <1>7. next \in View /\ next.pipe = "closed" /\ next.rows = rows
    BY <1>2, <1>6, Statuses DEF View
  <1>. HIDE DEF next
  <1>8. \A j \in Jobs : Written(job[j], ses.loaded.rows[j], next.rows[j]) = rows[j]
    BY <1>3, <1>4, <1>6, <1>7, WrittenFresh
  <1>9. RowsOK(next.pipe, rows, reviewed)
    <2>1. Shown("closed", StatusOf(rows))
      BY <1>5 DEF Shown, StatusOf, Spared, PipelineTerminal, Absent
    <2>2. AsReviewed(rows, reviewed) /\ AbsentIsBlank(rows)
      BY <1>4, <1>5 DEF RowsOK, AsReviewed, AbsentIsBlank, Absent
    <2>. QED  BY <1>7, <2>1, <2>2 DEF RowsOK
  <1>10. Settled(pipe, job, next.pipe, rows)
    BY <1>3, <1>5 DEF Settled, Spared, Absent
  <1>. QED  BY <1>1, <1>2, <1>6, <1>7, <1>8, <1>9, <1>10, PipeFlush

LEMMA RequestSerial ==
  ASSUME MaxOverlap = 1, TypeInv, SerialInv, NEW r \in Requests, RequestStep(r)
  PROVE  SerialInv'
  <1>. DEFINE ses  == session[r]
              view == session[r].mine
              j    == session[r].job
              row  == session[r].mine.rows[j]
  <1>a. ses \in Session /\ view \in View /\ ses.loaded \in View /\ job \in [Jobs -> Row]
    BY DEF TypeInv, TypeOK, Session
  <1>b. todo' = todo /\ job' = job => ClaimsExist'
    BY DEF SerialInv, ClaimsExist
  <1>c. ASSUME ses.phase = "open", ses.op \in {"review", "regenerate", "publish"}
        PROVE  /\ j \in Jobs /\ row \in Row /\ OpenOK(ses, pipe, job) /\ ses.op \in JobOps
               /\ row.status = job[j].status /\ row.attempt = job[j].attempt
               /\ pipe \notin PipelineTerminal /\ view.pipe = pipe
    <2>1. OpenOK(ses, pipe, job) /\ j \in Jobs
      BY <1>c DEF SerialInv, SessionOK, JobOps
    <2>. QED  BY <1>a, <1>c, <2>1 DEF OpenOK, JobOps, View
  <1>d. ASSUME ses.phase = "open", ses.op \notin JobOps
        PROVE  /\ view = ses.loaded /\ view.pipe = pipe
               /\ \A i \in Jobs : Written(job[i], ses.loaded.rows[i], view.rows[i]) = job[i]
    <2>1. OpenOK(ses, pipe, job)
      BY <1>d DEF SerialInv, SessionOK
    <2>2. view = ses.loaded /\ view.pipe = pipe /\ \A i \in Jobs : view.rows[i] \in Row
      BY <1>a, <1>d, <2>1 DEF OpenOK, View
    <2>. QED  BY <1>a, <2>2, WrittenFresh
  <1>1. ASSUME NEW op \in {"approve", "decline", "close", "dismiss", "expire"},
               RequestOnPipeline(r, op)
        PROVE  SerialInv'
    <2>1. OpenOK(Loading(op, NoJob, IF op = "close" THEN Jobs ELSE {}), pipe, job)
      BY <1>1, OpenOnPipeline DEF RequestOnPipeline
    <2>2. Begin(r, op, NoJob, IF op = "close" THEN Jobs ELSE {})
          /\ UNCHANGED <<pipe, job, reviewed, todo>>
      BY <1>1 DEF RequestOnPipeline, AtRest
    <2>3. op \notin JobOps
      BY DEF JobOps
    <2>. QED  BY <1>b, <2>1, <2>2, <2>3, BeginSerial
  <1>2. ASSUME NEW op \in {"review", "regenerate", "publish"}, NEW i \in Jobs,
               RequestOnJob(r, op, i)
        PROVE  SerialInv'
    <2>1. /\ pipe \notin PipelineTerminal /\ Begin(r, op, i, {i})
          /\ UNCHANGED <<pipe, job, reviewed, todo>>
          /\ op = "review" => {"approved", "rejected"} \cap JobNext[job[i].status] # {}
          /\ op = "regenerate" => "queued" \in JobNext[job[i].status]
          /\ op = "publish" => job[i].status = "approved"
      <3>1. /\ MayOnJob(i).review => {"approved", "rejected"} \cap JobNext[job[i].status] # {}
            /\ MayOnJob(i).regenerate => "queued" \in JobNext[job[i].status]
            /\ MayOnJob(i).publish => job[i].status = "approved"
        BY DEF MayOnJob
      <3>. QED  BY <1>2, <3>1 DEF RequestOnJob, AtRest
    <2>2. job[i].status # Absent /\ op \in JobOps
      BY <2>1 DEF JobNext, Absent, JobOps
    <2>3. OpenOK(Loading(op, i, {i}), pipe, job)
      BY <2>1, <2>2, JobOpens
    <2>. QED  BY <1>b, <2>1, <2>2, <2>3, BeginSerial
  <1>3. CASE Approve(r)
    BY <1>3, ApproveSerial
  <1>4. CASE Decline(r)
    <2>. DEFINE next == [view EXCEPT !.pipe = "declined",
                                     !.trend = IF @ = "proposed" THEN "declined" ELSE @]
    <2>1. ses.phase = "open" /\ ses.op = "decline" /\ ses.op \notin JobOps
          /\ UNCHANGED <<pipe, job, reviewed, todo>> /\ Flush(r, next)
      BY <1>4 DEF Decline, Doing, AtRest, JobOps
    <2>2. next \in View /\ next.pipe = "declined" /\ next.rows = view.rows
      BY <1>a, Statuses DEF View
    <2>. HIDE DEF next
    <2>3. pipe = "pending_approval"
      BY <2>1 DEF SerialInv, SessionOK, OpenOK
    <2>4. \A i \in Jobs : job[i].status = Absent
      BY <2>3 DEF SerialInv, RowsOK, Shown, StatusOf
    <2>5. RowsOK(next.pipe, job, reviewed) /\ Settled(pipe, job, next.pipe, job)
      BY <2>2, <2>3, <2>4, NoJobsYet DEF PipelineTerminal
    <2>. QED  BY <1>a, <1>d, <2>1, <2>2, <2>5, PipeFlush
  <1>5. CASE Close(r)
    BY <1>5, CloseSerial
  <1>6. ASSUME NEW next \in View, ses.phase = "open", ses.op \notin JobOps, next.pipe = pipe,
               next.rows = view.rows, UNCHANGED <<pipe, job, reviewed, todo>>, Flush(r, next)
        PROVE  SerialInv'
    <2>1. ses.op # "review"
      BY <1>6 DEF JobOps
    <2>2. \A i \in Jobs : Written(job[i], ses.loaded.rows[i], next.rows[i]) = job[i]
      BY <1>d, <1>6
    <2>. QED  BY <1>6, <2>1, <2>2, StayFlush
  <1>7. CASE Dismiss(r)
    <2>. DEFINE next == [view EXCEPT !.trend = "dismissed"]
    <2>1. ses.phase = "open" /\ ses.op \notin JobOps
          /\ UNCHANGED <<pipe, job, reviewed, todo>> /\ Flush(r, next)
      BY <1>7 DEF Dismiss, Doing, AtRest, JobOps
    <2>2. next \in View /\ next.pipe = pipe /\ next.rows = view.rows
      BY <1>a, <1>d, <2>1, Statuses DEF View
    <2>. HIDE DEF next
    <2>. QED  BY <1>6, <2>1, <2>2
  <1>8. CASE Expire(r)
    <2>. DEFINE pending == pipe = "pending_approval"
                next == [view EXCEPT !.trend = "expired",
                                     !.pipe = IF pending THEN "expired" ELSE @]
    <2>1. ses.phase = "open" /\ ses.op \notin JobOps
          /\ UNCHANGED <<pipe, job, reviewed, todo>> /\ Flush(r, next)
      BY <1>8 DEF Expire, Doing, AtRest, JobOps
    <2>2. next \in View /\ next.rows = view.rows
          /\ next.pipe = IF pending THEN "expired" ELSE pipe
      BY <1>a, <1>d, <2>1, Statuses DEF View
    <2>. HIDE DEF next
    <2>3. CASE pending
      <3>1. \A i \in Jobs : job[i].status = Absent
        BY <2>3 DEF SerialInv, RowsOK, Shown, StatusOf
      <3>2. RowsOK(next.pipe, job, reviewed) /\ Settled(pipe, job, next.pipe, job)
        BY <2>2, <2>3, <3>1, NoJobsYet DEF PipelineTerminal
      <3>. QED  BY <1>a, <1>d, <2>1, <2>2, <3>2, PipeFlush
    <2>4. CASE ~pending
      BY <1>6, <2>1, <2>2, <2>4
    <2>. QED  BY <2>3, <2>4
  \* The three that move a job and roll up.
  <1>9. ASSUME NEW out \in Row, ses.phase = "open", ses.op \in {"review", "regenerate", "publish"},
               out.status \in JobNext[job[j].status], out.status \notin {"cancelled", Absent},
               out.status \in {"approved", "published"} =>
                 out.attempt = IF ses.op = "review" /\ out.status = "approved"
                               THEN job[j].attempt ELSE reviewed[j],
               NEW next \in View, next.pipe = RolledUp(view, j, out).pipe,
               next.rows = RolledUp(view, j, out).rows,
               UNCHANGED <<pipe, job, reviewed, todo>>, Flush(r, next)
        PROVE  SerialInv'
    <2>1. /\ next.pipe = Rollup(pipe, StatusesWith(j, out.status))
          /\ next.rows = [view.rows EXCEPT ![j] = out]
      BY <1>a, <1>c, <1>9 DEF RolledUp, View
    <2>. QED  BY <1>c, <1>9, <2>1, JobFlush
  <1>10. CASE Review(r)
    <2>1. ses.phase = "open" /\ ses.op = "review" /\ UNCHANGED <<pipe, job, reviewed, todo>>
      BY <1>10 DEF Review, Doing, AtRest
    <2>2. PICK verdict \in {"approved", "rejected"} \cap JobNext[row.status] :
            Flush(r, RolledUp(view, j, [row EXCEPT !.status = verdict]))
      BY <1>10 DEF Review
    <2>. DEFINE out == [row EXCEPT !.status = verdict]
    <2>3. out \in Row /\ out.status = verdict /\ out.attempt = job[j].attempt
      BY <1>c, <2>1, <2>2, Statuses DEF Row
    <2>4. Flush(r, RolledUp(view, j, out))
      BY <2>2
    <2>. HIDE DEF out
    <2>5. RolledUp(view, j, out) \in View
      BY <1>a, <2>3, RolledUpTyped
    <2>6. out.status \in JobNext[job[j].status] /\ out.status \in {"approved", "rejected"}
      BY <1>c, <2>1, <2>2, <2>3
    <2>. QED  BY <1>9, <2>1, <2>3, <2>4, <2>5, <2>6 DEF Absent
  <1>11. CASE Regenerate(r)
    <2>. DEFINE drafts == row.archived \cup ({row.content} \ {0})
                out    == [row EXCEPT !.status = "queued", !.attempt = @ + 1, !.content = 0,
                                      !.archived = drafts]
    <2>1. ses.phase = "open" /\ ses.op = "regenerate" /\ row.attempt < MaxAttempt
          /\ UNCHANGED <<pipe, job, reviewed, todo>> /\ Flush(r, RolledUp(view, j, out))
      BY <1>11 DEF Regenerate, Doing, AtRest
    <2>2. row \in Row
      BY <1>c, <2>1
    <2>3. row.attempt + 1 \in Attempts /\ 0 \in 0 .. MaxAttempt
      BY <2>1, <2>2, PipelineAssumption DEF Row, Attempts
    <2>4. drafts \in SUBSET Attempts
      BY <2>2, PipelineAssumption DEF Row, Attempts
    <2>5. out \in Row /\ out.status = "queued"
      BY <2>2, <2>3, <2>4, Statuses DEF Row
    <2>. HIDE DEF out
    <2>6. RolledUp(view, j, out) \in View
      BY <1>a, <2>5, RolledUpTyped
    <2>7. out.status \in JobNext[job[j].status]
      BY <1>c, <2>1, <2>5 DEF OpenOK
    <2>. QED  BY <1>9, <2>1, <2>5, <2>6, <2>7 DEF Absent
  <1>12. CASE Publish(r)
    <2>. DEFINE out  == [row EXCEPT !.status = "published"]
                next == RolledUp(view, j, out)
    <2>1. ses.phase = "open" /\ ses.op = "publish" /\ UNCHANGED <<pipe, job, reviewed, todo>>
      BY <1>12 DEF Publish, Doing, AtRest
    <2>2. \/ Flush(r, [next EXCEPT !.trend = "completed"])
          \/ Flush(r, next)
          \/ session' = [session EXCEPT ![r] = IdleSession]
      BY <1>12 DEF Publish
    <2>3. out \in Row /\ out.status = "published" /\ out.attempt = job[j].attempt
      BY <1>c, <2>1, Statuses DEF Row
    <2>. HIDE DEF out
    <2>4. job[j].status = "approved"
      BY <1>c, <2>1 DEF OpenOK
    <2>5. job[j].attempt = reviewed[j]
      BY <1>c, <2>1, <2>4 DEF SerialInv, RowsOK, AsReviewed
    <2>6. next \in View
      BY <1>a, <2>3, RolledUpTyped
    <2>7. out.status \in JobNext[job[j].status]
      BY <2>3, <2>4 DEF JobNext
    <2>8. CASE session' = [session EXCEPT ![r] = IdleSession]
      BY <1>b, <2>1, <2>8, EndsIdle
    <2>9. CASE Flush(r, next)
      BY <1>9, <2>1, <2>3, <2>5, <2>6, <2>7, <2>9 DEF Absent
    <2>10. CASE Flush(r, [next EXCEPT !.trend = "completed"])
      <3>. DEFINE last == [next EXCEPT !.trend = "completed"]
      <3>. HIDE DEF next
      <3>1. last \in View /\ last.pipe = next.pipe /\ last.rows = next.rows
        BY <2>6, Statuses DEF View
      <3>2. last.pipe = RolledUp(view, j, out).pipe /\ last.rows = RolledUp(view, j, out).rows
        BY <3>1 DEF next
      <3>3. Flush(r, last)
        BY <2>10
      <3>. HIDE DEF last
      <3>. QED  BY <1>9, <2>1, <2>3, <2>5, <2>7, <3>1, <3>2, <3>3 DEF Absent
    <2>. QED  BY <2>2, <2>8, <2>9, <2>10
  <1>13. CASE Abort(r)
    <2>1. session' = [session EXCEPT ![r] = IdleSession] /\ UNCHANGED <<pipe, job, reviewed, todo>>
      BY <1>13 DEF Abort
    <2>. QED  BY <1>b, <2>1, EndsIdle
  <1>. QED  BY <1>1, <1>2, <1>3, <1>4, <1>5, <1>7, <1>8, <1>10, <1>11, <1>12, <1>13
            DEF RequestStep

--------------------------------------------------------------------------------
(***************************************************************************)
(* The commit, and the theorems                                            *)
(***************************************************************************)

\* What was flushed is what is written.
LEMMA CommitSerial ==
  ASSUME TypeInv, SerialInv, NEW s \in Sessions, Commit(s)
  PROVE  SerialInv' /\ Settled(pipe, job, pipe', job')
  <1>. DEFINE ses == session[s]
  <1>1. ses.phase = "flushed" /\ FlushedOK(ses, pipe, job, reviewed) /\ ~Idle(s)
    BY DEF Commit, SerialInv, SessionOK, Idle
  <1>2. /\ pipe' = ses.mine.pipe /\ job' = RowsAfter(ses, job)
        /\ reviewed' = ReviewedAfter(ses, reviewed)
    BY <1>1 DEF Commit, Column, RowsAfter, ReviewedAfter, FlushedOK
  <1>3. RowsOK(pipe', job', reviewed') /\ Settled(pipe, job, pipe', job')
    BY <1>1, <1>2 DEF FlushedOK
  <1>4. \A u \in Sessions : session'[u] = IF u = s THEN IdleSession ELSE session[u]
    BY DEF Commit, TypeInv, TypeOK
  <1>5. \A u \in Sessions : session'[u].phase = "idle"
    BY <1>1, <1>4, OthersIdle DEF Idle, IdleSession
  <1>6. \A u \in Sessions : session'[u].op = "none"
    BY <1>4, <1>5 DEF SerialInv, SessionOK, IdleSession
  <1>7. \A u \in Sessions : SessionOK(session'[u], pipe', job', reviewed')
    BY <1>5, <1>6 DEF SessionOK, JobOps
  <1>8. Alone'
    BY <1>5 DEF Alone, Idle
  <1>9. ClaimsExist'
    <2>1. \A i \in Jobs : job[i].status # Absent => job'[i].status # Absent
      BY <1>3 DEF Settled
    <2>2. todo' = todo
      BY DEF Commit
    <2>. QED  BY <2>1, <2>2 DEF SerialInv, ClaimsExist, TypeInv, TypeOK
  <1>. QED  BY <1>3, <1>7, <1>8, <1>9 DEF SerialInv

LEMMA SerialStart == Init => SerialInv
  <1>. SUFFICES ASSUME Init PROVE SerialInv
    OBVIOUS
  <1>1. \A s \in Sessions : session[s] = IdleSession
    BY DEF Init
  <1>2. RowsOK(pipe, job, reviewed)
    BY DEF Init, RowsOK, Shown, StatusOf, AsReviewed, AbsentIsBlank, BlankRow, Absent, InWork,
           PipelineTerminal
  <1>3. Alone
    BY <1>1 DEF Alone, Idle, IdleSession
  <1>4. ClaimsExist
    BY DEF Init, ClaimsExist
  <1>. QED  BY <1>1, <1>2, <1>3, <1>4, IdleOK DEF SerialInv

\* Only a commit touches the rows.
LEMMA OnlyCommits ==
  ASSUME [Next]_vars
  PROVE  UNCHANGED <<pipe, job>> \/ \E s \in Sessions : Commit(s)
  <1>1. ASSUME NEW w \in Workers, WorkerStep(w)  PROVE UNCHANGED <<pipe, job>>
    BY <1>1 DEF WorkerStep, Sweep, StartJob, Intake, Pending, Preview, GenerationFails, Refused,
                JobRaises, Recovering, MarkFailed, Die
  <1>2. ASSUME NEW r \in Requests, RequestStep(r)  PROVE UNCHANGED <<pipe, job>>
    BY <1>2 DEF RequestStep, RequestOnPipeline, RequestOnJob, AtRest, Approve, Decline, Close,
                Dismiss, Expire, Review, Regenerate, Publish, Abort
  <1>. QED  BY <1>1, <1>2 DEF Next, Lapse, Deadline, vars

LEMMA SerialNext ==
  ASSUME MaxOverlap = 1, TypeInv, SerialInv, [Next]_vars
  PROVE  SerialInv' /\ Settled(pipe, job, pipe', job')
  <1>1. ASSUME UNCHANGED <<pipe, job>>  PROVE Settled(pipe, job, pipe', job')
    BY <1>1 DEF Settled
  <1>2. ASSUME UNCHANGED <<pipe, job, session, todo, reviewed>>  PROVE SerialInv'
    BY <1>2 DEF SerialInv, Alone, Idle, ClaimsExist
  <1>3. ASSUME NEW s \in Sessions, Commit(s)  PROVE SerialInv' /\ Settled(pipe, job, pipe', job')
    BY <1>3, CommitSerial
  <1>4. CASE \E j \in Jobs : Lapse(j) \/ Deadline(j)
    BY <1>1, <1>2, <1>4 DEF Lapse, Deadline
  <1>5. CASE UNCHANGED vars
    BY <1>1, <1>2, <1>5 DEF vars
  <1>. QED  BY <1>1, <1>3, <1>4, <1>5, WorkerSerial, RequestSerial, OnlyCommits DEF Next

LEMMA SerialInvariant == MaxOverlap = 1 => (Spec => []SerialInv)
  <1>. SUFFICES ASSUME MaxOverlap = 1 PROVE Spec => []SerialInv
    OBVIOUS
  <1>1. TypeInv /\ SerialInv /\ [Next]_vars => SerialInv'
    BY SerialNext
  <1>. QED  BY <1>1, SerialStart, TypeInvariant, PTL DEF Spec

LEMMA SettledAlways ==
  MaxOverlap = 1 => (Spec => [][Settled(pipe, job, pipe', job')]_vars)
  <1>. SUFFICES ASSUME MaxOverlap = 1 PROVE Spec => [][Settled(pipe, job, pipe', job')]_vars
    OBVIOUS
  <1>1. TypeInv /\ SerialInv /\ [Next]_vars => [Settled(pipe, job, pipe', job')]_vars
    BY SerialNext
  <1>2. Spec => []SerialInv
    BY SerialInvariant
  <1>. QED  BY <1>1, <1>2, TypeInvariant, PTL DEF Spec

\* Serially, a dead request has no job that a worker may run or an editor may act on.
THEOREM NothingLivesInTheClosed == MaxOverlap = 1 => (Spec => []ClosedHasNoLiveJobs)
  <1>. SUFFICES ASSUME MaxOverlap = 1 PROVE Spec => []ClosedHasNoLiveJobs
    OBVIOUS
  <1>1. SerialInv => ClosedHasNoLiveJobs
    BY DEF SerialInv, RowsOK, Shown, StatusOf, ClosedHasNoLiveJobs, PipelineTerminal, Absent
  <1>2. Spec => []SerialInv
    BY SerialInvariant
  <1>. QED  BY <1>1, <1>2, PTL

\* Serially, the status an editor sees follows the jobs: no roll-up is forgotten by a route,
\* and none is dropped by the table where it would have mattered.
THEOREM StatusFollowsJobs == MaxOverlap = 1 => (Spec => []StatusShowsJobs)
  <1>. SUFFICES ASSUME MaxOverlap = 1 PROVE Spec => []StatusShowsJobs
    OBVIOUS
  <1>1. SerialInv => StatusShowsJobs
    <2>. SUFFICES ASSUME SerialInv, pipe \notin PipelineTerminal
                  PROVE  LET S == {job[j].status : j \in Jobs}
                         IN  /\ S \cap InWork # {} => pipe = "generating"
                             /\ S \cap InWork = {} /\ S \cap {"preview_ready", "approved"} # {}
                                  => pipe = "previews_ready"
      BY DEF StatusShowsJobs
    <2>1. /\ (\E j \in Jobs : job[j].status \in InWork) => pipe = "generating"
          /\ (\A j \in Jobs : job[j].status \notin InWork)
               /\ (\E j \in Jobs : job[j].status \in {"preview_ready", "approved"})
               => pipe = "previews_ready"
      BY DEF SerialInv, RowsOK, Shown, StatusOf
    <2>. QED  BY <2>1
  <1>2. Spec => []SerialInv
    BY SerialInvariant
  <1>. QED  BY <1>1, <1>2, PTL

\* Serially, what is published is the attempt the editor approved: no regeneration, failure or
\* retry comes between the verdict and the publication.
THEOREM ReviewedIsPublished == MaxOverlap = 1 => (Spec => []PublishedAsReviewed)
  <1>. SUFFICES ASSUME MaxOverlap = 1 PROVE Spec => []PublishedAsReviewed
    OBVIOUS
  <1>1. SerialInv => PublishedAsReviewed
    BY DEF SerialInv, RowsOK, AsReviewed, PublishedAsReviewed
  <1>2. Spec => []SerialInv
    BY SerialInvariant
  <1>. QED  BY <1>1, <1>2, PTL

\* Serially, a declined, closed or expired request stays so, whatever its workers still do.
THEOREM ClosedForGood == MaxOverlap = 1 => (Spec => ClosedStaysClosed)
  <1>. SUFFICES ASSUME MaxOverlap = 1 PROVE Spec => ClosedStaysClosed
    OBVIOUS
  <1>1. [Settled(pipe, job, pipe', job')]_vars
          => [(pipe \in PipelineTerminal) => (pipe' = pipe)]_vars
    BY DEF Settled
  <1>2. Spec => [][Settled(pipe, job, pipe', job')]_vars
    BY SettledAlways
  <1>. QED  BY <1>1, <1>2, PTL DEF ClosedStaysClosed

\* Serially, what was published or cancelled stays so.
THEOREM SettledForGood == MaxOverlap = 1 => (Spec => SettledJobsStay)
  <1>. SUFFICES ASSUME MaxOverlap = 1 PROVE Spec => SettledJobsStay
    OBVIOUS
  <1>1. [Settled(pipe, job, pipe', job')]_vars
          => [\A j \in Jobs : job[j].status \in {"published", "cancelled"}
                                => job'[j].status = job[j].status]_vars
    BY DEF Settled
  <1>2. Spec => [][Settled(pipe, job, pipe', job')]_vars
    BY SettledAlways
  <1>. QED  BY <1>1, <1>2, PTL DEF SettledJobsStay

================================================================================
