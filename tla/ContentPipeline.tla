---------------------------- MODULE ContentPipeline ----------------------------
(***************************************************************************)
(* One trigger request of the trend pipeline (trends/pipeline.py,          *)
(* trends/repo.py), its jobs and its trend, as the transactions that       *)
(* touch them.  The rows live in Postgres (READ COMMITTED).  A transaction *)
(* is a session that loads rows, validates what it LOADED, awaits whatever *)
(* it awaits, flushes the columns it changed (which takes the row locks)   *)
(* and commits.  Nothing re-reads a loaded row before overwriting it.      *)
(*                                                                         *)
(* Workers run run_job_sweep (the web fast path and the scheduler each     *)
(* run it); Requests are the web requests of editors and the hourly        *)
(* expiry.  A worker claims jobs in one short transaction, then runs each  *)
(* in a transaction of its own around an external generation.              *)
(*                                                                         *)
(* Outside the model: the suppression gate of approve_and_start (the trend *)
(* is not suppressed), a trend row deleted under its pipeline, the         *)
(* claim's limit of 5 (a pipeline has at most 4 jobs), RBAC.               *)
(***************************************************************************)
EXTENDS Lifecycle, Naturals, FiniteSets

CONSTANTS
  Jobs,        \* job rows that approvals may insert
  HcvJobs,     \* those whose transport is hc_viral_hits; the others finish in one call
  NoJob,       \* "this session is about no particular job"
  Workers,     \* processes running the job sweep
  Requests,    \* concurrent web requests (and the expiry sweep)
  KillSwitch,  \* SWITCHBOARD_KILL_SWITCH, read once per process
  MaxOverlap,  \* how many transactions may be open at once
  MaxAttempt,  \* bound: regenerations of a job, plus one
  MaxEffects,  \* bound: external intakes, and external pushes, per job
  MaxFaults    \* bound: crashes, aborts and exceptions in a behaviour

ASSUME PipelineAssumption ==
  /\ HcvJobs \subseteq Jobs
  /\ NoJob \notin Jobs
  /\ Workers \cap Requests = {}
  /\ KillSwitch \in BOOLEAN
  /\ MaxOverlap \in Nat
  /\ MaxAttempt \in Nat \ {0}
  /\ MaxEffects \in Nat
  /\ MaxFaults \in Nat

VARIABLES
  trend,      \* status of the trend row
  pipe,       \* status of the content_pipeline row
  job,        \* the content_job rows
  session,    \* the transaction each worker or request has open
  todo,       \* job ids a worker has claimed and not started
  lapsed,     \* jobs whose updated_at is behind the cutoff that applies to them
  overdue,    \* jobs whose external pipeline started more than 45 minutes ago
  intakes,    \* topics created at hc-viral-hits for a job (external, not rolled back)
  pushes,     \* Emaki pushes or hand-offs made for a job (external, not rolled back)
  reviewed,   \* history: the attempt an editor last approved of a job (0: none)
  approvals,  \* history: how many approvals of the request have committed
  faults      \* crashes, aborts and exceptions so far

vars == <<trend, pipe, job, session, todo, lapsed, overdue, intakes, pushes,
          reviewed, approvals, faults>>

Sessions == Workers \cup Requests
Attempts == 1 .. MaxAttempt

(***************************************************************************)
(* A job row.  topic is the external_ref: the attempt whose intake made    *)
(* the hc-viral topic, 0 when NULL.  content is the preview: the attempt   *)
(* whose draft it is, 0 when there is none.  archived are the drafts that  *)
(* regenerations have put in its history.                                  *)
(***************************************************************************)
Row == [status : JobStatus, attempt : Attempts,
        topic : 0 .. MaxAttempt, content : 0 .. MaxAttempt, archived : SUBSET Attempts]

\* (mutant: the attempt column starts at zero)
BlankRowFromZero == [status |-> Absent, attempt |-> 0, topic |-> 0, content |-> 0,
                     archived |-> {}]

BlankRow == [status |-> Absent, attempt |-> 1, topic |-> 0, content |-> 0, archived |-> {}]

\* The rows a session holds; a row it has not loaded is blank.
View == [trend : TrendStatus, pipe : PipelineStatus, rows : [Jobs -> Row]]

BlankView == [trend |-> "proposed", pipe |-> "pending_approval",
              rows |-> [j \in Jobs |-> BlankRow]]

Ops == {"none", "sweep", "generate", "recover", "approve", "decline", "close",
        "review", "regenerate", "publish", "dismiss", "expire"}

Session == [phase : {"idle", "open", "flushed"}, op : Ops, job : Jobs \cup {NoJob},
            loaded : View, mine : View]

IdleSession == [phase |-> "idle", op |-> "none", job |-> NoJob,
                loaded |-> BlankView, mine |-> BlankView]

Idle(s)       == session[s].phase = "idle"
Doing(s, op)  == session[s].phase = "open" /\ session[s].op = op
OpenSessions  == {s \in Sessions : ~Idle(s)}

Init ==
  /\ trend = "proposed"
  /\ pipe = "pending_approval"
  /\ job = [j \in Jobs |-> BlankRow]
  /\ session = [s \in Sessions |-> IdleSession]
  /\ todo = [w \in Workers |-> {}]
  /\ lapsed = {}
  /\ overdue = {}
  /\ intakes = [j \in Jobs |-> 0]
  /\ pushes = [j \in Jobs |-> 0]
  /\ reviewed = [j \in Jobs |-> 0]
  /\ approvals = 0
  /\ faults = 0

--------------------------------------------------------------------------------
(***************************************************************************)
(* Sessions: load, flush, commit, roll back                                *)
(***************************************************************************)

\* What is committed now, of the pipeline, its trend and the job rows R.
Snapshot(R) ==
  [trend |-> trend, pipe |-> pipe,
   rows  |-> [j \in Jobs |-> IF j \in R THEN job[j] ELSE BlankRow]]

Loading(op, j, R) ==
  [phase |-> "open", op |-> op, job |-> j, loaded |-> Snapshot(R), mine |-> Snapshot(R)]

Begin(s, op, j, R) ==
  /\ Idle(s)
  /\ Cardinality(OpenSessions) < MaxOverlap
  /\ session' = [session EXCEPT ![s] = Loading(op, j, R)]

\* The job rows a session writes: those it changed, and the ones it is about (updated_at).
WritesRows(ses) ==
  {j \in Jobs : \/ ses.mine.rows[j] # ses.loaded.rows[j]
                \/ ses.job = j
                \/ ses.op = "sweep" /\ ses.mine.rows[j].status # Absent}

WritesPipe(ses) == ses.mine.pipe # ses.loaded.pipe \/ ses.op \in {"review", "regenerate"}

\* Workers and publish update the pipeline last, right before they commit; the others
\* before they read anything else (review and regenerate log an event on it).
PipeLast == {"sweep", "generate", "recover", "publish"}

\* Row locks are held from the flush to the commit.
Flushed(s) == {u \in Sessions \ {s} : session[u].phase = "flushed"}

LockedRows(s) == UNION {WritesRows(session[u]) : u \in Flushed(s)}

PipeLocked(s) == \E u \in Flushed(s) : WritesPipe(session[u]) /\ session[u].op \notin PipeLast

\* s sends its UPDATEs; it waits while another session holds one of the rows.
FlushAs(s, ses) ==
  /\ WritesRows(ses) \cap LockedRows(s) = {}
  /\ WritesPipe(ses) /\ ses.op \notin PipeLast => ~PipeLocked(s)
  /\ session' = [session EXCEPT ![s] = [ses EXCEPT !.phase = "flushed"]]

Flush(s, view) == FlushAs(s, [session[s] EXCEPT !.mine = view])

\* An UPDATE sets the columns whose value differs from the loaded one.
Column(now, loaded, mine) == IF mine # loaded THEN mine ELSE now

Written(now, loaded, mine) ==
  [status  |-> Column(now.status, loaded.status, mine.status),
   attempt |-> Column(now.attempt, loaded.attempt, mine.attempt),
   topic   |-> Column(now.topic, loaded.topic, mine.topic),
   content |-> Column(now.content, loaded.content, mine.content),
   archived |-> Column(now.archived, loaded.archived, mine.archived)]

Approves(ses, j) == ses.op = "review" /\ ses.job = j /\ ses.mine.rows[j].status = "approved"

Commit(s) ==
  LET ses == session[s]
  IN  /\ ses.phase = "flushed"
      /\ WritesPipe(ses) /\ ses.op \in PipeLast => ~PipeLocked(s)
      /\ trend' = Column(trend, ses.loaded.trend, ses.mine.trend)
      /\ pipe' = Column(pipe, ses.loaded.pipe, ses.mine.pipe)
      /\ job' = [j \in Jobs |-> Written(job[j], ses.loaded.rows[j], ses.mine.rows[j])]
      /\ lapsed' = lapsed \ WritesRows(ses)
      /\ reviewed' = [j \in Jobs |-> IF Approves(ses, j) THEN ses.loaded.rows[j].attempt
                                                         ELSE reviewed[j]]
      /\ approvals' = IF ses.op = "approve" THEN approvals + 1 ELSE approvals
      /\ session' = [session EXCEPT ![s] = IdleSession]
      /\ UNCHANGED <<todo, overdue, intakes, pushes, faults>>

Fault == faults < MaxFaults /\ faults' = faults + 1

\* A request ends in an error (lost connection, deadlock victim, failed push): rolled back.
Abort(r) ==
  /\ ~Idle(r)
  /\ Fault
  /\ session' = [session EXCEPT ![r] = IdleSession]
  /\ UNCHANGED <<trend, pipe, job, todo, lapsed, overdue, intakes, pushes, reviewed, approvals>>

\* The rows and the pipeline status refresh_rollup sees in a session holding view for row j.
StatusesWith(j, status) ==
  ({job[i].status : i \in Jobs \ {j}} \cup {status}) \ {Absent}

\* The session's own job moved to a new row, and the pipeline rolled up after it.
RolledUp(view, j, row) ==
  [view EXCEPT !.rows[j] = row, !.pipe = Rollup(view.pipe, StatusesWith(j, row.status))]

--------------------------------------------------------------------------------
(***************************************************************************)
(* The job worker                                                          *)
(***************************************************************************)

InStatus(status) == {j \in Jobs : job[j].status = status}

\* (mutant: jobs waiting on their external pipeline are never claimed again)
ResumedNever(old) == {}

\* A lapsed running job is polled again if its hc-viral topic is known, else given up.
Resumed(old) == {j \in old : job[j].topic # 0}
Reaped(old)  == {j \in old : job[j].topic = 0}

\* claim_queued, claim_stuck_running and reap_dead_running: one short transaction, which
\* skips the rows that others have locked.
Sweep(w) ==
  LET free   == Jobs \ LockedRows(w)
      queued == InStatus("queued") \cap free
      stuck  == Resumed(InStatus("running") \cap lapsed \cap free)
      dead   == Reaped(InStatus("running") \cap lapsed \cap free)
      new    == [j \in Jobs |-> IF j \in queued THEN "running"
                               ELSE IF j \in dead THEN "failed" ELSE job[j].status]
      rolled == Rollup(pipe, {new[j] : j \in Jobs} \ {Absent})
      ses    == Loading("sweep", NoJob, queued \cup stuck \cup dead)
  IN  /\ Idle(w) /\ todo[w] = {}
      /\ queued \cup stuck \cup dead # {}
      /\ Cardinality(OpenSessions) < MaxOverlap
      /\ FlushAs(w, [ses EXCEPT
           !.mine.pipe = IF dead = {} THEN pipe ELSE rolled,
           !.mine.rows = [j \in Jobs |-> IF j \in queued \cup dead
                                         THEN [job[j] EXCEPT !.status = new[j]]
                                         ELSE ses.mine.rows[j]]])
      /\ todo' = [todo EXCEPT ![w] = queued \cup stuck]
      /\ UNCHANGED <<trend, pipe, job, lapsed, overdue, intakes, pushes, reviewed,
                     approvals, faults>>

\* _run_job loads a claimed job; its status is not looked at again before generating.
StartJob(w, j) ==
  /\ j \in todo[w]
  /\ Begin(w, "generate", j, {j})
  /\ todo' = [todo EXCEPT ![w] = @ \ {j}]
  /\ UNCHANGED <<trend, pipe, job, lapsed, overdue, intakes, pushes, reviewed, approvals, faults>>

\* The paid, irreversible part of an hc-viral generation: the topic exists from here on,
\* its id is only in this worker's memory.
Intake(w) ==
  LET j == session[w].job
  IN  /\ Doing(w, "generate")
      /\ j \in HcvJobs
      /\ ~KillSwitch
      /\ session[w].mine.rows[j].topic = 0
      /\ intakes[j] < MaxEffects
      /\ session' = [session EXCEPT ![w].mine.rows[j].topic = session[w].loaded.rows[j].attempt]
      /\ intakes' = [intakes EXCEPT ![j] = @ + 1]
      /\ overdue' = overdue \ {j}
      /\ UNCHANGED <<trend, pipe, job, todo, lapsed, pushes, reviewed, approvals, faults>>

\* The external pipeline is not ready and its deadline not reached: keep the topic, poll later.
Pending(w) ==
  LET j == session[w].job
  IN  /\ Doing(w, "generate")
      /\ ~KillSwitch
      /\ session[w].mine.rows[j].topic # 0
      /\ j \notin overdue
      /\ Flush(w, session[w].mine)
      /\ UNCHANGED <<trend, pipe, job, todo, lapsed, overdue, intakes, pushes,
                     reviewed, approvals, faults>>

\* (mutant: a preview needs no verdict)
PreviewAutoApproved(w) ==
  LET j   == session[w].job
      row == session[w].mine.rows[j]
  IN  /\ Doing(w, "generate")
      /\ row.status = "running"
      /\ Flush(w, RolledUp(session[w].mine, j, [row EXCEPT !.status = "approved"]))
      /\ UNCHANGED <<trend, pipe, job, todo, lapsed, overdue, intakes, pushes,
                     reviewed, approvals, faults>>

\* A draft came back.  hc-viral returns its topic's draft, whichever attempt asked for it.
Preview(w) ==
  LET j   == session[w].job
      row == session[w].mine.rows[j]
      draft == IF j \in HcvJobs THEN row.topic ELSE row.attempt
  IN  /\ Doing(w, "generate")
      /\ ~KillSwitch
      /\ draft # 0
      /\ "preview_ready" \in JobNext[row.status]
      /\ Flush(w, RolledUp(session[w].mine, j,
                           [row EXCEPT !.status = "preview_ready", !.content = draft]))
      /\ UNCHANGED <<trend, pipe, job, todo, lapsed, overdue, intakes, pushes,
                     reviewed, approvals, faults>>

\* Generation failed or was refused.  A failure between the intake and the topic id
\* (keep = FALSE) leaves no checkpoint.
GenerationFails(w) ==
  LET j   == session[w].job
      row == session[w].mine.rows[j]
  IN  /\ Doing(w, "generate")
      /\ "failed" \in JobNext[row.status]
      /\ \E keep \in BOOLEAN :
           Flush(w, RolledUp(session[w].mine, j,
             [row EXCEPT !.status = "failed",
                         !.topic = IF keep THEN @ ELSE session[w].loaded.rows[j].topic]))
      /\ UNCHANGED <<trend, pipe, job, todo, lapsed, overdue, intakes, pushes,
                     reviewed, approvals, faults>>

\* The job's transaction raised: it is rolled back, _mark_failed_safely opens a fresh one.
Recovering(w) ==
  /\ session' = [session EXCEPT ![w] = Loading("recover", session[w].job, {session[w].job})]
  /\ UNCHANGED <<trend, pipe, job, todo, lapsed, overdue, intakes, pushes, reviewed, approvals>>

\* mark_job refuses the outcome, because the job was not running when it was loaded.
Refused(w) ==
  /\ Doing(w, "generate")
  /\ session[w].loaded.rows[session[w].job].status # "running"
  /\ Recovering(w)
  /\ UNCHANGED faults

\* Any other exception in the job's transaction.
JobRaises(w) ==
  /\ session[w].op = "generate"
  /\ Fault
  /\ Recovering(w)

\* _mark_failed_safely: fail the job if it may still fail, else leave it to the reaper.
MarkFailed(w) ==
  LET j   == session[w].job
      row == session[w].mine.rows[j]
  IN  /\ Doing(w, "recover")
      /\ \/ /\ "failed" \in JobNext[row.status]
            /\ Flush(w, RolledUp(session[w].mine, j, [row EXCEPT !.status = "failed"]))
         \/ /\ "failed" \notin JobNext[row.status]
            /\ session' = [session EXCEPT ![w] = IdleSession]
      /\ UNCHANGED <<trend, pipe, job, todo, lapsed, overdue, intakes, pushes,
                     reviewed, approvals, faults>>

\* The worker's process dies: its transaction is rolled back, its claims forgotten.
Die(w) ==
  /\ ~Idle(w) \/ todo[w] # {}
  /\ Fault
  /\ session' = [session EXCEPT ![w] = IdleSession]
  /\ todo' = [todo EXCEPT ![w] = {}]
  /\ UNCHANGED <<trend, pipe, job, lapsed, overdue, intakes, pushes, reviewed, approvals>>

\* Five (thirty, without an external_ref) minutes pass since the running job was written.
Lapse(j) ==
  /\ job[j].status = "running" /\ j \notin lapsed
  /\ lapsed' = lapsed \cup {j}
  /\ UNCHANGED <<trend, pipe, job, session, todo, overdue, intakes, pushes,
                 reviewed, approvals, faults>>

\* Forty-five minutes pass since the external pipeline of a running job started.
Deadline(j) ==
  /\ job[j].status = "running" /\ job[j].topic # 0 /\ j \notin overdue
  /\ overdue' = overdue \cup {j}
  /\ UNCHANGED <<trend, pipe, job, session, todo, lapsed, intakes, pushes,
                 reviewed, approvals, faults>>

--------------------------------------------------------------------------------
(***************************************************************************)
(* Requests: the human gates, and the expiry of unactioned trends.  The    *)
(* first action of each loads and validates, the second flushes.           *)
(***************************************************************************)

AtRest == UNCHANGED <<trend, pipe, job, todo, lapsed, overdue, intakes, reviewed,
                      approvals, faults>>

\* What the code checks on the rows it loads before it changes anything.
MayOnPipeline ==
  [approve |-> trend \in TrendOpen /\ "approved" \in PipelineNext[pipe],
   decline |-> "declined" \in PipelineNext[pipe],
   close   |-> "closed" \in PipelineNext[pipe],
   dismiss |-> "dismissed" \in TrendNext[trend],
   expire  |-> trend \in {"detected", "dossier_building", "proposed"}]

\* (mutant: publish takes any preview)
MayOnJobUnreviewed(j) ==
  [review     |-> {"approved", "rejected"} \cap JobNext[job[j].status] # {},
   regenerate |-> "queued" \in JobNext[job[j].status] /\ job[j].attempt < MaxAttempt,
   publish    |-> job[j].status \in {"preview_ready", "approved"} /\ pushes[j] < MaxEffects]

\* (mutant: publish asks whether the job was ever approved, not whether it is)
MayOnJobOnceApproved(j) ==
  [review     |-> {"approved", "rejected"} \cap JobNext[job[j].status] # {},
   regenerate |-> "queued" \in JobNext[job[j].status] /\ job[j].attempt < MaxAttempt,
   publish    |-> /\ job[j].status = "preview_ready" /\ reviewed[j] # 0
                  /\ pushes[j] < MaxEffects]

MayOnJob(j) ==
  [review     |-> {"approved", "rejected"} \cap JobNext[job[j].status] # {},
   regenerate |-> "queued" \in JobNext[job[j].status] /\ job[j].attempt < MaxAttempt,
   publish    |-> job[j].status = "approved" /\ ~KillSwitch /\ pushes[j] < MaxEffects]

\* close loads every job of the pipeline, the others load none.
RequestOnPipeline(r, op) ==
  /\ MayOnPipeline[op]
  /\ Begin(r, op, NoJob, IF op = "close" THEN Jobs ELSE {})
  /\ AtRest /\ UNCHANGED pushes

RequestOnJob(r, op, j) ==
  /\ pipe \notin PipelineTerminal
  /\ MayOnJob(j)[op]
  /\ Begin(r, op, j, {j})
  /\ AtRest /\ UNCHANGED pushes

\* approve_and_start: approved, one queued row per content type, then generating.  A content
\* type it does not know is found after the status was set, and the HTML route commits that.
Approve(r) ==
  LET view == session[r].mine
      free == InStatus(Absent) \ LockedRows(r)
  IN  /\ Doing(r, "approve")
      /\ \/ Flush(r, [view EXCEPT !.pipe = "approved"])
         \/ \E new \in SUBSET free :
              /\ new # {}
              /\ Flush(r, [trend |-> IF TrendMay(view.trend, "approved") THEN "approved"
                                                                         ELSE view.trend,
                           pipe  |-> "generating",
                           rows  |-> [j \in Jobs |-> IF j \in new
                                                     THEN [BlankRow EXCEPT !.status = "queued"]
                                                     ELSE view.rows[j]]])
      /\ AtRest /\ UNCHANGED pushes

\* decline_pipeline: only a still-proposed trend follows its request.
Decline(r) ==
  LET view == session[r].mine
  IN  /\ Doing(r, "decline")
      /\ Flush(r, [view EXCEPT !.pipe = "declined",
                               !.trend = IF @ = "proposed" THEN "declined" ELSE @])
      /\ AtRest /\ UNCHANGED pushes

\* (mutant: close leaves failed jobs to be regenerated)
SparedFailed == {"published", "cancelled", "failed", Absent}

\* (mutant: close cancels what was published)
SparedNone == {Absent}

\* Jobs that close does not cancel.
Spared == {"published", "cancelled", Absent}

\* close: every job it loaded that is neither published nor cancelled is cancelled.
Close(r) ==
  LET view == session[r].mine
  IN  /\ Doing(r, "close")
      /\ Flush(r, [view EXCEPT !.pipe = "closed",
                     !.rows = [j \in Jobs |->
                       IF view.rows[j].status \in Spared THEN view.rows[j]
                       ELSE [view.rows[j] EXCEPT !.status = "cancelled"]]])
      /\ AtRest /\ UNCHANGED pushes

Dismiss(r) ==
  /\ Doing(r, "dismiss")
  /\ Flush(r, [session[r].mine EXCEPT !.trend = "dismissed"])
  /\ AtRest /\ UNCHANGED pushes

\* expire_stale: the trends it selected expire unconditionally; of their pipelines those
\* that are pending when it selects them, after the first UPDATE.
Expire(r) ==
  LET pending == pipe = "pending_approval"
  IN  /\ Doing(r, "expire")
      /\ Flush(r, [session[r].mine EXCEPT !.trend = "expired",
                                          !.pipe = IF pending THEN "expired" ELSE @])
      /\ AtRest /\ UNCHANGED pushes

\* review_job, then refresh_rollup.
Review(r) ==
  LET j   == session[r].job
      row == session[r].mine.rows[j]
  IN  /\ Doing(r, "review")
      /\ \E verdict \in {"approved", "rejected"} \cap JobNext[row.status] :
           Flush(r, RolledUp(session[r].mine, j, [row EXCEPT !.status = verdict]))
      /\ AtRest /\ UNCHANGED pushes

\* (mutant: the route forgets refresh_rollup)
RegenerateNoRollup(r) ==
  LET j   == session[r].job
      row == session[r].mine.rows[j]
  IN  /\ Doing(r, "regenerate")
      /\ row.attempt < MaxAttempt
      /\ Flush(r, [session[r].mine EXCEPT !.rows[j] =
                    [row EXCEPT !.status = "queued", !.attempt = @ + 1, !.content = 0]])
      /\ AtRest /\ UNCHANGED pushes

\* regenerate_job, then refresh_rollup.  The external_ref is kept.
Regenerate(r) ==
  LET j   == session[r].job
      row == session[r].mine.rows[j]
  IN  /\ Doing(r, "regenerate")
      /\ row.attempt < MaxAttempt
      /\ Flush(r, RolledUp(session[r].mine, j,
                    [row EXCEPT !.status = "queued", !.attempt = @ + 1, !.content = 0,
                                !.archived = @ \cup ({row.content} \ {0})]))
      /\ AtRest /\ UNCHANGED pushes

\* publish_job: the push, the published row, the roll-up, and the trend's completion.
\* If the loaded trend cannot complete, the push has happened; the JSON route rolls the
\* rest back and the HTML route, which returns inside its session, commits it.
Publish(r) ==
  LET j     == session[r].job
      view  == RolledUp(session[r].mine, j,
                        [session[r].mine.rows[j] EXCEPT !.status = "published"])
      done  == view.pipe \in {"published", "partially_published"}
      legal == TrendMay(view.trend, "completed")
  IN  /\ Doing(r, "publish")
      /\ pushes[j] < MaxEffects
      /\ pushes' = [pushes EXCEPT ![j] = @ + 1]
      /\ \/ done /\ legal /\ Flush(r, [view EXCEPT !.trend = "completed"])
         \/ ~(done /\ legal) /\ Flush(r, view)
         \/ done /\ ~legal /\ session' = [session EXCEPT ![r] = IdleSession]
      /\ AtRest

--------------------------------------------------------------------------------
WorkerStep(w) ==
  \/ Sweep(w)
  \/ \E j \in Jobs : StartJob(w, j)
  \/ Intake(w)
  \/ Pending(w)
  \/ Preview(w)
  \/ GenerationFails(w)
  \/ Refused(w)
  \/ MarkFailed(w)
  \/ JobRaises(w)
  \/ Die(w)

RequestStep(r) ==
  \/ \E op \in {"approve", "decline", "close", "dismiss", "expire"} : RequestOnPipeline(r, op)
  \/ \E op \in {"review", "regenerate", "publish"}, j \in Jobs : RequestOnJob(r, op, j)
  \/ Approve(r)
  \/ Decline(r)
  \/ Close(r)
  \/ Dismiss(r)
  \/ Expire(r)
  \/ Review(r)
  \/ Regenerate(r)
  \/ Publish(r)
  \/ Abort(r)

Next ==
  \/ \E w \in Workers : WorkerStep(w)
  \/ \E r \in Requests : RequestStep(r)
  \/ \E s \in Sessions : Commit(s)
  \/ \E j \in Jobs : Lapse(j) \/ Deadline(j)

Spec == Init /\ [][Next]_vars
--------------------------------------------------------------------------------
(***************************************************************************)
(* Fairness: both sweeps keep running (the scheduler every 2 minutes), a   *)
(* started job's call returns or times out, an open transaction ends, and  *)
(* time passes.  Nothing makes a human act, or a fault happen.             *)
(***************************************************************************)
JobEnds(w) ==
  Pending(w) \/ Preview(w) \/ GenerationFails(w) \/ Refused(w) \/ MarkFailed(w)

RequestEnds(r) ==
  Approve(r) \/ Decline(r) \/ Close(r) \/ Dismiss(r) \/ Expire(r)
    \/ Review(r) \/ Regenerate(r) \/ Publish(r)

Fairness ==
  /\ \A w \in Workers : WF_vars(Sweep(w)) /\ WF_vars(JobEnds(w))
  /\ \A w \in Workers, j \in Jobs : WF_vars(StartJob(w, j))
  /\ \A r \in Requests : WF_vars(RequestEnds(r))
  /\ \A s \in Sessions : WF_vars(Commit(s))
  /\ \A j \in Jobs : WF_vars(Lapse(j)) /\ WF_vars(Deadline(j))

FairSpec == Spec /\ Fairness

--------------------------------------------------------------------------------
(***************************************************************************)
(* Properties                                                              *)
(***************************************************************************)

\* Type invariant: the rows hold statuses of the tables, a session holds such rows.
TypeOK ==
  /\ trend \in TrendStatus
  /\ pipe \in PipelineStatus
  /\ job \in [Jobs -> Row]
  /\ session \in [Sessions -> Session]
  /\ todo \in [Workers -> SUBSET Jobs]
  /\ lapsed \in SUBSET Jobs
  /\ overdue \in SUBSET Jobs
  /\ intakes \in [Jobs -> Nat]
  /\ pushes \in [Jobs -> Nat]
  /\ reviewed \in [Jobs -> 0 .. MaxAttempt]
  /\ approvals \in Nat
  /\ faults \in Nat

\* Nothing external without a human: a job exists only once its request was approved, goes
\* out only once an editor approved a preview of it, and is published only once it went out.
HumanGates ==
  \A j \in Jobs :
    /\ job[j].status # Absent => approvals > 0
    /\ pushes[j] > 0 => reviewed[j] # 0
    /\ job[j].status = "published" => pushes[j] > 0

\* The rows and the effects outside them, read as the abstract gate, behave like it.
Gate == INSTANCE EditorialGate WITH
          Items   <- Jobs,
          opened  <- approvals > 0,
          made    <- {j \in Jobs : job[j].status # Absent},
          cleared <- {j \in Jobs : reviewed[j] # 0},
          out     <- {j \in Jobs : pushes[j] > 0}

\* Whatever the sessions overlap and however stale their rows, every behaviour of the
\* pipeline is one of the gate: approved, then made, then cleared, then out, never back.
ImplementsGate == Gate!Spec

\* A declined, closed or expired request stays so, whatever its workers still commit.
ClosedStaysClosed == [][(pipe \in PipelineTerminal) => (pipe' = pipe)]_vars

\* close cancels what it finds, and nothing brings it back: a dead request has no job that
\* a worker may run or an editor may act on.
ClosedHasNoLiveJobs ==
  pipe \in PipelineTerminal =>
    \A j \in Jobs : job[j].status \in {Absent, "published", "rejected", "cancelled"}

\* The status an editor sees follows the jobs: work in hand reads "generating", and once
\* none is in hand a preview that waits for its verdict or its publication is announced.
StatusShowsJobs ==
  LET S == {job[j].status : j \in Jobs}
  IN  pipe \notin PipelineTerminal =>
        /\ S \cap InWork # {} => pipe = "generating"
        /\ S \cap InWork = {} /\ S \cap {"preview_ready", "approved"} # {}
             => pipe = "previews_ready"

\* "generating" is not left behind: a request that says so has a job to generate.
GeneratingHasWork ==
  pipe = "generating" => \E j \in Jobs : job[j].status \in InWork

\* What is published is the attempt that the editor looked at and approved.
PublishedAsReviewed ==
  \A j \in Jobs : job[j].status = "published" => job[j].attempt = reviewed[j]

\* Regenerating answers the editor: the new preview is not a draft that was sent back.
RegeneratedIsNew ==
  \A j \in Jobs : job[j].status = "preview_ready" => job[j].content \notin job[j].archived

\* What was published or cancelled stays so.
SettledJobsStay ==
  [][\A j \in Jobs : job[j].status \in {"published", "cancelled"}
                        => job'[j].status = job[j].status]_vars

\* A job is generated by one worker at a time.
NoDoubleProcessing ==
  \A v, w \in Workers :
    v # w /\ session[v].op = "generate" /\ session[w].op = "generate"
      => session[v].job # session[w].job

\* A queued or running job leaves both states: it gets a preview, fails, or is cancelled.
JobsSettle ==
  \A j \in Jobs : job[j].status \in InWork ~> job[j].status \notin InWork
================================================================================
