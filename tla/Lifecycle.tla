------------------------------- MODULE Lifecycle -------------------------------
(***************************************************************************)
(* The pure lifecycle rules of the trend pipeline: the transition tables   *)
(* that every status change is validated against, and the derivation of a  *)
(* pipeline's status from those of its jobs.  No state: the state machines *)
(* of the other modules are built on these operators.                      *)
(***************************************************************************)

\* A row that no transaction has inserted yet; not a status of the code.
Absent == "absent"

\* (mutant: an expired request may still be closed)
PipelineNextReopens ==
  [pending_approval    |-> {"approved", "declined", "expired", "closed"},
   approved            |-> {"generating", "closed", "failed"},
   generating          |-> {"previews_ready", "failed", "closed"},
   previews_ready      |-> {"generating", "published", "partially_published", "closed"},
   partially_published |-> {"generating", "published", "closed"},
   published           |-> {"closed"},
   failed              |-> {"generating", "closed"},
   declined            |-> {},
   expired             |-> {"closed"},
   closed              |-> {}]

PipelineNext ==
  [pending_approval    |-> {"approved", "declined", "expired", "closed"},
   approved            |-> {"generating", "closed", "failed"},
   generating          |-> {"previews_ready", "failed", "closed"},
   previews_ready      |-> {"generating", "published", "partially_published", "closed"},
   partially_published |-> {"generating", "published", "closed"},
   published           |-> {"closed"},
   failed              |-> {"generating", "closed"},
   declined            |-> {},
   expired             |-> {},
   closed              |-> {}]

JobNext ==
  [queued        |-> {"running", "cancelled"},
   running       |-> {"preview_ready", "failed", "cancelled"},
   preview_ready |-> {"approved", "rejected", "queued", "cancelled"},
   approved      |-> {"published", "queued", "rejected", "cancelled"},
   rejected      |-> {"queued", "cancelled"},
   failed        |-> {"queued", "cancelled"},
   published     |-> {},
   cancelled     |-> {},
   absent        |-> {}]

TrendNext ==
  [detected         |-> {"dossier_building", "proposed", "dismissed", "expired"},
   dossier_building |-> {"detected", "proposed", "dismissed", "expired"},
   proposed         |-> {"approved", "declined", "dismissed", "expired"},
   approved         |-> {"completed", "declined", "dismissed"},
   dismissed        |-> {},
   declined         |-> {},
   expired          |-> {},
   completed        |-> {}]

PipelineStatus == DOMAIN PipelineNext
JobStatus      == DOMAIN JobNext
TrendStatus    == DOMAIN TrendNext

PipelineOpen     == {"pending_approval", "approved", "generating", "previews_ready",
                     "partially_published"}
PipelineTerminal == {"declined", "closed", "expired"}
TrendOpen        == {"detected", "dossier_building", "proposed", "approved"}

\* A trend may be "moved" to the status it already has.
TrendMay(current, new) == new = current \/ new \in TrendNext[current]

\* Job statuses that mean generation work is still to be done.
InWork == {"queued", "running"}

(***************************************************************************)
(* What the statuses S of a pipeline's jobs say its own status p should be *)
(* (the code's counts of published jobs reduce to which statuses occur).   *)
(***************************************************************************)
Derived(p, S) ==
  IF S \cap InWork # {} THEN "generating"
  ELSE IF S \subseteq {"published", "rejected", "cancelled"}
       THEN IF "published" \notin S     THEN "closed"
            ELSE IF "rejected" \notin S THEN "published"
            ELSE "partially_published"
  ELSE IF S = {"failed"} THEN "failed"
  ELSE IF S \cap {"preview_ready", "approved", "published"} # {} THEN "previews_ready"
  ELSE p

\* The status refresh_rollup leaves: a derived status the table does not allow is dropped.
Rollup(p, S) ==
  IF S = {} \/ p \in PipelineTerminal \/ Derived(p, S) \notin PipelineNext[p]
  THEN p
  ELSE Derived(p, S)

================================================================================
