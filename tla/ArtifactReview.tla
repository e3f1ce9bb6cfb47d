---------------------------- MODULE ArtifactReview ----------------------------
(***************************************************************************)
(* What reviewers see of a generated draft and add to it (api/json_api.py, *)
(* plagiarism.py, artifacts.py): the stored text, the quality score, the   *)
(* originality scan, the hero image and the image candidates.  All but the *)
(* text live in ONE column, preview_meta: every handler copies it, calls   *)
(* the outside, and assigns the whole copy back.                           *)
(*                                                                         *)
(* The jobs here are those of one brand and content type, whose texts are  *)
(* stored under the second they were written in.                           *)
(***************************************************************************)
EXTENDS Naturals, FiniteSets

CONSTANTS
  Drafts,       \* content jobs
  Reviewers,    \* web requests and webhook deliveries in flight
  Images,       \* hero images to choose from
  MaxAttempts, MaxScans, MaxSeconds,  \* bounds: regenerations, scans, clock
  MaxPages,     \* pages that the image picker cycles through
  MaxReviews    \* requests that may be in flight at once

ASSUME ReviewAssumption ==
  /\ Drafts # {}
  /\ MaxAttempts \in Nat \ {0}
  /\ MaxScans \in Nat
  /\ MaxSeconds \in Nat \ {0}
  /\ MaxPages \in Nat \ {0}
  /\ MaxReviews \in Nat
  /\ "none" \notin Images

VARIABLES
  drafts,      \* content_job rows
  stored,      \* artifact storage: what lies under each key
  review,      \* the request each reviewer has in flight
  scans,       \* scans submitted to Copyleaks: the draft each is for
  second,      \* the clock
  latestScan,  \* history: the scan whose submission was recorded last for the draft there is
  shared,      \* history: keys that two drafts were stored under
  together     \* history: two requests have been in flight at once

reviewVars == <<drafts, stored, review, scans, second, latestScan, shared, together>>

ScanIds == 1 .. MaxScans
NoScan  == 0
NoPage  == 0

\* A text is an attempt of a job; NoText: nothing (yet).
Text   == Drafts \X (1 .. MaxAttempts)
NoText == <<>>

\* preview_meta: the text that was scored, the scan, the web hero image, the page of image
\* candidates.
Meta == [quality : Text \cup {NoText}, status : {"none", "pending", "done", "error"},
         scan : ScanIds \cup {NoScan}, hero : Images \cup {"none"}, page : 0 .. MaxPages]

NoMeta == [quality |-> NoText, status |-> "none", scan |-> NoScan, hero |-> "none",
           page |-> NoPage]

DraftRow == [attempt : 1 .. MaxAttempts, ready : BOOLEAN, ref : 0 .. MaxSeconds, meta : Meta]

ReviewOps == {"none", "view", "scan", "webhook", "candidates", "hero"}

Review == [op : ReviewOps, job : Drafts, scan : ScanIds \cup {NoScan},
           image : Images \cup {"none"}, loaded : DraftRow, body : Text \cup {NoText}]

NewDraft == [attempt |-> 1, ready |-> FALSE, ref |-> 0, meta |-> NoMeta]

NoReview == [op |-> "none", job |-> CHOOSE j \in Drafts : TRUE, scan |-> NoScan,
             image |-> "none", loaded |-> NewDraft, body |-> NoText]

ReviewInit ==
  /\ drafts = [j \in Drafts |-> NewDraft]
  /\ stored = [k \in {} |-> {}]
  /\ review = [r \in Reviewers |-> NoReview]
  /\ scans = [n \in {} |-> {}]
  /\ second = 1
  /\ latestScan = [j \in Drafts |-> NoScan]
  /\ shared = {}
  /\ together = FALSE

--------------------------------------------------------------------------------
(***************************************************************************)
(* The pipeline's side: drafts come and go                                 *)
(***************************************************************************)

InFlight == {r \in Reviewers : review[r].op # "none"}

\* A worker stores the draft (artifacts._key: under the second it is written in) and commits
\* the preview with a preview_meta of its own.
Generate(j) ==
  /\ ~drafts[j].ready
  /\ stored' = [k \in DOMAIN stored \cup {second} |->
                  IF k = second THEN <<j, drafts[j].attempt>> ELSE stored[k]]
  /\ shared' = IF second \in DOMAIN stored THEN shared \cup {second} ELSE shared
  /\ drafts' = [drafts EXCEPT ![j].ready = TRUE, ![j].ref = second, ![j].meta = NoMeta]
  /\ together' = (together \/ InFlight # {})
  /\ UNCHANGED <<review, scans, second, latestScan>>

\* (mutant: the preview survives the regeneration)
RegenerateKeepsMeta(j) ==
  /\ drafts[j].ready /\ drafts[j].attempt < MaxAttempts
  /\ drafts' = [drafts EXCEPT ![j].attempt = @ + 1]
  /\ latestScan' = [latestScan EXCEPT ![j] = NoScan]
  /\ together' = (together \/ InFlight # {})
  /\ UNCHANGED <<stored, review, scans, second, shared>>

\* regenerate_job archives the attempt and clears preview_ref and preview_meta.
RegenerateDraft(j) ==
  /\ drafts[j].ready /\ drafts[j].attempt < MaxAttempts
  /\ drafts' = [drafts EXCEPT ![j] = [NewDraft EXCEPT !.attempt = drafts[j].attempt + 1]]
  /\ latestScan' = [latestScan EXCEPT ![j] = NoScan]
  /\ together' = (together \/ InFlight # {})
  /\ UNCHANGED <<stored, review, scans, second, shared>>

Tick ==
  /\ second < MaxSeconds
  /\ second' = second + 1
  /\ UNCHANGED <<drafts, stored, review, scans, latestScan, shared, together>>

--------------------------------------------------------------------------------
(***************************************************************************)
(* Requests: load, call the outside, write                                 *)
(***************************************************************************)
StartReview(r, op, j, n, i) ==
  /\ review[r].op = "none"
  /\ Cardinality(InFlight) < MaxReviews
  /\ review' = [review EXCEPT ![r] = [op |-> op, job |-> j, scan |-> n, image |-> i,
                                      loaded |-> drafts[j], body |-> NoText]]
  /\ together' = (together \/ InFlight # {})

StartEdit(r, op, j, n, i) ==
  /\ StartReview(r, op, j, n, i)
  /\ UNCHANGED <<drafts, stored, scans, second, latestScan, shared>>

\* The request ends; preview_meta is written whole, if the copy differs from what was loaded.
WriteMeta(r, meta) ==
  /\ review' = [review EXCEPT ![r] = NoReview]
  /\ drafts' = [drafts EXCEPT ![review[r].job].meta = IF meta # review[r].loaded.meta THEN meta
                                                                                      ELSE @]
  /\ UNCHANGED <<stored, second, shared, together>>

Refuse(r) ==
  /\ review[r].op # "none"
  /\ review' = [review EXCEPT ![r] = NoReview]
  /\ UNCHANGED <<drafts, stored, scans, second, latestScan, shared, together>>

\* What the reader of a stored text gets: what lies under its key (of the local store: with
\* GCS no text is read, so none is scored).
Shown(row) == stored[row.ref]

\* artifact_detail, artifacts_list: the text is read under the key of the row as loaded ...
ReadText(r) ==
  LET v == review[r]
  IN  /\ v.op = "view" /\ v.loaded.ready
      /\ v.loaded.meta.quality = NoText /\ v.body = NoText
      /\ review' = [review EXCEPT ![r].body = Shown(v.loaded)]
      /\ UNCHANGED <<drafts, stored, scans, second, latestScan, shared, together>>

\* ... and scored, whosever it is, once for a draft without a score.
FinishView(r) ==
  LET v == review[r]
  IN  /\ v.op = "view" /\ v.body # NoText
      /\ WriteMeta(r, [v.loaded.meta EXCEPT !.quality = v.body])
      /\ UNCHANGED <<scans, latestScan>>

\* artifact_run_plagiarism: a scan is submitted, and will be answered whatever becomes of the
\* request ...
SubmitScan(r, j) ==
  LET n == Cardinality(DOMAIN scans) + 1
  IN  /\ drafts[j].ready
      /\ n \in ScanIds
      /\ StartReview(r, "scan", j, n, "none")
      /\ scans' = [s \in DOMAIN scans \cup {n} |-> IF s = n THEN j ELSE scans[s]]
      /\ UNCHANGED <<drafts, stored, second, latestScan, shared>>

\* ... and noted as pending; or the submission fails, which is noted without its id.
RecordScan(r) ==
  LET v == review[r]
  IN  /\ v.op = "scan"
      /\ \E ok \in BOOLEAN :
           /\ WriteMeta(r, [v.loaded.meta EXCEPT !.status = IF ok THEN "pending" ELSE "error",
                                                 !.scan = IF ok THEN v.scan ELSE NoScan])
           /\ latestScan' = [latestScan EXCEPT ![v.job] = IF ok THEN v.scan ELSE NoScan]
      /\ UNCHANGED scans

\* (mutant: whatever the webhook delivers is taken)
ExpectedAny(meta, n) == TRUE

\* A result is refused when another scan is on record.
Expected(meta, n) == meta.scan \in {NoScan, n}

\* The webhook: Copyleaks reports a scan, any number of times.
StartWebhook(r, n) ==
  /\ n \in DOMAIN scans
  /\ StartEdit(r, "webhook", scans[n], n, "none")

FinishWebhook(r) ==
  LET v == review[r]
  IN  /\ v.op = "webhook" /\ Expected(v.loaded.meta, v.scan)
      /\ \E status \in {"done", "error"} :
           WriteMeta(r, [v.loaded.meta EXCEPT !.status = status, !.scan = v.scan])
      /\ UNCHANGED <<scans, latestScan>>

\* (mutant: the page is not taken modulo the number of pages)
FinishCandidatesPast(r) ==
  LET v == review[r]
  IN  /\ v.op = "candidates"
      /\ WriteMeta(r, [v.loaded.meta EXCEPT !.page = @ + 1])
      /\ UNCHANGED <<scans, latestScan>>

\* artifact_image_candidates: cached; a refresh turns the page, another query starts again;
\* an empty answer is not kept.
FinishCandidates(r) ==
  LET v == review[r]
      page == v.loaded.meta.page
  IN  /\ v.op = "candidates"
      /\ \E fetched \in {page, (page % MaxPages) + 1, 1} :
           WriteMeta(r, [v.loaded.meta EXCEPT !.page = fetched])
      /\ UNCHANGED <<scans, latestScan>>

\* artifact_set_hero_image, of the web channel: chosen, or cleared.
FinishHero(r) ==
  LET v == review[r]
  IN  /\ v.op = "hero"
      /\ WriteMeta(r, [v.loaded.meta EXCEPT !.hero = v.image])
      /\ UNCHANGED <<scans, latestScan>>

ReviewStep(r) ==
  \/ \E j \in Drafts :
       \/ \E op \in {"view", "candidates"} : StartEdit(r, op, j, NoScan, "none")
       \/ \E i \in Images \cup {"none"} : StartEdit(r, "hero", j, NoScan, i)
       \/ SubmitScan(r, j)
  \/ \E n \in ScanIds : StartWebhook(r, n)
  \/ ReadText(r) \/ FinishView(r) \/ RecordScan(r) \/ FinishWebhook(r)
  \/ FinishCandidates(r) \/ FinishHero(r) \/ Refuse(r)

ReviewNext ==
  \/ \E j \in Drafts : Generate(j) \/ RegenerateDraft(j)
  \/ Tick
  \/ \E r \in Reviewers : ReviewStep(r)

ReviewSpec == ReviewInit /\ [][ReviewNext]_reviewVars

--------------------------------------------------------------------------------
\* Type invariant.
ReviewTypeOK ==
  /\ drafts \in [Drafts -> DraftRow]
  /\ DOMAIN stored \subseteq 0 .. MaxSeconds /\ \A k \in DOMAIN stored : stored[k] \in Text
  /\ review \in [Reviewers -> Review]
  /\ DOMAIN scans \subseteq ScanIds /\ \A n \in DOMAIN scans : scans[n] \in Drafts
  /\ second \in 1 .. MaxSeconds
  /\ latestScan \in [Drafts -> ScanIds \cup {NoScan}]
  /\ shared \subseteq 1 .. MaxSeconds
  /\ together \in BOOLEAN

\* A reviewer reads the draft that was generated for the job, unless another of its brand and
\* type was stored in the same second; and then too, if requests overlap neither with each
\* other nor with a regeneration, the score on record is that of this text.
ShownIsOwn ==
  \A j \in Drafts : drafts[j].ready /\ drafts[j].ref \notin shared =>
    /\ Shown(drafts[j]) = <<j, drafts[j].attempt>>
    /\ ~together => drafts[j].meta.quality \in {NoText, <<j, drafts[j].attempt>>}

\* The answer to an older scan never takes the place of one that is awaited or was answered.
ResultIsLatest ==
  ~together =>
    \A j \in Drafts : latestScan[j] # NoScan => drafts[j].meta.scan = latestScan[j]

================================================================================
