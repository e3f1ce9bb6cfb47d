------------------------- MODULE ArtifactReview_proofs -------------------------
(***************************************************************************)
(* Theorems about ArtifactReview, for any number of drafts, reviewers,     *)
(* scans and attempts.                                                     *)
(***************************************************************************)
EXTENDS ArtifactReview, FiniteSetTheorems, TLAPS

\* A draft's text lies under its key, overlap or not, unless two of a second share it; and some
\* text lies under a key that a request has loaded.
TextKept ==
  /\ \A j \in Drafts : drafts[j].ready =>
       /\ drafts[j].ref \in DOMAIN stored
       /\ drafts[j].ref \notin shared => stored[drafts[j].ref] = <<j, drafts[j].attempt>>
  /\ \A r \in Reviewers : review[r].loaded.ready => review[r].loaded.ref \in DOMAIN stored

\* A text is that of the draft in the row, or of one that was stored in the same second.
Own(j, text) == drafts[j].ref \notin shared => text \in {NoText, <<j, drafts[j].attempt>>}

\* A request by itself has the row as it is; so scores, scans and rows agree.
Fresh ==
  ~together =>
    /\ \A r, q \in Reviewers : review[r].op # "none" /\ review[q].op # "none" => r = q
    /\ \A r \in Reviewers : review[r].op # "none" =>
         /\ review[r].loaded = drafts[review[r].job]
         /\ review[r].op = "scan" => review[r].loaded.ready
         /\ Own(review[r].job, review[r].body)
    /\ \A j \in Drafts :
         /\ Own(j, drafts[j].meta.quality)
         /\ latestScan[j] # NoScan => drafts[j].ready /\ drafts[j].meta.scan = latestScan[j]

ReviewInv == ReviewTypeOK /\ TextKept /\ Fresh

LEMMA BlankTyped == NoMeta \in Meta /\ NewDraft \in DraftRow /\ NoReview \in Review
  <1>1. NoMeta \in Meta
    BY ReviewAssumption DEF NoMeta, Meta, NoPage
  <1>2. NewDraft \in DraftRow
    BY <1>1, ReviewAssumption DEF NewDraft, DraftRow
  <1>3. (CHOOSE j \in Drafts : TRUE) \in Drafts
    BY ReviewAssumption
  <1>. QED  BY <1>1, <1>2, <1>3 DEF NoReview, Review, ReviewOps

LEMMA ReviewInitially == ReviewInit => ReviewInv
  <1>. SUFFICES ASSUME ReviewInit PROVE ReviewInv
    OBVIOUS
  <1>1. /\ \A j \in Drafts : drafts[j] = NewDraft /\ latestScan[j] = NoScan
        /\ \A r \in Reviewers : review[r] = NoReview
        /\ DOMAIN stored = {} /\ DOMAIN scans = {}
    BY DEF ReviewInit
  <1>2. /\ ~NewDraft.ready /\ NewDraft.meta.quality = NoText /\ NoReview.op = "none"
        /\ ~NoReview.loaded.ready
    BY DEF NewDraft, NoMeta, NoReview
  <1>3. ReviewTypeOK
    <2>1. drafts \in [Drafts -> DraftRow]
      BY BlankTyped DEF ReviewInit
    <2>2. review \in [Reviewers -> Review]
      BY BlankTyped DEF ReviewInit
    <2>3. latestScan \in [Drafts -> ScanIds \cup {NoScan}]
      BY DEF ReviewInit
    <2>4. second \in 1 .. MaxSeconds
      BY ReviewAssumption DEF ReviewInit
    <2>. QED  BY <1>1, <2>1, <2>2, <2>3, <2>4 DEF ReviewInit, ReviewTypeOK
  <1>4. TextKept
    BY <1>1, <1>2 DEF TextKept
  <1>5. Fresh
    BY <1>1, <1>2 DEF Fresh, Own
  <1>. QED  BY <1>3, <1>4, <1>5 DEF ReviewInv

\* What a handler's write makes of the rows.
LEMMA WriteRows ==
  ASSUME ReviewTypeOK, NEW r \in Reviewers, NEW meta \in Meta, WriteMeta(r, meta)
  PROVE  LET j == review[r].job
         IN  /\ j \in Drafts
             /\ \A i \in Drafts \ {j} : drafts'[i] = drafts[i]
             /\ drafts'[j] \in DraftRow /\ drafts'[j].attempt = drafts[j].attempt
             /\ drafts'[j].ready = drafts[j].ready /\ drafts'[j].ref = drafts[j].ref
             /\ drafts'[j].meta = IF meta # review[r].loaded.meta THEN meta ELSE drafts[j].meta
             /\ drafts' \in [Drafts -> DraftRow] /\ review' \in [Reviewers -> Review]
             /\ review'[r] = NoReview /\ \A q \in Reviewers \ {r} : review'[q] = review[q]
  <1>. DEFINE j == review[r].job
              n == IF meta # review[r].loaded.meta THEN meta ELSE drafts[j].meta
              row == [drafts[j] EXCEPT !.meta = n]
  <1>1. j \in Drafts /\ drafts[j] \in DraftRow
    BY DEF ReviewTypeOK, Review
  <1>2. n \in Meta
    BY <1>1 DEF DraftRow
  <1>3. drafts' = [drafts EXCEPT ![j] = row]
    BY DEF WriteMeta, ReviewTypeOK
  <1>. HIDE DEF n
  <1>4. /\ row \in DraftRow /\ row.attempt = drafts[j].attempt /\ row.ready = drafts[j].ready
        /\ row.ref = drafts[j].ref /\ row.meta = n
    BY <1>1, <1>2 DEF DraftRow
  <1>. HIDE DEF row
  <1>5. drafts'[j] = row /\ \A i \in Drafts \ {j} : drafts'[i] = drafts[i]
    BY <1>1, <1>3 DEF ReviewTypeOK
  <1>6. drafts' \in [Drafts -> DraftRow]
    BY <1>3, <1>4 DEF ReviewTypeOK
  <1>7. /\ review' \in [Reviewers -> Review]
        /\ review'[r] = NoReview /\ \A q \in Reviewers \ {r} : review'[q] = review[q]
    BY BlankTyped DEF WriteMeta, ReviewTypeOK
  <1>. QED  BY <1>1, <1>4, <1>5, <1>6, <1>7 DEF n

\* A handler whose copy was good leaves rows that agree.
LEMMA WriteKeeps ==
  ASSUME ReviewInv, NEW r \in Reviewers, NEW meta \in Meta, review[r].op # "none",
         WriteMeta(r, meta), NEW l \in ScanIds \cup {NoScan},
         latestScan' = [latestScan EXCEPT ![review[r].job] = l], UNCHANGED scans,
         ~together => /\ Own(review[r].job, meta.quality)
                      /\ l # NoScan => review[r].loaded.ready /\ meta.scan = l
  PROVE  ReviewInv'
  <1>. DEFINE j == review[r].job
  <1>1. /\ j \in Drafts
        /\ \A i \in Drafts \ {j} : drafts'[i] = drafts[i]
        /\ drafts'[j] \in DraftRow /\ drafts'[j].attempt = drafts[j].attempt
        /\ drafts'[j].ready = drafts[j].ready /\ drafts'[j].ref = drafts[j].ref
        /\ drafts'[j].meta = IF meta # review[r].loaded.meta THEN meta ELSE drafts[j].meta
        /\ drafts' \in [Drafts -> DraftRow] /\ review' \in [Reviewers -> Review]
        /\ review'[r] = NoReview /\ \A q \in Reviewers \ {r} : review'[q] = review[q]
    BY WriteRows DEF ReviewInv
  <1>2. UNCHANGED <<stored, second, shared, together>>
    BY DEF WriteMeta
  <1>3. latestScan' \in [Drafts -> ScanIds \cup {NoScan}]
        /\ latestScan'[j] = l /\ \A i \in Drafts \ {j} : latestScan'[i] = latestScan[i]
    BY <1>1 DEF ReviewInv, ReviewTypeOK
  <1>4. ReviewTypeOK'
    BY <1>1, <1>2, <1>3 DEF ReviewInv, ReviewTypeOK
  <1>5. TextKept'
    BY <1>1, <1>2 DEF ReviewInv, TextKept, NoReview, NewDraft
  <1>6. Fresh'
    <2>. SUFFICES ASSUME ~together PROVE Fresh'
      BY <1>2 DEF Fresh
    <2>1. /\ review[r].loaded = drafts[j]
          /\ \A q \in Reviewers \ {r} : review[q].op = "none"
      BY DEF ReviewInv, Fresh
    <2>2. drafts'[j].meta = meta
      BY <1>1, <2>1
    <2>3. \A q \in Reviewers : review'[q].op = "none"
      BY <1>1, <2>1 DEF NoReview
    <2>4. \A i \in Drafts :
            /\ Own(i, drafts[i].meta.quality)'
            /\ latestScan'[i] # NoScan => drafts'[i].ready /\ drafts'[i].meta.scan = latestScan'[i]
      BY <1>1, <1>2, <1>3, <2>1, <2>2 DEF ReviewInv, Fresh, Own
    <2>. QED  BY <1>2, <2>3, <2>4 DEF Fresh
  <1>. QED  BY <1>4, <1>5, <1>6 DEF ReviewInv

\* So do the handlers that leave latestScan alone.
LEMMA EditKeeps ==
  ASSUME ReviewInv, NEW r \in Reviewers, NEW meta \in Meta, review[r].op # "none",
         WriteMeta(r, meta), UNCHANGED <<scans, latestScan>>,
         ~together /\ review[r].loaded = drafts[review[r].job] =>
           /\ Own(review[r].job, meta.quality)
           /\ latestScan[review[r].job] # NoScan => meta.scan = latestScan[review[r].job]
  PROVE  ReviewInv'
  <1>. DEFINE j == review[r].job
              l == latestScan[j]
  <1>1. j \in Drafts /\ l \in ScanIds \cup {NoScan}
    BY DEF ReviewInv, ReviewTypeOK, Review
  <1>2. latestScan' = [latestScan EXCEPT ![j] = l]
    BY <1>1 DEF ReviewInv, ReviewTypeOK
  <1>3. ~together => review[r].loaded = drafts[j] /\ (l # NoScan => drafts[j].ready)
    BY <1>1 DEF ReviewInv, Fresh
  <1>. HIDE DEF l
  <1>4. ~together => /\ Own(review[r].job, meta.quality)
                     /\ l # NoScan => review[r].loaded.ready /\ meta.scan = l
    BY <1>3 DEF l
  <1>. QED  BY <1>1, <1>2, <1>4, WriteKeeps

\* What is loaded agrees with the scans of its job as the row does.
LEMMA LoadedTyped ==
  ASSUME ReviewInv, NEW r \in Reviewers
  PROVE  /\ review[r] \in Review /\ review[r].loaded \in DraftRow
         /\ review[r].loaded.meta \in Meta /\ review[r].job \in Drafts
         /\ review[r].loaded.attempt \in 1 .. MaxAttempts
  BY DEF ReviewInv, ReviewTypeOK, Review, DraftRow

LEMMA RowAgrees ==
  ASSUME ReviewInv, ~together, NEW j \in Drafts
  PROVE  /\ Own(j, drafts[j].meta.quality)
         /\ latestScan[j] # NoScan => drafts[j].meta.scan = latestScan[j]
  BY DEF ReviewInv, Fresh

\* The text that is read under the key of the row.
LEMMA ReadKeeps ==
  ASSUME ReviewInv, NEW r \in Reviewers, ReadText(r)
  PROVE  ReviewInv'
  <1>. DEFINE v == review[r]
              text == Shown(v.loaded)
              new == [v EXCEPT !.body = text]
  <1>1. /\ v.op = "view" /\ v.loaded.ready
        /\ review' = [review EXCEPT ![r] = new]
        /\ UNCHANGED <<drafts, stored, scans, second, latestScan, shared, together>>
    BY DEF ReadText, ReviewInv, ReviewTypeOK
  <1>2. text \in Text /\ (~together => Own(v.job, text))
    BY <1>1, LoadedTyped DEF ReviewInv, ReviewTypeOK, Fresh, TextKept, Own, Shown
  <1>. HIDE DEF text
  <1>3. new \in Review /\ new.loaded = v.loaded /\ new.op = v.op /\ new.job = v.job /\ new.body = text
    BY <1>2, LoadedTyped DEF Review
  <1>. HIDE DEF new
  <1>4. /\ review' \in [Reviewers -> Review]
        /\ review'[r] = new /\ \A q \in Reviewers \ {r} : review'[q] = review[q]
    BY <1>1, <1>3 DEF ReviewInv, ReviewTypeOK
  <1>5. ReviewTypeOK'
    BY <1>1, <1>4 DEF ReviewInv, ReviewTypeOK
  <1>6. TextKept'
    BY <1>1, <1>3, <1>4 DEF ReviewInv, TextKept
  <1>7. Fresh'
    BY <1>1, <1>2, <1>3, <1>4 DEF ReviewInv, Fresh, Own
  <1>. QED  BY <1>5, <1>6, <1>7 DEF ReviewInv

LEMMA ViewKeeps ==
  ASSUME ReviewInv, NEW r \in Reviewers, FinishView(r)
  PROVE  ReviewInv'
  <1>. DEFINE v == review[r]
              meta == [v.loaded.meta EXCEPT !.quality = v.body]
  <1>1. v.body \in Text \cup {NoText}
    BY LoadedTyped DEF Review
  <1>2. meta \in Meta /\ meta.quality = v.body /\ meta.scan = v.loaded.meta.scan
    BY <1>1, LoadedTyped DEF Meta
  <1>3. v.op # "none" /\ WriteMeta(r, meta) /\ UNCHANGED <<scans, latestScan>>
    BY DEF FinishView
  <1>4. ~together => Own(v.job, v.body)
    BY <1>3 DEF ReviewInv, Fresh
  <1>. HIDE DEF meta
  <1>. QED  BY <1>2, <1>3, <1>4, EditKeeps, RowAgrees, LoadedTyped

LEMMA CandidatesKeep ==
  ASSUME ReviewInv, NEW r \in Reviewers, FinishCandidates(r)
  PROVE  ReviewInv'
  <1>. DEFINE v == review[r]
              page == v.loaded.meta.page
              M(f) == [v.loaded.meta EXCEPT !.page = f]
  <1>1. page \in 0 .. MaxPages
    BY LoadedTyped DEF Meta
  <1>2. (page % MaxPages) + 1 \in 0 .. MaxPages /\ 1 \in 0 .. MaxPages
    BY <1>1, ReviewAssumption
  <1>3. PICK f \in {page, (page % MaxPages) + 1, 1} : WriteMeta(r, M(f))
    BY DEF FinishCandidates
  <1>4. f \in 0 .. MaxPages
    BY <1>1, <1>2, <1>3
  <1>5. /\ M(f) \in Meta /\ M(f).quality = v.loaded.meta.quality
        /\ M(f).scan = v.loaded.meta.scan
    BY <1>4, LoadedTyped DEF Meta
  <1>6. v.op # "none" /\ UNCHANGED <<scans, latestScan>>
    BY DEF FinishCandidates
  <1>. HIDE DEF M
  <1>. QED  BY <1>3, <1>5, <1>6, EditKeeps, RowAgrees, LoadedTyped

LEMMA HeroKeeps ==
  ASSUME ReviewInv, NEW r \in Reviewers, FinishHero(r)
  PROVE  ReviewInv'
  <1>. DEFINE v == review[r]
              meta == [v.loaded.meta EXCEPT !.hero = v.image]
  <1>1. v.image \in Images \cup {"none"}
    BY LoadedTyped DEF Review
  <1>2. /\ meta \in Meta /\ meta.quality = v.loaded.meta.quality
        /\ meta.scan = v.loaded.meta.scan
    BY <1>1, LoadedTyped DEF Meta
  <1>3. v.op # "none" /\ WriteMeta(r, meta) /\ UNCHANGED <<scans, latestScan>>
    BY DEF FinishHero
  <1>. HIDE DEF meta
  <1>. QED  BY <1>2, <1>3, EditKeeps, RowAgrees, LoadedTyped

LEMMA WebhookKeeps ==
  ASSUME ReviewInv, NEW r \in Reviewers, FinishWebhook(r)
  PROVE  ReviewInv'
  <1>. DEFINE v == review[r]
              M(s) == [v.loaded.meta EXCEPT !.status = s, !.scan = v.scan]
  <1>1. PICK s \in {"done", "error"} : WriteMeta(r, M(s))
    BY DEF FinishWebhook
  <1>2. v.scan \in ScanIds \cup {NoScan}
    BY LoadedTyped DEF Review
  <1>3. M(s) \in Meta /\ M(s).quality = v.loaded.meta.quality /\ M(s).scan = v.scan
    BY <1>1, <1>2, LoadedTyped DEF Meta
  <1>4. /\ v.op # "none" /\ UNCHANGED <<scans, latestScan>>
        /\ v.loaded.meta.scan \in {NoScan, v.scan}
    BY DEF FinishWebhook, Expected
  <1>. HIDE DEF M
  <1>. QED  BY <1>1, <1>3, <1>4, EditKeeps, RowAgrees, LoadedTyped

LEMMA RecordKeeps ==
  ASSUME ReviewInv, NEW r \in Reviewers, RecordScan(r)
  PROVE  ReviewInv'
  <1>. DEFINE v == review[r]
              L(ok) == IF ok THEN v.scan ELSE NoScan
              M(ok) == [v.loaded.meta EXCEPT !.status = IF ok THEN "pending" ELSE "error",
                                             !.scan = L(ok)]
  <1>1. PICK ok \in BOOLEAN :
          /\ WriteMeta(r, M(ok))
          /\ latestScan' = [latestScan EXCEPT ![v.job] = L(ok)]
    BY DEF RecordScan
  <1>2. L(ok) \in ScanIds \cup {NoScan}
    BY LoadedTyped DEF Review
  <1>. HIDE DEF L
  <1>3. M(ok) \in Meta /\ M(ok).quality = v.loaded.meta.quality /\ M(ok).scan = L(ok)
    BY <1>2, LoadedTyped DEF Meta
  <1>4. v.op = "scan" /\ UNCHANGED scans
    BY DEF RecordScan
  <1>5. ~together => /\ v.loaded.ready
                     /\ Own(v.job, v.loaded.meta.quality)
    BY <1>4, RowAgrees, LoadedTyped DEF ReviewInv, Fresh
  <1>. HIDE DEF M
  <1>. QED  BY <1>1, <1>2, <1>3, <1>4, <1>5, WriteKeeps

LEMMA RefuseKeeps ==
  ASSUME ReviewInv, NEW r \in Reviewers, Refuse(r)
  PROVE  ReviewInv'
  <1>1. /\ review' = [review EXCEPT ![r] = NoReview]
        /\ UNCHANGED <<drafts, stored, scans, second, latestScan, shared, together>>
    BY DEF Refuse
  <1>2. review' \in [Reviewers -> Review]
    BY <1>1, BlankTyped DEF ReviewInv, ReviewTypeOK
  <1>3. \A q \in Reviewers : review'[q].op # "none" => review'[q] = review[q] /\ q # r
    BY <1>1 DEF ReviewInv, ReviewTypeOK, NoReview
  <1>4. ReviewTypeOK'
    BY <1>1, <1>2 DEF ReviewInv, ReviewTypeOK
  <1>5. TextKept'
    BY <1>1 DEF ReviewInv, ReviewTypeOK, TextKept, NoReview, NewDraft
  <1>6. Fresh'
    BY <1>1, <1>3 DEF ReviewInv, Fresh, Own
  <1>. QED  BY <1>4, <1>5, <1>6 DEF ReviewInv

\* A request that begins alone has the row as it is.
LEMMA StartKeeps ==
  ASSUME ReviewInv, NEW r \in Reviewers, NEW op \in ReviewOps, NEW j \in Drafts,
         NEW n \in ScanIds \cup {NoScan}, NEW i \in Images \cup {"none"},
         StartReview(r, op, j, n, i), op = "scan" => drafts[j].ready,
         DOMAIN scans' \subseteq ScanIds, \A s \in DOMAIN scans' : scans'[s] \in Drafts,
         UNCHANGED <<drafts, stored, second, latestScan, shared>>
  PROVE  ReviewInv'
  <1>. DEFINE new == [op |-> op, job |-> j, scan |-> n, image |-> i, loaded |-> drafts[j],
                     body |-> NoText]
  <1>1. new \in Review
    BY DEF Review, ReviewInv, ReviewTypeOK
  <1>2. /\ review' = [review EXCEPT ![r] = new]
        /\ together' = (together \/ InFlight # {})
    BY DEF StartReview
  <1>3. /\ review' \in [Reviewers -> Review]
        /\ review'[r] = new /\ \A q \in Reviewers \ {r} : review'[q] = review[q]
    BY <1>1, <1>2 DEF ReviewInv, ReviewTypeOK
  <1>4. ReviewTypeOK'
    BY <1>2, <1>3 DEF ReviewInv, ReviewTypeOK
  <1>5. TextKept'
    BY <1>3 DEF ReviewInv, TextKept
  <1>6. Fresh'
    <2>. SUFFICES ASSUME ~together' PROVE Fresh'
      BY DEF Fresh
    <2>1. ~together /\ \A q \in Reviewers \ {r} : review'[q].op = "none"
      BY <1>2, <1>3 DEF InFlight
    <2>2. /\ review'[r].loaded = drafts[j] /\ (review'[r].op = "scan" => drafts[j].ready)
          /\ review'[r].job = j /\ review'[r].body = NoText
      BY <1>3
    <2>. QED  BY <2>1, <2>2 DEF ReviewInv, Fresh, Own
  <1>. QED  BY <1>4, <1>5, <1>6 DEF ReviewInv

LEMMA EditStarts ==
  ASSUME ReviewInv, NEW r \in Reviewers, NEW op \in ReviewOps \ {"scan"}, NEW j \in Drafts,
         NEW n \in ScanIds \cup {NoScan}, NEW i \in Images \cup {"none"},
         StartEdit(r, op, j, n, i)
  PROVE  ReviewInv'
  <1>1. DOMAIN scans' \subseteq ScanIds /\ \A s \in DOMAIN scans' : scans'[s] \in Drafts
    BY DEF StartEdit, ReviewInv, ReviewTypeOK
  <1>. QED  BY <1>1, StartKeeps DEF StartEdit

LEMMA SubmitKeeps ==
  ASSUME ReviewInv, NEW r \in Reviewers, NEW j \in Drafts, SubmitScan(r, j)
  PROVE  ReviewInv'
  <1>. DEFINE n == Cardinality(DOMAIN scans) + 1
  <1>1. n \in ScanIds /\ drafts[j].ready /\ StartReview(r, "scan", j, n, "none")
    BY DEF SubmitScan
  <1>2. /\ scans' = [s \in DOMAIN scans \cup {n} |-> IF s = n THEN j ELSE scans[s]]
        /\ UNCHANGED <<drafts, stored, second, latestScan, shared>>
    BY DEF SubmitScan
  <1>. HIDE DEF n
  <1>3. DOMAIN scans' \subseteq ScanIds /\ \A s \in DOMAIN scans' : scans'[s] \in Drafts
    BY <1>1, <1>2 DEF ReviewInv, ReviewTypeOK
  <1>. QED  BY <1>1, <1>2, <1>3, StartKeeps DEF ReviewOps

\* A text goes under the second it is written in: it can only cover that of the same second.
LEMMA GenerateKeeps ==
  ASSUME ReviewInv, NEW j \in Drafts, Generate(j)
  PROVE  ReviewInv'
  <1>. DEFINE row == [drafts[j] EXCEPT !.ready = TRUE, !.ref = second, !.meta = NoMeta]
              text == <<j, drafts[j].attempt>>
  <1>1. /\ drafts[j] \in DraftRow /\ second \in 0 .. MaxSeconds /\ second \in 1 .. MaxSeconds
        /\ text \in Text
    BY ReviewAssumption DEF ReviewInv, ReviewTypeOK, DraftRow, Text
  <1>2. /\ row \in DraftRow /\ row.ready /\ row.ref = second /\ row.meta = NoMeta
        /\ row.attempt = drafts[j].attempt
    BY <1>1, BlankTyped DEF DraftRow
  <1>3. drafts' = [drafts EXCEPT ![j] = row]
    BY DEF Generate, ReviewInv, ReviewTypeOK
  <1>. HIDE DEF row
  <1>4. /\ drafts' \in [Drafts -> DraftRow]
        /\ drafts'[j] = row /\ \A i \in Drafts \ {j} : drafts'[i] = drafts[i]
    BY <1>2, <1>3 DEF ReviewInv, ReviewTypeOK
  <1>5. /\ DOMAIN stored' = DOMAIN stored \cup {second} /\ stored'[second] = text
        /\ \A k \in DOMAIN stored \ {second} : stored'[k] = stored[k]
    BY DEF Generate
  <1>6. /\ shared' = IF second \in DOMAIN stored THEN shared \cup {second} ELSE shared
        /\ together' = (together \/ InFlight # {})
        /\ UNCHANGED <<review, scans, second, latestScan>> /\ ~drafts[j].ready
    BY DEF Generate
  <1>. HIDE DEF text
  <1>7. ReviewTypeOK'
    BY <1>1, <1>4, <1>5, <1>6 DEF ReviewInv, ReviewTypeOK
  <1>8. TextKept'
    <2>1. drafts'[j].ref \in DOMAIN stored' /\ stored'[drafts'[j].ref] = <<j, drafts'[j].attempt>>
      BY <1>2, <1>4, <1>5 DEF text
    <2>2. ASSUME NEW i \in Drafts \ {j}, drafts'[i].ready
          PROVE  /\ drafts'[i].ref \in DOMAIN stored'
                 /\ drafts'[i].ref \notin shared' => stored'[drafts'[i].ref] = <<i, drafts'[i].attempt>>
      BY <1>4, <1>5, <1>6, <2>2 DEF ReviewInv, TextKept
    <2>3. \A r \in Reviewers : review'[r].loaded.ready => review'[r].loaded.ref \in DOMAIN stored'
      BY <1>5, <1>6 DEF ReviewInv, TextKept
    <2>. QED  BY <2>1, <2>2, <2>3 DEF TextKept
  <1>9. Fresh'
    <2>. SUFFICES ASSUME ~together' PROVE Fresh'
      BY DEF Fresh
    <2>1. ~together /\ \A q \in Reviewers : review'[q].op = "none"
      BY <1>6 DEF InFlight
    <2>2. drafts'[j].meta.quality = NoText /\ latestScan'[j] = NoScan
      BY <1>2, <1>4, <1>6, <2>1 DEF ReviewInv, Fresh, NoMeta
    <2>. QED  BY <1>4, <1>6, <2>1, <2>2 DEF ReviewInv, Fresh, Own
  <1>. QED  BY <1>7, <1>8, <1>9 DEF ReviewInv

LEMMA RegenerateKeeps ==
  ASSUME ReviewInv, NEW j \in Drafts, RegenerateDraft(j)
  PROVE  ReviewInv'
  <1>. DEFINE row == [NewDraft EXCEPT !.attempt = drafts[j].attempt + 1]
  <1>1. drafts[j].attempt + 1 \in 1 .. MaxAttempts
    BY ReviewAssumption DEF ReviewInv, ReviewTypeOK, DraftRow, RegenerateDraft
  <1>2. row \in DraftRow /\ ~row.ready /\ row.meta.quality = NoText
    BY <1>1, BlankTyped DEF DraftRow, NewDraft, NoMeta
  <1>3. /\ drafts' = [drafts EXCEPT ![j] = row]
        /\ latestScan' = [latestScan EXCEPT ![j] = NoScan]
        /\ together' = (together \/ InFlight # {})
        /\ UNCHANGED <<stored, review, scans, second, shared>>
    BY DEF RegenerateDraft
  <1>. HIDE DEF row
  <1>4. /\ drafts' \in [Drafts -> DraftRow] /\ latestScan' \in [Drafts -> ScanIds \cup {NoScan}]
        /\ drafts'[j] = row /\ latestScan'[j] = NoScan
        /\ \A i \in Drafts \ {j} : drafts'[i] = drafts[i] /\ latestScan'[i] = latestScan[i]
    BY <1>2, <1>3 DEF ReviewInv, ReviewTypeOK
  <1>5. ReviewTypeOK'
    BY <1>3, <1>4 DEF ReviewInv, ReviewTypeOK
  <1>6. TextKept'
    BY <1>2, <1>3, <1>4 DEF ReviewInv, TextKept
  <1>7. Fresh'
    <2>. SUFFICES ASSUME ~together' PROVE Fresh'
      BY DEF Fresh
    <2>1. ~together /\ \A q \in Reviewers : review'[q].op = "none"
      BY <1>3 DEF InFlight
    <2>. QED  BY <1>2, <1>3, <1>4, <2>1 DEF ReviewInv, Fresh, Own
  <1>. QED  BY <1>5, <1>6, <1>7 DEF ReviewInv

LEMMA ReviewKeeps == ReviewInv /\ [ReviewNext]_reviewVars => ReviewInv'
  <1>. SUFFICES ASSUME ReviewInv, [ReviewNext]_reviewVars PROVE ReviewInv'
    OBVIOUS
  <1>1. ASSUME NEW j \in Drafts, Generate(j) \/ RegenerateDraft(j) PROVE ReviewInv'
    BY <1>1, GenerateKeeps, RegenerateKeeps
  <1>2. CASE Tick
    <2>1. second' \in 1 .. MaxSeconds
      BY <1>2, ReviewAssumption DEF Tick, ReviewInv, ReviewTypeOK
    <2>2. UNCHANGED <<drafts, stored, review, scans, latestScan, shared, together>>
      BY <1>2 DEF Tick
    <2>. QED  BY <2>1, <2>2 DEF ReviewInv, ReviewTypeOK, TextKept, Fresh, Own
  <1>3. ASSUME NEW r \in Reviewers, ReviewStep(r) PROVE ReviewInv'
    <2>1. ASSUME NEW j \in Drafts, NEW op \in {"view", "candidates"},
                 StartEdit(r, op, j, NoScan, "none")
          PROVE  ReviewInv'
      BY <2>1, EditStarts DEF ReviewOps
    <2>2. ASSUME NEW j \in Drafts, NEW i \in Images \cup {"none"},
                 StartEdit(r, "hero", j, NoScan, i)
          PROVE  ReviewInv'
      BY <2>2, EditStarts DEF ReviewOps
    <2>3. ASSUME NEW j \in Drafts, SubmitScan(r, j) PROVE ReviewInv'
      BY <2>3, SubmitKeeps
    <2>4. ASSUME NEW n \in ScanIds, StartWebhook(r, n) PROVE ReviewInv'
      <3>1. scans[n] \in Drafts /\ StartEdit(r, "webhook", scans[n], n, "none")
        BY <2>4 DEF StartWebhook, ReviewInv, ReviewTypeOK
      <3>. QED  BY <3>1, EditStarts DEF ReviewOps
    <2>5. CASE ReadText(r) \/ FinishView(r)
      BY <2>5, ReadKeeps, ViewKeeps
    <2>6. CASE RecordScan(r)
      BY <2>6, RecordKeeps
    <2>7. CASE FinishWebhook(r)
      BY <2>7, WebhookKeeps
    <2>8. CASE FinishCandidates(r)
      BY <2>8, CandidatesKeep
    <2>9. CASE FinishHero(r)
      BY <2>9, HeroKeeps
    <2>10. CASE Refuse(r)
      BY <2>10, RefuseKeeps
    <2>. QED  BY <1>3, <2>1, <2>2, <2>3, <2>4, <2>5, <2>6, <2>7, <2>8, <2>9, <2>10 DEF ReviewStep
  <1>4. CASE UNCHANGED reviewVars
    BY <1>4 DEF reviewVars, ReviewInv, ReviewTypeOK, TextKept, Fresh, Own, InFlight
  <1>. QED  BY <1>1, <1>2, <1>3, <1>4 DEF ReviewNext

\* Type correctness of the artifact review.
THEOREM ReviewTypeCorrect == ReviewSpec => []ReviewTypeOK
  <1>1. ReviewInv => ReviewTypeOK
    BY DEF ReviewInv
  <1>. QED  BY <1>1, ReviewInitially, ReviewKeeps, PTL DEF ReviewSpec

\* A reviewer reads the draft that was generated for the job (json_api.artifact_detail), unless
\* two of a brand and type were stored in the same second; and that is the text the score on
\* record is of, if requests do not overlap.
THEOREM OwnShown == ReviewSpec => []ShownIsOwn
  <1>1. ReviewInv => ShownIsOwn
    BY DEF ReviewInv, TextKept, Fresh, Own, ShownIsOwn, Shown
  <1>. QED  BY <1>1, ReviewInitially, ReviewKeeps, PTL DEF ReviewSpec

\* The answer to an older scan never takes the place of the latest one's (plagiarism webhook).
THEOREM LatestResult == ReviewSpec => []ResultIsLatest
  <1>1. ReviewInv => ResultIsLatest
    BY DEF ReviewInv, Fresh, ResultIsLatest
  <1>. QED  BY <1>1, ReviewInitially, ReviewKeeps, PTL DEF ReviewSpec
================================================================================
