----------------------------- MODULE MorningCycle -----------------------------
(***************************************************************************)
(* The morning cycle of one brand (orchestrator/cycle.py): six agents      *)
(* observe in turn, each in a transaction of its own, then the planner     *)
(* turns what memory holds into a draft plan (orchestrator/planner.py).    *)
(* The scheduler starts a cycle each morning and a user may start another. *)
(*                                                                         *)
(* A note is a memory entry, told apart by its kind, its day and the run   *)
(* that wrote it; a day stands for 24 hours, so an entry that is as old as *)
(* a window is long may be inside it or not; so may either of two notes    *)
(* that one run leaves, or a run and a feeder on one day, come first.  The *)
(* agents' own queries stay below their LIMITs, the planner's need not.    *)
(* A finding of a kind is one note a run, and a kind of flag has one       *)
(* severity, the highest its adapter gives it.  Notes that nothing reads,  *)
(* such as what a refresh of the rows leaves, are left out.                *)
(***************************************************************************)
EXTENDS Integers, Sequences, FiniteSetsExt

CONSTANTS
  CycleRuns,  \* processes that run a cycle: the scheduler, requests
  Wirings,    \* the systems that may answer, with bounds on days and cycles
  MaxRuns,    \* bound: cycles that may begin, whatever the wiring
  OrdinaryTopics, ViralTopics,   \* topics that the ideation services may suggest
  MaxItems,   \* items of a plan (12 in the code)
  MaxEntries, \* flags, and context entries, that the planner reads (50)
  MaxReports, \* reports, and drafts, that it reads (10)
  MaxTopics,  \* topics that it proposes (5)
  ByteCap,    \* caps.per_day("bq_bytes")
  Sizes,      \* bytes that a query may scan
  Categories  \* authors, content categories

ASSUME CycleAssumption ==
  /\ MaxRuns \in Nat /\ ByteCap \in Nat
  /\ {MaxItems, MaxEntries, MaxReports, MaxTopics} \subseteq Nat \ {0}
  /\ IsFiniteSet(OrdinaryTopics) /\ IsFiniteSet(ViralTopics)
  /\ Sizes \subseteq Nat \ {0} /\ IsFiniteSet(Sizes) /\ Sizes # {}

VARIABLES
  notes,          \* memory: active entries
  snapshots,      \* writer_stats and brand_topic_demand rows
  spent,          \* spend_ledger: bytes charged today
  loose,          \* history: the part of spent that no cap was asked about
  today,
  wired,          \* the systems that answer, in this behaviour
  cyc,            \* the cycle of each process
  runs,           \* cycles begun
  traffic,        \* history: the last day whose sessions were recorded
  latestPlan,     \* the latest plan, and history of what its cycle had found
  cycOverlapped   \* history: two cycles, or a cycle and a request, have run at once

cycleVars == <<notes, snapshots, spent, loose, today, wired, cyc, runs, traffic, latestPlan,
               cycOverlapped>>

--------------------------------------------------------------------------------
(***************************************************************************)
(* Adapters: the kinds of the drafts that a read may leave                 *)
(***************************************************************************)
Maybe(kinds, more) == {kinds, kinds \cup more}

SimilarwebAdapter        == {{"landscape"}}
CompetitorNewsAdapter    == {{"coverage"}}
BigQueryConsumAdapter    == Maybe({"writer_performance", "top_articles"}, {"writer_below_index"})
BigQueryDiscoverAdapter  == {{"discover_performance"}}
SentinelTrafficAdapter   == {{"sessions_daily"}}
SheetsQuotaAdapter       == {{"writer_quotas"}}
SessionTrends            == Maybe({"session_trends"}, {"session_movement"})
GSCAdapter               == {{"striking_distance"}, {"gsc_empty"}}
IdeationStatusAdapter    == SUBSET OrdinaryTopics
HCViralIdeationAdapter   == SUBSET ViralTopics
AsanaAdapter             == Maybe({"outline_queue"}, {"overdue_outlines"})
HCViralDraftQueueAdapter == {{"queue_empty"}, {"queue_ready"}, {"queue_ready", "emaki_backlog"}}
AlbertWriterQueueAdapter == Maybe({"writer_queue"}, {"writer_failures"})
OutlineReviewAdapter     == Maybe({"outline_review"}, {"stuck_outlines"})
PaidMediaSheetAdapter    == Maybe({"spend_roi"}, {"no_spend_rows"})
GoogleAdsAdapter         == Maybe({"ad_spend"}, {"zeroed_spend"})
MetaAdsAdapter           == {{"ad_spend"}}
BingAdsAdapter           == {}   \* always unavailable: its spend comes with the sheet
SentinelEventsAdapter    == {{"conversions"}}
LeadFeedsAdapter         == {{"leads"}}

\* Reads that cost nothing.
Free == [similarweb |-> SimilarwebAdapter, competitor_news |-> CompetitorNewsAdapter,
         sentinel_traffic |-> SentinelTrafficAdapter, sheets_quota |-> SheetsQuotaAdapter,
         session_trends |-> SessionTrends, albert_ideation |-> IdeationStatusAdapter,
         seona_ideation |-> IdeationStatusAdapter, hc_viral_ideation |-> HCViralIdeationAdapter,
         asana |-> AsanaAdapter, hc_viral_queue |-> HCViralDraftQueueAdapter,
         albert_writer_queue |-> AlbertWriterQueueAdapter,
         outline_review |-> OutlineReviewAdapter, paid_media_sheet |-> PaidMediaSheetAdapter,
         google_ads |-> GoogleAdsAdapter, meta_ads |-> MetaAdsAdapter,
         bing_ads |-> BingAdsAdapter, sentinel_events |-> SentinelEventsAdapter,
         lead_feeds |-> LeadFeedsAdapter]

Tables  == {"writer_stats", "topic_demand"}
Metered == {"bigquery_consum", "bigquery_discover", "pay_baseline", "gsc", "ahrefs"} \cup Tables
Own     == {"rollup", "shortlist", "reporting"}   \* reads of memory, which always answer
Steps   == DOMAIN Free \cup Metered \cup Own

\* What each agent does, in order: its adapters (REGISTRY), then its own passes.
Owned == [research    |-> <<"similarweb", "competitor_news">>,
          analytics   |-> <<"bigquery_consum", "bigquery_discover", "sentinel_traffic",
                            "sheets_quota", "rollup", "session_trends", "writer_stats",
                            "topic_demand", "pay_baseline">>,
          opportunity |-> <<"ahrefs", "gsc", "hc_viral_ideation", "albert_ideation",
                            "seona_ideation", "shortlist">>,
          production  |-> <<"asana", "hc_viral_queue", "albert_writer_queue", "outline_review">>,
          paid_media  |-> <<"paid_media_sheet", "google_ads", "meta_ads", "bing_ads",
                            "sentinel_events", "lead_feeds">>,
          reporting   |-> <<"reporting">>]

\* (mutant: reports before the analytics that they are about)
ReportingEarly ==
  <<"opportunity", "paid_media", "production", "reporting", "research", "analytics">>

AgentOrder ==
  <<"research", "analytics", "opportunity", "production", "paid_media", "reporting">>

Planning == Len(AgentOrder) + 1

Stops(k) == IF k \in DOMAIN AgentOrder THEN Owned[AgentOrder[k]] ELSE <<>>

\* The places of the steps that the k-th agent takes.
Trip(k) == {i \in DOMAIN Stops(k) : Stops(k)[i] \in wired.steps \cup Own}

\* The next agent with something to do, after the k-th.
Following(k) == Min({j \in k + 1 .. Planning : j = Planning \/ Trip(j) # {}})

--------------------------------------------------------------------------------
\* Entries that come from elsewhere: two feeders, the trend desk, dispatch, the previews.
FeederFlags == {"decay_candidate", "content_audit_finding", "competitor_trend",
                "trend_declining", "spend_cap_exceeded"}
Drafts      == {"social_draft", "newsletter_draft"}
Feeders     == FeederFlags \cup {"trend_signals", "daily_digest", "trend_content_draft"}

\* A topic is a kind of its own.
Topics     == OrdinaryTopics \cup ViralTopics
FlagKinds  == {"writer_below_index", "session_movement", "gsc_empty", "gsc_unavailable",
               "overdue_outlines", "emaki_backlog", "writer_failures", "stuck_outlines",
               "no_spend_rows", "zeroed_spend"} \cup FeederFlags
QueueKinds == {"queue_ready", "queue_empty"}
Digests    == {"digest_ready", "digest_waiting"}

\* The kinds of each type that the planner asks for.
ContextKinds == Topics \cup {"ahrefs_cache", "shortlist", "coverage", "writer_quotas", "trend_signals"}
Queried == [flag |-> FlagKinds, context |-> ContextKinds, report |-> Digests \cup {"daily_digest"},
            draft |-> Drafts \cup {"trend_content_draft"}]
Types   == DOMAIN Queried

NamedKinds == FlagKinds \cup QueueKinds \cup Digests \cup Drafts \cup Feeders
         \cup {"ahrefs_cache", "ahrefs_overview", "shortlist", "analytics_summary", "sessions_daily"}
FreeFindings    == UNION (UNION {Free[s] : s \in DOMAIN Free})
MeteredFindings == UNION (BigQueryConsumAdapter \cup BigQueryDiscoverAdapter \cup GSCAdapter)
NoteKinds       == NamedKinds \cup FreeFindings \cup MeteredFindings

ASSUME TopicAssumption == Topics \cap NamedKinds = {}

Days == 0 .. 9
Note == [kind : NoteKinds, day : Days, by : 0 .. MaxRuns]
Row  == [table : Tables, category : Categories, window : Days, by : 1 .. MaxRuns]
Wiring == [steps : SUBSET (Steps \cup Feeders \cup {"newsletter", "top_articles"}),
           days : Days, runs : 0 .. MaxRuns]

ASSUME WiringAssumption == Wirings \subseteq Wiring

\* found, charged, gone, made: what the agent's transaction has written.  seen: rows that its
\* DELETE has yet to lock.  kept: the kinds of what the run's agents have committed.
Cycle == [run : 0 .. MaxRuns, at : 0 .. Planning, todo : SUBSET Nat, found : SUBSET Note,
          charged : Nat, free : Nat, refreshing : BOOLEAN, seen : SUBSET Row,
          gone : SUBSET Row, made : SUBSET Row, kept : SUBSET NoteKinds]

NoCycle == [run |-> 0, at |-> 0, todo |-> {}, found |-> {}, charged |-> 0, free |-> 0,
            refreshing |-> FALSE, seen |-> {}, gone |-> {}, made |-> {}, kept |-> {}]

NoPlan == [day |-> 0, items |-> {}, heard |-> {}, traffic |-> 0,
           read |-> [type \in Types |-> {}], topics |-> {}]

CycleInit ==
  /\ notes = {} /\ snapshots = {}
  /\ spent = 0 /\ loose = 0
  /\ today = 1
  /\ wired \in Wirings
  /\ cyc = [c \in CycleRuns |-> NoCycle]
  /\ runs = 0 /\ traffic = 0
  /\ latestPlan = NoPlan
  /\ cycOverlapped = FALSE

Running == {c \in CycleRuns : cyc[c].at # 0}

\* Entries no older than so many days.
Fresh(N, kinds, days, late) ==
  {n \in N : n.kind \in kinds /\ (today - n.day < days \/ (late /\ today - n.day = days))}

\* created_at says that n is newer than m: a later day, or a later run the same day.
Later(n, m) == n.day > m.day \/ (n.day = m.day /\ n.by > m.by /\ m.by > 0)

\* Some of S, as many as max allows.
Some(S, max) ==
  {K \in SUBSET S : Cardinality(K) = IF Cardinality(S) < max THEN Cardinality(S) ELSE max}

\* ORDER BY created_at DESC LIMIT max.
Newest(N, max) == {K \in Some(N, max) : \A k \in K, n \in N \ K : ~Later(n, k)}

--------------------------------------------------------------------------------
\* expires_at, in days (config.py, or the draft's own).
LifeOf(kind) ==
  CASE kind \in {"coverage", "trend_signals"} -> 1
    [] kind \in {"decay_candidate", "competitor_trend"} -> 3
    [] kind = "content_audit_finding" -> 5
    [] kind \in {"ahrefs_cache"} \cup FlagKinds -> 7
    [] kind \in {"striking_distance", "landscape", "writer_performance", "top_articles",
                 "discover_performance", "ahrefs_overview", "outline_queue", "writer_queue",
                 "outline_review"} \cup QueueKinds -> 3
    [] kind = "session_trends" -> 60
    [] OTHER -> 2

\* A cycle starts with a sweep of what has lapsed.
BeginCycle(c) ==
  /\ cyc[c].at = 0 /\ runs < wired.runs
  /\ runs' = runs + 1
  /\ cyc' = [cyc EXCEPT ![c] = [NoCycle EXCEPT !.run = runs + 1, !.at = Following(0),
                                             !.todo = Trip(Following(0))]]
  /\ cycOverlapped' = (cycOverlapped \/ Running # {})
  /\ \E late \in BOOLEAN :
       notes' = {n \in notes : \/ today - n.day < LifeOf(n.kind)
                               \/ late /\ today - n.day = LifeOf(n.kind)}
  /\ UNCHANGED <<snapshots, spent, loose, today, wired, traffic, latestPlan>>

\* The agent at work in c is at this step, and its DELETE is not waiting.
AtStep(c, step) ==
  /\ cyc[c].todo # {} /\ step = Stops(cyc[c].at)[Min(cyc[c].todo)]
  /\ ~cyc[c].refreshing

Rest == <<notes, snapshots, spent, loose, today, wired, runs, traffic, latestPlan, cycOverlapped>>

\* BaseAgent._persist: the drafts of the step's adapter, and what it cost.
Persist(c, kinds, bytes, free) ==
  /\ cyc' = [cyc EXCEPT
       ![c].todo = @ \ {Min(@)},
       ![c].found = @ \cup {[kind |-> k, day |-> today, by |-> cyc[c].run] : k \in kinds},
       ![c].charged = @ + bytes,
       ![c].free = @ + free]
  /\ UNCHANGED Rest

\* BaseAdapter.observe: an answer, or (AdapterUnavailable, any exception) nothing.
Observes(c, step) ==
  /\ AtStep(c, step)
  /\ step \in DOMAIN Free
  /\ \E kinds \in Free[step] \cup {{}} : Persist(c, kinds, 0, 0)

Unavailable(c) ==
  /\ \E step \in Metered : AtStep(c, step)
  /\ Persist(c, {}, 0, 0)

--------------------------------------------------------------------------------
(***************************************************************************)
(* Metered reads                                                           *)
(***************************************************************************)

\* (mutant: what the query itself will scan is left out)
FitsWithout(c, bytes) == spent + cyc[c].charged <= ByteCap

\* Governor.within_caps, with the estimate of the query: committed charges and the session's.
WithinCaps(c, bytes) == spent + cyc[c].charged + bytes <= ByteCap

\* The consum adapter asks for each of its two queries before it is charged for either; if
\* the second is refused, the first goes unrecorded (Unavailable).
ReadConsum(c) ==
  /\ AtStep(c, "bigquery_consum")
  /\ \E m, n \in Sizes, kinds \in BigQueryConsumAdapter :
       WithinCaps(c, m) /\ WithinCaps(c, n) /\ Persist(c, kinds, m + n, 0)

ReadDiscover(c) ==
  /\ AtStep(c, "bigquery_discover")
  /\ \E n \in Sizes, kinds \in BigQueryDiscoverAdapter :
       WithinCaps(c, n) /\ Persist(c, kinds, n, 0)

\* refresh_pay_baseline: its row is read by the cost report alone.
ReadPayBaseline(c) ==
  /\ AtStep(c, "pay_baseline")
  /\ \E n \in Sizes : WithinCaps(c, n) /\ Persist(c, {}, n, 0)

\* (mutant: the bytes of the export are not charged)
ReadGSCUncharged(c) ==
  /\ AtStep(c, "gsc")
  /\ \/ \E n \in Sizes, kinds \in GSCAdapter : Persist(c, kinds, 0, n)
     \/ Persist(c, {"gsc_unavailable"}, 0, 0)

\* AnalyticsAgent.top_articles_by_authors: a query of a request of its own.
TopArticles ==
  /\ "top_articles" \in wired.steps
  /\ \E n \in Sizes : spent + n <= ByteCap /\ spent' = spent + n
  /\ cycOverlapped' = (cycOverlapped \/ Running # {})
  /\ UNCHANGED <<notes, snapshots, loose, today, wired, cyc, runs, traffic, latestPlan>>

\* GSCAdapter only asks whether the query is valid, and flags an export that it cannot price.
ReadGSC(c) ==
  /\ AtStep(c, "gsc")
  /\ \/ \E n \in Sizes, kinds \in GSCAdapter : Persist(c, kinds, n, n)
     \/ Persist(c, {"gsc_unavailable"}, 0, 0)

\* (mutant: the cache is trusted for a day)
AhrefsDaily(c) ==
  /\ AtStep(c, "ahrefs")
  /\ \E late \in BOOLEAN :
       IF Fresh(notes \cup cyc[c].found, {"ahrefs_cache"}, 1, late) # {}
       THEN Persist(c, {"ahrefs_overview"}, 0, 0)
       ELSE Persist(c, {"ahrefs_cache", "ahrefs_overview"}, 0, 0)

\* AhrefsAdapter: the cached answer of the last seven days, or a paid one, which is cached.
ReadAhrefs(c) ==
  /\ AtStep(c, "ahrefs")
  /\ \E late \in BOOLEAN :
       IF Fresh(notes \cup cyc[c].found, {"ahrefs_cache"}, 7, late) # {}
       THEN Persist(c, {"ahrefs_overview"}, 0, 0)
       ELSE Persist(c, {"ahrefs_cache", "ahrefs_overview"}, 0, 0)

\* (mutant: the topic demand of today only)
ReplacedToday(table) == {r \in snapshots : r.table = table /\ r.window = today}

\* The rows that a refresh replaces: those of the same window, or all of the brand's.
Replaced(table) ==
  {r \in snapshots : r.table = table /\ (table = "writer_stats" => r.window = today)}

\* _writer_stats, _topic_demand: a query, then the DELETE finds the rows there are ...
StartRefresh(c, table) ==
  /\ AtStep(c, table)
  /\ \E n \in Sizes :
       /\ WithinCaps(c, n)
       /\ cyc' = [cyc EXCEPT ![c].charged = @ + n, ![c].refreshing = TRUE,
                             ![c].seen = Replaced(table)]
  /\ UNCHANGED Rest

\* No category has sessions: the demand stays as it is.
NoDemand(c) ==
  /\ AtStep(c, "topic_demand")
  /\ \E n \in Sizes : WithinCaps(c, n) /\ Persist(c, {}, n, 0)

Inserted(c, table, C) ==
  {[table |-> table, category |-> a, window |-> today, by |-> cyc[c].run] : a \in C}

\* A row of writer_stats is unique for an author and a window.
SameKey(q, r) == /\ q.table = "writer_stats" /\ r.table = "writer_stats"
                 /\ q.category = r.category /\ q.window = r.window

\* ... waits for those that another refresh has deleted, and the new ones go in: at once, or
\* after a refresh that is inserting the same ones, which then fails (FailAgent).
FinishRefresh(c, table) ==
  LET busy == UNION {cyc[d].gone : d \in CycleRuns \ {c}}
      rows == (UNION {cyc[d].made : d \in CycleRuns \ {c}}) \cup (snapshots \ cyc[c].seen)
  IN  /\ cyc[c].refreshing /\ table = Stops(cyc[c].at)[Min(cyc[c].todo)]
      /\ cyc[c].seen \cap busy = {}
      /\ \E C \in SUBSET Categories :
           /\ table = "topic_demand" => C # {}
           /\ ~ \E q \in Inserted(c, table, C), r \in rows : SameKey(q, r)
           /\ cyc' = [cyc EXCEPT ![c].todo = @ \ {Min(@)}, ![c].refreshing = FALSE,
                                 ![c].seen = {}, ![c].gone = @ \cup cyc[c].seen,
                                 ![c].made = @ \cup Inserted(c, table, C)]
      /\ UNCHANGED Rest

--------------------------------------------------------------------------------
(***************************************************************************)
(* What the agents make of memory, and the end of their transactions       *)
(***************************************************************************)
Visible(c) == notes \cup cyc[c].found

\* AnalyticsAgent._rollup.
AnalyticsRollup(c) == AtStep(c, "rollup") /\ Persist(c, {"analytics_summary"}, 0, 0)

\* OpportunityAgent._shortlist.
Shortlist(c) ==
  /\ AtStep(c, "shortlist")
  /\ \E late \in BOOLEAN :
       Persist(c, IF Fresh(Visible(c), Topics, 3, late) = {} THEN {} ELSE {"shortlist"}, 0, 0)

\* ReportingAgent.observe: the digest is ready if there are sessions of the last two days.
\* The newsletter is CarBuzz's.
Report(c) ==
  /\ AtStep(c, "reporting")
  /\ \E late \in BOOLEAN :
       LET digest == IF Fresh(Visible(c), {"sessions_daily"}, 2, late) = {}
                     THEN "digest_waiting" ELSE "digest_ready"
       IN  Persist(c, {digest, "social_draft"}
                      \cup (IF "newsletter" \in wired.steps THEN {"newsletter_draft"} ELSE {}),
                   0, 0)

AtWork(c) == cyc[c].at \in 1 .. Len(AgentOrder)

\* run_all_observe goes on to the next agent, whatever became of this one.
NextAgent(c, kinds) ==
  LET next == Following(cyc[c].at)
  IN  [NoCycle EXCEPT !.run = cyc[c].run, !.at = next, !.todo = Trip(next),
                      !.kept = cyc[c].kept \cup kinds]

CommitAgent(c) ==
  LET w == cyc[c]
  IN  /\ AtWork(c) /\ w.todo = {}
      /\ notes' = notes \cup w.found
      /\ snapshots' = (snapshots \ w.gone) \cup w.made
      /\ spent' = spent + w.charged /\ loose' = loose + w.free
      /\ traffic' = IF \E n \in w.found : n.kind = "sessions_daily" THEN today ELSE traffic
      /\ cyc' = [cyc EXCEPT ![c] = NextAgent(c, {n.kind : n \in w.found})]
      /\ UNCHANGED <<today, wired, runs, latestPlan, cycOverlapped>>

\* An exception outside the adapters, a crash of the database: what the agent wrote is lost,
\* the record of what its reads cost with it.
FailAgent(c) ==
  /\ AtWork(c)
  /\ cyc' = [cyc EXCEPT ![c] = NextAgent(c, {})]
  /\ UNCHANGED Rest

--------------------------------------------------------------------------------
(***************************************************************************)
(* The plan                                                                *)
(***************************************************************************)
\* What a flag scores by its severity, and a plan without signals.
FlagScore(kind) ==
  CASE kind \in {"overdue_outlines", "writer_failures", "session_movement",
                "content_audit_finding", "competitor_trend", "spend_cap_exceeded"} -> 100
    [] kind \in {"gsc_empty", "gsc_unavailable", "no_spend_rows"} -> 30
    [] kind = "none" -> 10
    [] OTHER -> 60

ScoreOf(action, kind) ==
  CASE action = "emaki_publish_draft" -> 80
    [] action = "queue_decay_refresh" -> 65
    [] action = "assemble_digest" -> 55
    [] action = "route_to_writer" -> IF kind \in ViralTopics THEN 55 ELSE 50
    [] action = "assemble_newsletter" -> 45
    [] action = "assemble_social_post" -> 40
    [] OTHER -> FlagScore(kind)

\* day, by: the note behind an item; a topic is the same whichever note it comes from.
Proposal(action, kind, day, by) ==
  [action |-> action, kind |-> kind, score |-> ScoreOf(action, kind), day |-> day, by |-> by]

\* The five newest snapshots of the hc-viral queue are looked at, newest first, and the last
\* one looked at counts.
QueueReady ==
  LET Q == {n \in notes : n.kind \in QueueKinds}
      Newer(n) == Cardinality({q \in Q : q.by > n.by})
      last == IF Cardinality(Q) < 5 THEN Cardinality(Q) ELSE 5
  IN  \E n \in Q : Newer(n) = last - 1 /\ n.kind = "queue_ready"

FlagAction(kind) ==
  CASE kind = "emaki_backlog" /\ QueueReady -> "emaki_publish_draft"
    [] kind = "decay_candidate" -> "queue_decay_refresh"
    [] kind = "content_audit_finding" -> "create_asana_task"
    [] OTHER -> "notify"

\* What the four queries may return.
Answers(three, two) ==
  {[flag |-> F, context |-> X, report |-> R, draft |-> D] :
     F \in Newest(Fresh(notes, Queried.flag, 3, three), MaxEntries),
     X \in Newest(Fresh(notes, Queried.context, 3, three), MaxEntries),
     R \in Newest(Fresh(notes, Queried.report, 2, two), MaxReports),
     D \in Newest(Fresh(notes, Queried.draft, 2, two), MaxReports)}

FromFlags(F) == {Proposal(FlagAction(n.kind), n.kind, n.day, n.by) : n \in F}

\* The first entry of each topic in the answer, and of those the first few, whatever they score.
Deduped(X) == {n \in X : n.kind \in Topics /\ ~ \E m \in X : m.kind = n.kind /\ Later(m, n)}

FromCandidates(T) == {Proposal("route_to_writer", n.kind, 0, 0) : n \in T}

FromDrafts(D) ==
  {Proposal(IF n.kind = "social_draft" THEN "assemble_social_post" ELSE "assemble_newsletter",
            n.kind, n.day, n.by) : n \in {d \in D : d.kind \in Drafts}}

\* (mutant: a report is a digest, ready or not)
FromAnyReport(R, D) ==
  {Proposal("assemble_digest", "digest_ready", n.day, n.by) : n \in R} \cup FromDrafts(D)

FromDistribution(R, D) ==
  {Proposal("assemble_digest", n.kind, n.day, n.by) : n \in {r \in R : r.kind = "digest_ready"}}
  \cup FromDrafts(D)

Proposals(a, T) == FromFlags(a.flag) \cup FromCandidates(T) \cup FromDistribution(a.report, a.draft)

NothingToDo == Proposal("notify", "none", 0, 0)

\* The best candidates, as many as a plan holds: equal scores in any order.
Top(P) == {K \in Some(P, MaxItems) : \A k \in K, p \in P \ K : p.score <= k.score}

\* History: of so many notes, those as new as the cycle's own.
AsNew(c, N) == {n \in N : n.day = today /\ n.by \in {0, cyc[c].run}}

\* Planner.plan, the brief, the commit.
MakePlan(c) ==
  /\ cyc[c].at = Planning
  /\ \E three, two \in BOOLEAN :
       \E a \in Answers(three, two) :
         \E T \in Newest(Deduped(a.context), MaxTopics) :
           \E K \in Top(Proposals(a, T)) :
             latestPlan' = [day |-> today, items |-> IF K = {} THEN {NothingToDo} ELSE K,
                            heard |-> cyc[c].kept, traffic |-> traffic,
                            read |-> [type \in Types |-> AsNew(c, a[type])],
                            topics |-> AsNew(c, T)]
  /\ cyc' = [cyc EXCEPT ![c] = NoCycle]
  /\ UNCHANGED <<notes, snapshots, spent, loose, today, wired, runs, traffic, cycOverlapped>>

\* The plan's transaction fails, or the process is restarted.
AbandonCycle(c) ==
  /\ cyc[c].at # 0
  /\ cyc' = [cyc EXCEPT ![c] = NoCycle]
  /\ UNCHANGED Rest

--------------------------------------------------------------------------------
\* A feeder's findings, on its own schedule.
Feed(kind) ==
  /\ kind \in wired.steps
  /\ notes' = notes \cup {[kind |-> kind, day |-> today, by |-> 0]}
  /\ UNCHANGED <<snapshots, spent, loose, today, wired, cyc, runs, traffic, latestPlan,
                 cycOverlapped>>

DecayScan    == Feed("decay_candidate")         \* search positions lost since last month
ContentAudit == Feed("content_audit_finding")   \* pages that are read to no depth

\* The trend scan and its watch; a trend's flag takes the place of its last, so two are of two.
TrendScan == \E kind \in {"trend_signals", "competitor_trend", "trend_declining"} : Feed(kind)

\* The digest that a live action leaves, and the governor's flag when it refuses one.
Dispatched == \E kind \in {"spend_cap_exceeded", "daily_digest"} : Feed(kind)

\* A preview of the content pipeline.
Previewed == Feed("trend_content_draft")

\* One kind for MemoryStore.supersede_duplicates.
Same(m, n) == \/ m.kind = n.kind
              \/ {m.kind, n.kind} \subseteq Digests
              \/ {m.kind, n.kind} \subseteq QueueKinds

\* Midnight, and the sweep of 5:45, if it runs: the newest snapshot of each kind stays.  No
\* cycle is open.
Tomorrow ==
  /\ Running = {} /\ today < wired.days
  /\ today' = today + 1
  /\ spent' = 0 /\ loose' = 0
  /\ \/ UNCHANGED notes
     \/ notes' = {m \in notes : m.kind \in FlagKinds \/ ~ \E n \in notes : Same(m, n) /\ Later(n, m)}
  /\ UNCHANGED <<snapshots, wired, cyc, runs, traffic, latestPlan, cycOverlapped>>

CycleNext ==
  \/ \E c \in CycleRuns :
       \/ BeginCycle(c)
       \/ \E step \in Steps : Observes(c, step)
       \/ Unavailable(c)
       \/ ReadConsum(c) \/ ReadDiscover(c) \/ ReadPayBaseline(c) \/ ReadGSC(c) \/ ReadAhrefs(c)
       \/ \E table \in Tables : StartRefresh(c, table) \/ FinishRefresh(c, table)
       \/ NoDemand(c)
       \/ AnalyticsRollup(c) \/ Shortlist(c) \/ Report(c)
       \/ CommitAgent(c) \/ FailAgent(c)
       \/ MakePlan(c) \/ AbandonCycle(c)
  \/ TopArticles
  \/ DecayScan \/ ContentAudit \/ TrendScan \/ Dispatched \/ Previewed
  \/ Tomorrow

CycleSpec == CycleInit /\ [][CycleNext]_cycleVars

--------------------------------------------------------------------------------
\* Type invariant.
CycleTypeOK ==
  /\ notes \subseteq Note /\ snapshots \subseteq Row
  /\ spent \in Nat /\ loose \in 0 .. spent
  /\ today \in Days /\ wired \in Wirings
  /\ cyc \in [CycleRuns -> Cycle]
  /\ \A c \in CycleRuns :
       cyc[c].todo \subseteq DOMAIN Stops(cyc[c].at) /\ cyc[c].free <= cyc[c].charged
  /\ runs \in 0 .. MaxRuns /\ traffic \in 0 .. today /\ latestPlan.day \in 0 .. today
  /\ cycOverlapped \in BOOLEAN

\* What the panels show of the writers of a window, and of topic demand, is one query's
\* answer, not a mixture of several ("Snapshot replace: the latest set per brand is the
\* truth", agents/analytics.py:118), as long as cycles do not overlap; and never two rows for
\* a writer in a window, even if they do.
SnapshotsAreWhole ==
  /\ ~cycOverlapped =>
       \A q, r \in snapshots :
         q.table = r.table /\ (q.table = "writer_stats" => q.window = r.window) => q.by = r.by
  /\ \A q, r \in snapshots : SameKey(q, r) => q = r

\* A plan proposes to assemble the digest only if sessions were recorded at most four days
\* before: two windows of two days, one behind the other.
DigestInputsRecent ==
  (\E i \in latestPlan.items : i.action = "assemble_digest")
    => latestPlan.traffic > 0 /\ latestPlan.day - latestPlan.traffic <= 4

\* What the findings of a cycle call for.
Warranted(K) ==
  {k \in FlagKinds \cup Topics \cup Drafts : k \in K}
  \cup (IF "sessions_daily" \in K /\ K \cap Digests # {} THEN {"digest_ready"} ELSE {})

\* What a finding scores at least.
Urgency(k) ==
  CASE k \in Topics          -> ScoreOf("route_to_writer", k)
    [] k = "digest_ready"     -> ScoreOf("assemble_digest", k)
    [] k = "newsletter_draft" -> ScoreOf("assemble_newsletter", k)
    [] k = "social_draft"     -> ScoreOf("assemble_social_post", k)
    [] k = "decay_candidate"  -> ScoreOf("queue_decay_refresh", k)
    [] OTHER                  -> ScoreOf("notify", k)

LimitOf(type) == IF type \in {"flag", "context"} THEN MaxEntries ELSE MaxReports

\* What the agents of the cycle found and committed is proposed the same morning, by
\* whichever of them it took; it is left out only of a full plan, and only for what scores at
\* least as much, unless entries as new as the cycle's own filled the query that should have
\* returned it or, for a topic, other topics as new were all that a plan takes.
PlanSeesTheDay ==
  ~cycOverlapped =>
    \A k \in Warranted(latestPlan.heard) :
      \/ \E i \in latestPlan.items : i.kind = k
      \/ /\ Cardinality(latestPlan.items) = MaxItems
         /\ \A i \in latestPlan.items : Urgency(k) <= i.score
      \/ \E type \in Types : /\ k \in Queried[type]
                             /\ Cardinality(latestPlan.read[type]) = LimitOf(type)
      \/ k \in Topics /\ Cardinality(latestPlan.topics) = MaxTopics

\* The bytes that are on record for a day, the uncapped search export apart, exceed the cap
\* by one query at most, as long as cycles do not overlap ("Metered reads count against the
\* governor's caps", adapters/base.py:78).
ScanCapHolds ==
  ~cycOverlapped =>
    \A c \in CycleRuns :
      \E n \in Sizes : spent + cyc[c].charged - loose - cyc[c].free <= ByteCap + n

\* A paid Ahrefs answer serves for seven days: no two are cached within a week of each other,
\* as long as cycles do not overlap.
PaidOnceAWeek ==
  ~cycOverlapped =>
    \A m, n \in notes : /\ m.kind = "ahrefs_cache" /\ n.kind = "ahrefs_cache"
                        /\ m.day < n.day \/ (m.day = n.day /\ m.by < n.by)
                        => n.day - m.day >= 7

================================================================================
