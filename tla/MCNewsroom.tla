------------------------------ MODULE MCNewsroom ------------------------------
(* Small instances of the components behind the newsroom's console.  They share no    *)
(* rows, so a behaviour exercises one of them: part says which.                        *)
EXTENDS WriterVoice, MorningCycle, Console, Expenditure, TLC

CONSTANT Parts   \* the components that a run exercises

VARIABLE part

newsVars == <<part, voiceVars, cycleVars, consoleVars, costVars>>

\* The systems that answer, how many days the cycle is followed, and how often it runs.
W(steps, days, n) == [steps |-> steps, days |-> days, runs |-> n]

\* Cycles overlap within a day.
Overlap == W(Tables, 1, 2)

MCWirings ==
  {W({"sentinel_traffic"}, 5, 3),
   W({"ahrefs"}, 9, 2),
   W({"hc_viral_queue", "hc_viral_ideation"}, 2, 2),
   W({"bigquery_consum", "pay_baseline", "gsc"}, 2, 2),
   W({"bigquery_discover", "top_articles"}, 2, 2),
   W(Tables, 2, 2),
   Overlap,
   W({"asana", "newsletter", "decay_candidate", "content_audit_finding"}, 3, 1),
   W({"albert_ideation", "hc_viral_ideation", "trend_signals"}, 2, 1),
   W({"seona_ideation", "hc_viral_ideation"}, 1, 2),
   W({"asana", "outline_review", "session_trends", "albert_writer_queue", "spend_cap_exceeded"}, 1, 1),
   W({"gsc", "competitor_trend", "trend_declining"}, 2, 1),
   W({"sentinel_traffic", "newsletter", "daily_digest", "trend_content_draft"}, 1, 2),
   W({"similarweb", "competitor_news", "sheets_quota", "google_ads", "meta_ads", "bing_ads"}, 1, 1),
   W({"paid_media_sheet", "sentinel_events", "lead_feeds"}, 2, 1)}

\* Two weights, shipped inside the range and at its end; requests ask beyond it.
MCShipped == [k \in Knobs |-> IF k = CHOOSE j \in Knobs : TRUE THEN 2 ELSE 3]

\* A rate for an article, and one for its words that ends on half a cent.
MCPays == {[article |-> 12, word |-> Null], [article |-> Null, word |-> 6]}

\* An attempt with calls, and one without, whose draft came from elsewhere and has no word count.
MCCall(i, c, o, n) == [input |-> i, cached |-> c, output |-> o, searches |-> n]
MCCalls == {MCCall(1, 2, 1, 1) @@ [words |-> 1], MCCall(0, 0, 0, 0) @@ [words |-> 0]}
MCPrice == MCCall(2, 1, 3, 4)

\* The scheduler's process, where cycles do not overlap.
Scheduler == CHOOSE c \in CycleRuns : TRUE

Init ==
  /\ part \in Parts
  /\ VoiceInit
  /\ CycleInit
  /\ ConsoleInit
  /\ CostInit
  /\ part # "cycle" => wired = Overlap

Next ==
  /\ UNCHANGED part
  /\ \/ part = "rotation" /\ RotationNext /\ ~jostled' /\ UNCHANGED <<cycleVars, consoleVars, costVars>>
     \/ part = "profiles" /\ ProfileNext /\ UNCHANGED <<cycleVars, consoleVars, costVars>>
     \/ /\ part = "cycle" /\ CycleNext /\ UNCHANGED <<voiceVars, consoleVars, costVars>>
        /\ \A c \in CycleRuns \ {Scheduler} : cyc'[c] = cyc[c]
     \/ part = "refresh" /\ CycleNext /\ UNCHANGED <<voiceVars, consoleVars, costVars>>
     \/ part = "users" /\ UserNext /\ UNCHANGED <<voiceVars, cycleVars, weightVars, costVars>>
     \/ part = "weights" /\ WeightNext /\ UNCHANGED <<voiceVars, cycleVars, userVars, costVars>>
     \/ part = "costs" /\ CostNext /\ UNCHANGED <<voiceVars, cycleVars, consoleVars>>

Spec == Init /\ [][Next]_newsVars

\* Type invariant of the components.
NewsroomTypeOK == VoiceTypeOK /\ CycleTypeOK /\ ConsoleTypeOK /\ CostTypeOK
================================================================================
