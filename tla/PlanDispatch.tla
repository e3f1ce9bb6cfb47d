------------------------------ MODULE PlanDispatch ------------------------------
(***************************************************************************)
(* The morning plans after the planner has drafted them (orchestrator/     *)
(* plans.py, dispatch.py): humans approve, reject and go live item by      *)
(* item, a dispatch runs the approved items of a plan against services     *)
(* outside, and the governor (governor/) refuses what is over the caps.    *)
(*                                                                         *)
(* A dispatch is ONE transaction: it loads the plan and its items, marks   *)
(* each item (which locks its row until the commit), acts, charges the     *)
(* ledger, marks the plan and commits.  What its actions did outside stays *)
(* done when the transaction does not commit.  "Approve all" takes the     *)
(* rows the other way round, the plan's first.  Two dispatches, or a       *)
(* dispatch and a human, overlap as READ COMMITTED lets them, and Postgres *)
(* aborts one of those that wait for each other in a circle.               *)
(*                                                                         *)
(* Outside the model: "notify" items (run by the orchestrator itself, they *)
(* post to Slack whatever dry_run says), edits of an item's wording, the   *)
(* memory entries written on the way, and two of the three metrics (each   *)
(* is checked and charged like the one here).                              *)
(***************************************************************************)
EXTENDS Integers, FiniteSets

CONSTANTS
  Plans,
  Items,       \* item ids; the planner inserts a plan's items in rank order
  PlanOf,      \* the plan of an item
  Cost,        \* cost_estimate of an item, also what it is charged (_est)
  NoItem,
  NoPlan,
  Sessions,    \* web requests, the CLI and the agents' passes
  KillSwitch,  \* SWITCHBOARD_KILL_SWITCH, read once per process
  PerRun,      \* the shipped per-run cap
  CapChoices,  \* caps in force: the shipped one and those an admin may save
  NoCap,       \* "this governor has not resolved its caps yet"
  Rough,       \* the estimate a metered call is checked with
  CallCosts,   \* what a metered call may turn out to cost
  MaxPosts,    \* attempts of one POST (_MAX_ATTEMPTS)
  MaxOverlap,  \* how many transactions may be open at once
  MaxGrants,   \* bound: go-live approvals of an item
  MaxLedger,   \* bound: spend of a day beyond which no metered call begins
  MaxFaults    \* bound on faults: lost connections, dead processes, lost answers

ASSUME DispatchAssumption ==
  /\ Items \subseteq Nat
  /\ PlanOf \in [Items -> Plans]
  /\ Cost \in [Items -> Nat]
  /\ NoItem \notin Items
  /\ NoPlan \notin Plans
  /\ KillSwitch \in BOOLEAN
  /\ PerRun \in Nat
  /\ CapChoices \subseteq [on : BOOLEAN, day : Nat]
  /\ NoCap \notin CapChoices
  /\ Rough \in Nat
  /\ CallCosts \subseteq Nat
  /\ MaxPosts \in Nat \ {0}
  /\ MaxOverlap \in Nat
  /\ MaxGrants \in Nat
  /\ MaxLedger \in Nat
  /\ MaxFaults \in Nat

VARIABLES
  plan,     \* status of the plan rows
  item,     \* the plan_item rows
  cap,      \* the spend caps in force (app_setting over the shipped defaults)
  ledger,   \* the committed spend_ledger of today
  session,  \* the transaction each session has open
  effects,  \* live actions performed outside for an item (not rolled back)
  grants,   \* history: go-live approvals of an item that have committed
  faults    \* lost connections, dead processes and lost answers so far

vars == <<plan, item, cap, ledger, session, effects, grants, faults>>

PlanStatus == {"draft", "approved", "dispatched"}

\* "running" and the other plan statuses are never written.
Settled    == {"rejected", "done", "failed"}
ItemStatus == {"proposed", "approved", "dispatched"} \cup Settled

Row     == [status : ItemStatus \ {"dispatched"}, dry : BOOLEAN]
RowView == [status : ItemStatus, dry : BOOLEAN]

NewItem == [status |-> "proposed", dry |-> TRUE]

\* The transaction of a session: the plan it is about, with the status it loaded, the one it
\* leaves there, and whether it holds the plan's row already; the item rows it loaded, what it
\* makes of them, and those still to be flushed or dispatched; the items a human sets live; the
\* one a dispatch acts on; of its governor, the caps it has resolved and what it has charged.
Session == [op : {"idle", "human", "dispatch", "call"},
            of : Plans \cup {NoPlan}, old : PlanStatus, new : PlanStatus, held : BOOLEAN,
            loaded : [Items -> Row], mine : [Items -> RowView],
            live : SUBSET Items, left : SUBSET Items, acting : Items \cup {NoItem},
            cap : CapChoices \cup {NoCap}, charged : Nat]

NewItems == [i \in Items |-> NewItem]

IdleSession == [op |-> "idle", of |-> NoPlan, old |-> "draft", new |-> "draft",
                held |-> FALSE, loaded |-> NewItems, mine |-> NewItems, live |-> {},
                left |-> {}, acting |-> NoItem, cap |-> NoCap, charged |-> 0]

ItemsOf(p) == {i \in Items : PlanOf[i] = p}

Init ==
  /\ plan = [p \in Plans |-> "draft"]
  /\ item = NewItems
  /\ cap \in CapChoices
  /\ ledger = 0
  /\ session = [s \in Sessions |-> IdleSession]
  /\ effects = [i \in Items |-> 0]
  /\ grants = [i \in Items |-> 0]
  /\ faults = 0

--------------------------------------------------------------------------------
(***************************************************************************)
(* Sessions                                                                *)
(***************************************************************************)

Doing(s, op) == session[s].op = op
Open         == {s \in Sessions : ~Doing(s, "idle")}

\* A session that has loaded the rows of the items R, and changed nothing yet.
Rows(R) == [i \in Items |-> IF i \in R THEN item[i] ELSE NewItem]

Loading(op, R) == [IdleSession EXCEPT !.op = op, !.loaded = Rows(R), !.mine = Rows(R)]

\* The same of one that has also loaded plan p, and leaves it with status new.
LoadingPlan(op, p, new, R) ==
  [Loading(op, R) EXCEPT !.of = p, !.old = plan[p], !.new = new]

Begin(s, ses) ==
  /\ Doing(s, "idle")
  /\ Cardinality(Open) < MaxOverlap
  /\ session' = [session EXCEPT ![s] = ses]

\* The rows that a session has flushed changes to, or will.
Changed(ses) == {i \in Items : ses.mine[i] # ses.loaded[i]}

\* (mutant: items are taken in any order)
NextItemAny(ses, i) == i \in ses.left

\* plan.items and approved_items are taken in the order of their rank.
NextItem(ses, i) == i \in ses.left /\ \A k \in ses.left : i <= k

\* The row that a transaction is to UPDATE next: of an item, of the plan before its items
\* ("approve all"), or of the plan after them (a dispatch, unless it loaded it as dispatched).
WantsItem(ses, i) ==
  /\ NextItem(ses, i) /\ ses.acting = NoItem
  /\ ses.op = "human" /\ ses.of # NoPlan => ses.held

WantsPlan(ses, p) ==
  /\ ses.of = p /\ ~ses.held
  /\ ses.op = "dispatch" => ses.left = {} /\ ses.acting = NoItem /\ ses.old # "dispatched"

\* The rows that a transaction has written and not committed; others wait for them.
HoldsItem(ses, i) == i \in Changed(ses) \ ses.left
HoldsPlan(ses, p) == ses.of = p /\ ses.held

ItemFree(s, i) == \A u \in Sessions \ {s} : ~HoldsItem(session[u], i)
PlanFree(s, p) == \A u \in Sessions \ {s} : ~HoldsPlan(session[u], p)

WaitsFor(s, u) ==
  /\ s # u
  /\ \/ \E i \in Items : WantsItem(session[s], i) /\ HoldsItem(session[u], i)
     \/ \E p \in Plans : WantsPlan(session[s], p) /\ HoldsPlan(session[u], p)

\* Each of the sessions C waits for one of them, and is waited for.
Cyclic(C) == \A s \in C : (\E u \in C : WaitsFor(s, u)) /\ (\E u \in C : WaitsFor(u, s))

\* An UPDATE sets the columns whose value differs from the loaded one.
Column(now, loaded, mine) == IF mine # loaded THEN mine ELSE now

Written(ses) ==
  [i \in Items |-> [status |-> Column(item[i].status, ses.loaded[i].status, ses.mine[i].status),
                    dry    |-> Column(item[i].dry, ses.loaded[i].dry, ses.mine[i].dry)]]

Commit(s) ==
  LET ses == session[s]
  IN  /\ plan' = [p \in Plans |-> IF p = ses.of THEN Column(plan[p], ses.old, ses.new)
                                                  ELSE plan[p]]
      /\ item' = Written(ses)
      /\ session' = [session EXCEPT ![s] = IdleSession]

Fault(n) == faults + n <= MaxFaults /\ faults' = faults + n

\* An open transaction ends in an error: what it flushed is rolled back.
Abandon(s) ==
  /\ ~Doing(s, "idle")
  /\ session' = [session EXCEPT ![s] = IdleSession]
  /\ UNCHANGED <<plan, item, cap, ledger, effects, grants>>

\* The connection is lost, or the process dies.
Abort(s) == Abandon(s) /\ Fault(1)

\* Postgres finds a circle of transactions that wait for each other, and aborts one of them.
Victim(s) ==
  /\ \E C \in SUBSET Open : s \in C /\ Cyclic(C)
  /\ Abandon(s)
  /\ UNCHANGED faults

--------------------------------------------------------------------------------
(***************************************************************************)
(* Humans.  The route loads and changes the rows, flushes one after the    *)
(* other when no other transaction holds it, and commits with the last.    *)
(* No status is refused.                                                   *)
(***************************************************************************)

Says(s, ses) ==
  /\ Begin(s, [ses EXCEPT !.left = Changed(ses)])
  /\ UNCHANGED <<plan, item, cap, ledger, effects, grants, faults>>

Approved(live) == [status |-> "approved", dry |-> ~live]

ApproveItem(s, i, live) ==
  /\ live => grants[i] < MaxGrants
  /\ Says(s, [Loading("human", {i}) EXCEPT !.mine[i] = Approved(live),
                                           !.live = IF live THEN {i} ELSE {}])

RejectItem(s, i) == Says(s, [Loading("human", {i}) EXCEPT !.mine[i].status = "rejected"])

ApprovePlan(s, p) == Says(s, LoadingPlan("human", p, "approved", {}))

\* Approve the plan and its proposed items, without going live.
ApproveAll(s, p) ==
  LET new == {i \in ItemsOf(p) : item[i].status = "proposed"}
  IN  Says(s, [LoadingPlan("human", p, "approved", new) EXCEPT
                 !.mine = [i \in Items |-> IF i \in new THEN Approved(FALSE) ELSE NewItem]])

\* approve_plan flushes the plan's row before the items are approved ...
HoldPlan(s) ==
  /\ Doing(s, "human") /\ session[s].left # {}
  /\ \E p \in Plans : WantsPlan(session[s], p) /\ PlanFree(s, p)
  /\ session' = [session EXCEPT ![s].held = TRUE]
  /\ UNCHANGED <<plan, item, cap, ledger, effects, grants, faults>>

\* ... one by one; each row is held from here on.
Flush(s, i) ==
  /\ Doing(s, "human") /\ WantsItem(session[s], i) /\ ItemFree(s, i)
  /\ session[s].left # {i}
  /\ session' = [session EXCEPT ![s].left = @ \ {i}]
  /\ UNCHANGED <<plan, item, cap, ledger, effects, grants, faults>>

\* The last row is flushed (if one is left), and the transaction commits.
SaveWord(s) ==
  LET ses == session[s]
  IN  /\ Doing(s, "human")
      /\ \/ ses.left = {} /\ \A p \in Plans : WantsPlan(ses, p) => PlanFree(s, p)
         \/ \E i \in Items : ses.left = {i} /\ WantsItem(ses, i) /\ ItemFree(s, i)
      /\ Commit(s)
      /\ grants' = [i \in Items |-> IF i \in ses.live THEN grants[i] + 1 ELSE grants[i]]
      /\ UNCHANGED <<cap, ledger, effects, faults>>

\* save_caps and reset_caps: an admin changes the caps in force, in a transaction of its own.
SetCaps ==
  /\ Cardinality(Open) < MaxOverlap
  /\ cap' \in CapChoices
  /\ UNCHANGED <<plan, item, ledger, session, effects, grants, faults>>

--------------------------------------------------------------------------------
(***************************************************************************)
(* Dispatch                                                                *)
(***************************************************************************)

\* (mutant: plans need no approval)
DispatchableAny == PlanStatus

Dispatchable == {"approved", "dispatched"}

\* (mutant: what was done is run again)
RunnableDone == {"approved", "done"}

Runnable == {"approved"}

OpenDispatch(s, p) ==
  LET queue == {i \in ItemsOf(p) : item[i].status \in Runnable}
  IN  /\ plan[p] \in Dispatchable
      /\ Begin(s, [LoadingPlan("dispatch", p, plan[p], queue) EXCEPT !.left = queue])
      /\ UNCHANGED <<plan, item, cap, ledger, effects, grants, faults>>

\* The caps of a governor are resolved once, when it first checks a budget.
Resolved(ses) == IF ses.cap = NoCap THEN cap ELSE ses.cap

\* A governor sees the committed ledger and its own charges.
WithinDay(c, ses, amount) == c.on => ledger + ses.charged + amount <= c.day

\* The overlay keeps the per-run cap within the per-day one.
RunCap(c) == IF PerRun <= c.day THEN PerRun ELSE c.day

\* (mutant: the check forgets what this dispatch has charged already)
InBudgetCommitted(ses, i) ==
  LET c == Resolved(ses)
  IN  Cost[i] > 0 /\ c.on => Cost[i] <= RunCap(c) /\ ledger + Cost[i] <= c.day

\* check_budget: per run, then per day; nothing to check for a free action.
InBudget(ses, i) ==
  LET c == Resolved(ses)
  IN  Cost[i] > 0 => (c.on => Cost[i] <= RunCap(c)) /\ WithinDay(c, ses, Cost[i])

\* check_action's effective dry_run, of the row as the session loaded it.
GoesLive(ses, i) == ~ses.loaded[i].dry

\* The two gates, and the mark they leave: it waits for the row, and then holds it.
Mark(s, i) ==
  LET ses     == session[s]
      live    == GoesLive(ses, i) /\ ~KillSwitch
      refused == KillSwitch \/ (live /\ ~InBudget(ses, i))
  IN  /\ Doing(s, "dispatch")
      /\ WantsItem(ses, i) /\ ItemFree(s, i)
      /\ session' = [session EXCEPT ![s] =
           [ses EXCEPT !.left = @ \ {i},
                       !.cap = IF live /\ Cost[i] > 0 THEN Resolved(ses) ELSE @,
                       !.acting = IF refused THEN NoItem ELSE i,
                       !.mine[i].status = IF refused THEN "failed" ELSE "dispatched"]]
      /\ UNCHANGED <<plan, item, cap, ledger, effects, grants, faults>>

\* (mutant: a failed item is left approved, for the next dispatch)
EndsRequeued(s, ok, landed, lost) ==
  LET ses  == session[s]
      i    == ses.acting
      live == GoesLive(ses, i)
  IN  /\ Doing(s, "dispatch") /\ i # NoItem
      /\ live \/ landed = 0
      /\ Fault(lost)
      /\ effects' = [effects EXCEPT ![i] = @ + landed]
      /\ session' = [session EXCEPT ![s] =
           [ses EXCEPT !.acting = NoItem,
                       !.mine[i].status = IF ok THEN "done" ELSE "approved",
                       !.charged = IF ok /\ live THEN @ + Cost[i] ELSE @]]
      /\ UNCHANGED <<plan, item, cap, ledger, grants>>

\* The action has ended, with landed performances outside, lost of them unanswered.
Ends(s, ok, landed, lost) ==
  LET ses  == session[s]
      i    == ses.acting
      live == GoesLive(ses, i)
  IN  /\ Doing(s, "dispatch") /\ i # NoItem
      /\ live \/ landed = 0
      /\ Fault(lost)
      /\ effects' = [effects EXCEPT ![i] = @ + landed]
      /\ session' = [session EXCEPT ![s] =
           [ses EXCEPT !.acting = NoItem,
                       !.mine[i].status = IF ok THEN "done" ELSE "failed",
                       !.charged = IF ok /\ live THEN @ + Cost[i] ELSE @]]
      /\ UNCHANGED <<plan, item, cap, ledger, grants>>

\* A live action is performed once, and once more for each answer that was lost and retried.
Succeeds(s) ==
  \/ Ends(s, TRUE, 0, 0) /\ ~GoesLive(session[s], session[s].acting)
  \/ \E lost \in 0 .. MaxPosts - 1 : Ends(s, TRUE, lost + 1, lost)

\* act() turns every exception into a failed result, whatever had been performed.
Fails(s) == \E lost \in 0 .. MaxPosts : Ends(s, FALSE, lost, lost)

\* (mutant: commits while an action is under way)
FinishDispatchEarly(s) ==
  LET ses == session[s]
  IN  /\ Doing(s, "dispatch") /\ ses.left = {}
      /\ \A p \in Plans : WantsPlan(ses, p) => PlanFree(s, p)
      /\ plan' = [plan EXCEPT ![ses.of] = Column(@, ses.old, "dispatched")]
      /\ item' = Written(ses)
      /\ session' = [session EXCEPT ![s] = IdleSession]
      /\ ledger' = ledger + ses.charged
      /\ UNCHANGED <<cap, effects, grants, faults>>

\* (mutant: the plan is only marked when nothing failed, and the transaction is left open)
FinishDispatchUnfailed(s) ==
  LET ses == session[s]
  IN  /\ Doing(s, "dispatch") /\ ses.left = {} /\ ses.acting = NoItem
      /\ \A i \in Items : ses.mine[i].status # "failed"
      /\ \A p \in Plans : WantsPlan(ses, p) => PlanFree(s, p)
      /\ plan' = [plan EXCEPT ![ses.of] = Column(@, ses.old, "dispatched")]
      /\ item' = Written(ses)
      /\ session' = [session EXCEPT ![s] = IdleSession]
      /\ ledger' = ledger + ses.charged
      /\ UNCHANGED <<cap, effects, grants, faults>>

\* The plan is marked dispatched, when its row is free, and everything commits.
FinishDispatch(s) ==
  LET ses == session[s]
  IN  /\ Doing(s, "dispatch") /\ ses.left = {} /\ ses.acting = NoItem
      /\ \A p \in Plans : WantsPlan(ses, p) => PlanFree(s, p)
      /\ plan' = [plan EXCEPT ![ses.of] = Column(@, ses.old, "dispatched")]
      /\ item' = Written(ses)
      /\ session' = [session EXCEPT ![s] = IdleSession]
      /\ ledger' = ledger + ses.charged
      /\ UNCHANGED <<cap, effects, grants, faults>>

--------------------------------------------------------------------------------
(***************************************************************************)
(* Metered calls of agents and pipeline jobs, and the day                  *)
(***************************************************************************)

\* complete, and the BigQuery and Ahrefs reads: checked with an estimate, charged what it was.
BeginCall(s) ==
  /\ CallCosts # {} /\ ledger <= MaxLedger
  /\ WithinDay(cap, IdleSession, Rough)
  /\ Begin(s, [IdleSession EXCEPT !.op = "call"])
  /\ UNCHANGED <<plan, item, cap, ledger, effects, grants, faults>>

EndCall(s) ==
  /\ Doing(s, "call")
  /\ \E n \in CallCosts : ledger' = ledger + n
  /\ session' = [session EXCEPT ![s] = IdleSession]
  /\ UNCHANGED <<plan, item, cap, effects, grants, faults>>

\* spent_today starts again; what open sessions charged belongs to the day before.
Midnight ==
  /\ ledger' = 0
  /\ session' = [s \in Sessions |-> [session[s] EXCEPT !.charged = 0]]
  /\ UNCHANGED <<plan, item, cap, effects, grants, faults>>

--------------------------------------------------------------------------------
HumanStep(s) ==
  \/ \E i \in Items, live \in BOOLEAN : ApproveItem(s, i, live)
  \/ \E i \in Items : RejectItem(s, i)
  \/ \E p \in Plans : ApprovePlan(s, p) \/ ApproveAll(s, p)
  \/ HoldPlan(s)
  \/ \E i \in Items : Flush(s, i)
  \/ SaveWord(s)

DispatchStep(s) ==
  \/ \E p \in Plans : OpenDispatch(s, p)
  \/ \E i \in Items : Mark(s, i)
  \/ Succeeds(s)
  \/ Fails(s)
  \/ FinishDispatch(s)

Next ==
  \/ \E s \in Sessions :
       \/ HumanStep(s) \/ DispatchStep(s)
       \/ BeginCall(s) \/ EndCall(s)
       \/ Abort(s) \/ Victim(s)
  \/ SetCaps
  \/ Midnight

Spec == Init /\ [][Next]_vars

\* The next statement of an open transaction.
GoesOn(s) ==
  \/ HoldPlan(s) \/ (\E i \in Items : Flush(s, i) \/ Mark(s, i)) \/ SaveWord(s)
  \/ Succeeds(s) \/ Fails(s) \/ FinishDispatch(s) \/ EndCall(s)

\* A transaction that can go on does: an action ends or times out, a commit returns, and who
\* waits for a row gets it in turn (Postgres queues them: SF).  A circle of waiting ones is
\* found (deadlock_timeout).  Nothing makes a human approve or start a dispatch.
Fairness ==
  /\ \A s \in Sessions : SF_vars(GoesOn(s))
  /\ WF_vars(\E s \in Sessions : Victim(s))

FairSpec == Spec /\ Fairness

--------------------------------------------------------------------------------
(***************************************************************************)
(* Properties                                                              *)
(***************************************************************************)

\* Type invariant.  No committed item is left "dispatched": that mark is only ever seen by
\* the transaction that makes it.
TypeOK ==
  /\ plan \in [Plans -> PlanStatus]
  /\ item \in [Items -> Row]
  /\ cap \in CapChoices
  /\ ledger \in Nat
  /\ session \in [Sessions -> Session]
  /\ effects \in [Items -> Nat]
  /\ grants \in [Items -> Nat]
  /\ faults \in Nat

\* Nothing is done outside unless a human chose go-live for that very item, a human approved
\* its plan, and the kill switch is off: whatever overlaps, aborts or is retried.
OnlyChosenGoLive ==
  \A i \in Items :
    effects[i] > 0 => grants[i] > 0 /\ plan[PlanOf[i]] # "draft" /\ ~KillSwitch

\* One live action per go-live approval, and one more for each fault at most.
OneEffectPerGo == \A i \in Items : effects[i] <= grants[i] + faults

\* An item that reads "done" and live was performed.
DoneMeansDone ==
  \A i \in Items : item[i].status = "done" /\ ~item[i].dry => effects[i] > 0

\* What open dispatches say of item i: it is to come, under way, done or failed.
Outcomes(i) == {session[s].mine[i].status : s \in {d \in Sessions : Doing(d, "dispatch")}}

\* What the committed row and an open dispatch say of item i, read at the abstract gate.
Standing(i) ==
  IF item[i] = Approved(TRUE)
  THEN IF "done" \in Outcomes(i) THEN "tried"
       ELSE IF "failed" \in Outcomes(i) THEN "missed" ELSE "go"
  ELSE IF item[i].status = "done" /\ ~item[i].dry THEN "done" ELSE "silent"

Gate == INSTANCE ActionGate WITH
          Stopped   <- KillSwitch,
          Tries     <- MaxPosts,
          allowed   <- {p \in Plans : plan[p] # "draft"},
          word      <- [i \in Items |-> Standing(i)],
          goes      <- grants,
          performed <- effects,
          mishaps   <- faults

\* Every behaviour of the plans and their dispatches is one of the gate: a go-live is used up
\* by one attempt, what reads done was performed, and what failed waits for another word.
ImplementsActionGate == Gate!Spec

\* A dispatch does not take the day's spend over the cap in force when it commits.
DispatchWithinCap ==
  [][\A s \in Sessions :
       Doing(s, "dispatch") /\ session'[s].op = "idle" /\ ledger' > ledger /\ cap.on
         => ledger' <= cap.day]_vars

\* A dispatch that has begun ends: it may have to wait for rows that other dispatches and humans
\* hold, and a circle of them is broken by Postgres at the cost of one of the transactions.
DispatchEnds ==
  \A s \in Sessions : Doing(s, "dispatch") ~> ~Doing(s, "dispatch")

\* Only "approve all", which takes the plan's row before its items, gets into such a circle:
\* dispatches of one plan or several, and words on single items, never wait for each other.
OnlyApproveAllCrosses ==
  \A C \in SUBSET Open : C # {} /\ Cyclic(C) =>
    \E s \in C : Doing(s, "human") /\ session[s].held /\ session[s].left # {}
================================================================================
