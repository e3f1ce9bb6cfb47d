-------------------------- MODULE PlanDispatch_proofs --------------------------
(***************************************************************************)
(* Theorems about PlanDispatch, for any plans, items, sessions, caps and   *)
(* bounds.  The first part does not depend on how many transactions        *)
(* overlap; the second is about those that do not.                         *)
(***************************************************************************)
EXTENDS PlanDispatch, FiniteSetTheorems, WellFoundedInduction, TLAPS

(***************************************************************************)
(* Types.  An item reads "dispatched" only in the session that acts on it, *)
(* so no commit can leave that mark behind.                                *)
(***************************************************************************)
OwnMark ==
  \A s \in Sessions :
    /\ session[s].op # "dispatch" => session[s].acting = NoItem
    /\ session[s].op = "dispatch" => session[s].of \in Plans
    /\ \A i \in Items : session[s].mine[i].status = "dispatched" => session[s].acting = i

TypeInv == TypeOK /\ OwnMark

USE DEF ItemStatus, Settled, PlanStatus

LEMMA RowTypes == Row \subseteq RowView /\ NewItem \in Row /\ NewItems \in [Items -> Row]
  BY DEF Row, RowView, NewItem, NewItems

LEMMA IdleTyped == IdleSession \in Session
  BY RowTypes, DispatchAssumption DEF IdleSession, Session, NewItems

LEMMA TypeInit == Init => TypeInv
  BY RowTypes, IdleTyped DEF Init, TypeInv, TypeOK, OwnMark, IdleSession, NewItems, NewItem

\* What a session loads is typed and carries no mark.
LEMMA LoadingTyped ==
  ASSUME TypeOK, NEW op \in {"human", "dispatch"}, NEW R
  PROVE  /\ Rows(R) \in [Items -> Row]
         /\ Loading(op, R) \in Session
         /\ Loading(op, R).op = op
         /\ Loading(op, R).acting = NoItem
         /\ Loading(op, R).loaded = Rows(R) /\ Loading(op, R).mine = Rows(R)
         /\ Loading(op, R).live = {}
  <1>1. Rows(R) \in [Items -> Row] /\ Rows(R) \in [Items -> RowView]
    BY RowTypes DEF TypeOK, Rows
  <1>. QED  BY <1>1, IdleTyped DEF Loading, Session, IdleSession

LEMMA LoadingPlanTyped ==
  ASSUME TypeOK, NEW op \in {"human", "dispatch"}, NEW p \in Plans, NEW new \in PlanStatus, NEW R
  PROVE  /\ LoadingPlan(op, p, new, R) \in Session
         /\ LoadingPlan(op, p, new, R).op = op
         /\ LoadingPlan(op, p, new, R).of = p
         /\ LoadingPlan(op, p, new, R).old = plan[p]
         /\ LoadingPlan(op, p, new, R).new = new
         /\ LoadingPlan(op, p, new, R).acting = NoItem
         /\ LoadingPlan(op, p, new, R).loaded = Rows(R)
         /\ LoadingPlan(op, p, new, R).mine = Rows(R)
         /\ LoadingPlan(op, p, new, R).live = {}
  <1>. DEFINE base == Loading(op, R)
  <1>1. /\ base \in Session /\ base.op = op /\ base.acting = NoItem /\ base.live = {}
        /\ base.loaded = Rows(R) /\ base.mine = Rows(R)
    BY LoadingTyped
  <1>2. plan[p] \in PlanStatus
    BY DEF TypeOK
  <1>3. LoadingPlan(op, p, new, R) = [base EXCEPT !.of = p, !.old = plan[p], !.new = new]
    BY DEF LoadingPlan
  <1>. HIDE DEF base
  <1>4. LoadingPlan(op, p, new, R) \in Session
    BY <1>1, <1>2, <1>3 DEF Session
  <1>. QED  BY <1>1, <1>3, <1>4 DEF Session

\* A session may be replaced by any typed one without a stray mark.
LEMMA SessionTyped ==
  ASSUME TypeInv, NEW s \in Sessions, NEW ses \in Session,
         session' = [session EXCEPT ![s] = ses],
         ses.op # "dispatch" => ses.acting = NoItem,
         ses.op = "dispatch" => ses.of \in Plans,
         \A i \in Items : ses.mine[i].status = "dispatched" => ses.acting = i
  PROVE  session' \in [Sessions -> Session] /\ OwnMark'
  BY DEF TypeInv, TypeOK, OwnMark

LEMMA IdlingTyped ==
  ASSUME TypeInv, NEW s \in Sessions, session' = [session EXCEPT ![s] = IdleSession]
  PROVE  session' \in [Sessions -> Session] /\ OwnMark'
  BY IdleTyped, SessionTyped DEF IdleSession, NewItems, NewItem

\* What a session without an action under way commits is typed.
LEMMA WrittenTyped ==
  ASSUME TypeInv, NEW s \in Sessions, session[s].acting = NoItem
  PROVE  Written(session[s]) \in [Items -> Row]
  <1>. SUFFICES ASSUME NEW i \in Items
                PROVE  Written(session[s])[i] \in Row
    BY DEF Written
  <1>1. session[s].loaded[i] \in Row /\ session[s].mine[i] \in RowView
    BY DEF TypeInv, TypeOK, Session
  <1>2. session[s].mine[i].status # "dispatched"
    BY DispatchAssumption DEF TypeInv, OwnMark
  <1>. QED  BY <1>1, <1>2 DEF Written, Column, Row, RowView, TypeInv, TypeOK

\* Two sessions that differ at most in what is still to be flushed, and what is held.
Alike(a, b) ==
  /\ a.op = b.op /\ a.of = b.of /\ a.old = b.old /\ a.new = b.new
  /\ a.loaded = b.loaded /\ a.mine = b.mine /\ a.live = b.live /\ a.acting = b.acting
  /\ a.cap = b.cap /\ a.charged = b.charged

\* What a human says is flushed from the first changed row on.
Said(ses) == [ses EXCEPT !.left = Changed(ses)]

LEMMA SaidTyped ==
  ASSUME NEW ses \in Session
  PROVE  Said(ses) \in Session /\ Alike(Said(ses), ses) /\ Said(ses).held = ses.held
  <1>1. Changed(ses) \subseteq Items
    BY DEF Changed
  <1>. QED  BY <1>1 DEF Said, Alike, Session

\* A flush changes the session that makes it, and only what it holds and has left.
LEMMA FlushOnly ==
  ASSUME TypeInv, NEW s \in Sessions, HoldPlan(s) \/ \E i \in Items : Flush(s, i)
  PROVE  /\ session' \in [Sessions -> Session]
         /\ \A u \in Sessions : Alike(session'[u], session[u])
         /\ \A u \in Sessions \ {s} : session'[u] = session[u]
         /\ session[s].op = "human"
         /\ UNCHANGED <<plan, item, cap, ledger, effects, grants, faults>>
  <1>. DEFINE old == session[s]
  <1>1. session \in [Sessions -> Session] /\ old \in Session /\ old.op = "human"
    BY DEF HoldPlan, Flush, Doing, TypeInv, TypeOK
  <1>2. UNCHANGED <<plan, item, cap, ledger, effects, grants, faults>>
    BY DEF HoldPlan, Flush
  <1>3. CASE HoldPlan(s)
    <2>. DEFINE ses == [old EXCEPT !.held = TRUE]
    <2>1. session' = [session EXCEPT ![s] = ses]
      BY <1>3 DEF HoldPlan
    <2>2. ses \in Session /\ Alike(ses, old)
      BY <1>1 DEF Session, Alike
    <2>. HIDE DEF ses
    <2>. QED  BY <1>1, <1>2, <2>1, <2>2 DEF Alike
  <1>4. CASE \E i \in Items : Flush(s, i)
    <2>1. PICK i \in Items : Flush(s, i)
      BY <1>4
    <2>. DEFINE ses == [old EXCEPT !.left = @ \ {i}]
    <2>2. session' = [session EXCEPT ![s] = ses]
      BY <2>1 DEF Flush
    <2>3. ses \in Session /\ Alike(ses, old)
      BY <1>1 DEF Session, Alike
    <2>. HIDE DEF ses
    <2>. QED  BY <1>1, <1>2, <2>2, <2>3 DEF Alike
  <1>. QED  BY <1>3, <1>4

LEMMA FlushTyped ==
  ASSUME TypeInv, NEW s \in Sessions, HoldPlan(s) \/ \E i \in Items : Flush(s, i)
  PROVE  TypeInv'
  BY FlushOnly DEF TypeInv, TypeOK, OwnMark, Alike

\* A human's session: typed, idle apart from its words.
LEMMA SaysTyped ==
  ASSUME TypeInv, NEW s \in Sessions, NEW ses \in Session, Says(s, ses), ses.op = "human",
         ses.acting = NoItem, \A i \in Items : ses.mine[i].status # "dispatched"
  PROVE  TypeInv'
  <1>. DEFINE said == Said(ses)
  <1>1. session' = [session EXCEPT ![s] = said]
    BY DEF Says, Begin, Said
  <1>2. said \in Session /\ said.op = "human" /\ said.acting = NoItem /\ said.mine = ses.mine
    BY SaidTyped DEF Alike
  <1>. HIDE DEF said
  <1>3. session' \in [Sessions -> Session] /\ OwnMark'
    BY <1>1, <1>2, SessionTyped
  <1>. QED  BY <1>3 DEF Says, TypeInv, TypeOK

LEMMA ApproveItemTyped ==
  ASSUME TypeInv, NEW s \in Sessions, NEW i \in Items, NEW live \in BOOLEAN, ApproveItem(s, i, live)
  PROVE  TypeInv'
  <1>. DEFINE ses == [Loading("human", {i}) EXCEPT !.mine[i] = Approved(live),
                                                   !.live = IF live THEN {i} ELSE {}]
  <1>1. Approved(live) \in Row
    BY DEF Approved, Row
  <1>2. /\ Loading("human", {i}) \in Session
        /\ Loading("human", {i}).mine \in [Items -> Row]
        /\ Loading("human", {i}).op = "human" /\ Loading("human", {i}).acting = NoItem
    BY LoadingTyped DEF TypeInv
  <1>3. ses \in Session /\ ses.op = "human" /\ ses.acting = NoItem
    BY <1>1, <1>2, RowTypes DEF Session
  <1>4. \A k \in Items : ses.mine[k].status # "dispatched"
    BY <1>1, <1>2 DEF Session, Row
  <1>. QED  BY <1>3, <1>4, SaysTyped DEF ApproveItem

LEMMA RejectItemTyped ==
  ASSUME TypeInv, NEW s \in Sessions, NEW i \in Items, RejectItem(s, i)
  PROVE  TypeInv'
  <1>. DEFINE ses == [Loading("human", {i}) EXCEPT !.mine[i].status = "rejected"]
  <1>2. /\ Loading("human", {i}) \in Session
        /\ Loading("human", {i}).mine \in [Items -> Row]
        /\ Loading("human", {i}).op = "human" /\ Loading("human", {i}).acting = NoItem
    BY LoadingTyped DEF TypeInv
  <1>3. [Loading("human", {i}).mine[i] EXCEPT !.status = "rejected"] \in Row
    BY <1>2 DEF Row
  <1>4. ses \in Session /\ ses.op = "human" /\ ses.acting = NoItem
    BY <1>2, <1>3, RowTypes DEF Session
  <1>5. \A k \in Items : ses.mine[k].status # "dispatched"
    BY <1>2, <1>3 DEF Session, Row
  <1>. QED  BY <1>4, <1>5, SaysTyped DEF RejectItem

LEMMA ApprovePlanTyped ==
  ASSUME TypeInv, NEW s \in Sessions, NEW p \in Plans, ApprovePlan(s, p) \/ ApproveAll(s, p)
  PROVE  TypeInv'
  <1>. USE DEF TypeInv
  <1>1. CASE ApprovePlan(s, p)
    <2>. DEFINE ses == LoadingPlan("human", p, "approved", {})
    <2>1. ses \in Session /\ ses.op = "human" /\ ses.acting = NoItem /\ ses.mine = Rows({})
      BY LoadingPlanTyped
    <2>2. \A k \in Items : Rows({})[k].status # "dispatched"
      BY DEF Rows, NewItem
    <2>. QED  BY <1>1, <2>1, <2>2, SaysTyped DEF ApprovePlan
  <1>2. CASE ApproveAll(s, p)
    <2>. DEFINE new  == {i \in ItemsOf(p) : item[i].status = "proposed"}
                base == LoadingPlan("human", p, "approved", new)
                rows == [i \in Items |-> IF i \in new THEN Approved(FALSE) ELSE NewItem]
                ses  == [base EXCEPT !.mine = rows]
    <2>1. base \in Session /\ base.op = "human" /\ base.acting = NoItem
      BY LoadingPlanTyped
    <2>2. rows \in [Items -> Row]
      BY RowTypes DEF Approved, Row
    <2>. HIDE DEF base, rows
    <2>3. ses \in Session /\ ses.op = "human" /\ ses.acting = NoItem /\ ses.mine = rows
      BY <2>1, <2>2, RowTypes DEF Session
    <2>4. \A k \in Items : ses.mine[k].status # "dispatched"
      BY <2>2, <2>3 DEF Row
    <2>5. Says(s, ses)
      BY <1>2 DEF ApproveAll, base, rows
    <2>. QED  BY <2>3, <2>4, <2>5, SaysTyped
  <1>. QED  BY <1>1, <1>2

\* Committing a session without an action under way.
LEMMA CommitTyped ==
  ASSUME TypeInv, NEW s \in Sessions, session[s].acting = NoItem,
         item' = Written(session[s]), session' = [session EXCEPT ![s] = IdleSession]
  PROVE  item' \in [Items -> Row] /\ session' \in [Sessions -> Session] /\ OwnMark'
  BY WrittenTyped, IdlingTyped

LEMMA SaveWordTyped ==
  ASSUME TypeInv, NEW s \in Sessions, SaveWord(s)
  PROVE  TypeInv'
  <1>1. session[s].acting = NoItem
    BY DEF TypeInv, OwnMark, SaveWord, Doing
  <1>2. item' \in [Items -> Row] /\ session' \in [Sessions -> Session] /\ OwnMark'
    BY <1>1, CommitTyped DEF SaveWord, Commit
  <1>3. plan' \in [Plans -> PlanStatus]
    <2>1. session[s].new \in PlanStatus
      BY DEF TypeInv, TypeOK, Session
    <2>. QED  BY <2>1 DEF TypeInv, TypeOK, SaveWord, Commit, Column
  <1>4. grants' \in [Items -> Nat]
    BY DEF TypeInv, TypeOK, SaveWord
  <1>. QED  BY <1>2, <1>3, <1>4 DEF TypeInv, TypeOK, SaveWord

LEMMA OpenDispatchTyped ==
  ASSUME TypeInv, NEW s \in Sessions, NEW p \in Plans, OpenDispatch(s, p)
  PROVE  TypeInv'
  <1>. DEFINE queue == {i \in ItemsOf(p) : item[i].status \in Runnable}
              base  == LoadingPlan("dispatch", p, plan[p], queue)
              ses   == [base EXCEPT !.left = queue]
  <1>1. plan[p] \in PlanStatus
    BY DEF TypeInv, TypeOK
  <1>2. /\ base \in Session /\ base.op = "dispatch" /\ base.acting = NoItem /\ base.of = p
        /\ base.mine = Rows(queue)
    BY <1>1, LoadingPlanTyped DEF TypeInv
  <1>3. Rows(queue) \in [Items -> Row]
    BY LoadingTyped DEF TypeInv
  <1>4. queue \subseteq Items
    BY DEF ItemsOf
  <1>5. session' = [session EXCEPT ![s] = ses]
    BY DEF OpenDispatch, Begin
  <1>. HIDE DEF base, queue
  <1>6. ses \in Session /\ ses.op = "dispatch" /\ ses.of = p /\ ses.mine = Rows(queue)
    BY <1>2, <1>4 DEF Session
  <1>7. \A i \in Items : ses.mine[i].status # "dispatched"
    BY <1>3, <1>6 DEF Row
  <1>. HIDE DEF ses
  <1>8. session' \in [Sessions -> Session] /\ OwnMark'
    BY <1>5, <1>6, <1>7, SessionTyped
  <1>. QED  BY <1>8 DEF TypeInv, TypeOK, OpenDispatch

\* Marking the item i of a dispatch, and moving its action to a (possibly none).
LEMMA MarkingTyped ==
  ASSUME TypeInv, NEW s \in Sessions, NEW i \in Items, session[s].op = "dispatch",
         session[s].acting \in {NoItem, i},
         NEW status \in {"dispatched", "done", "failed"}, NEW a \in {NoItem, i},
         status = "dispatched" => a = i,
         NEW ses \in Session, ses.op = "dispatch", ses.of = session[s].of, ses.acting = a,
         ses.mine = [session[s].mine EXCEPT ![i].status = status],
         session' = [session EXCEPT ![s] = ses]
  PROVE  session' \in [Sessions -> Session] /\ OwnMark'
  <1>1. session[s].mine \in [Items -> RowView] /\ session[s].of \in Plans
    BY DEF TypeInv, TypeOK, OwnMark, Session
  <1>2. ses.mine[i].status = status
    BY <1>1 DEF RowView
  <1>3. \A k \in Items \ {i} : ses.mine[k].status # "dispatched"
    <2>. SUFFICES ASSUME NEW k \in Items \ {i}
                  PROVE  session[s].mine[k].status # "dispatched"
      BY <1>1
    <2>. QED  BY DispatchAssumption DEF TypeInv, OwnMark
  <1>. QED  BY <1>1, <1>2, <1>3, SessionTyped

LEMMA MarkTyped ==
  ASSUME TypeInv, NEW s \in Sessions, NEW i \in Items, Mark(s, i)
  PROVE  TypeInv'
  <1>. DEFINE old     == session[s]
              live    == GoesLive(old, i) /\ ~KillSwitch
              refused == KillSwitch \/ (live /\ ~InBudget(old, i))
              c       == IF live /\ Cost[i] > 0 THEN Resolved(old) ELSE old.cap
              a       == IF refused THEN NoItem ELSE i
              status  == IF refused THEN "failed" ELSE "dispatched"
              ses     == [old EXCEPT !.left = @ \ {i}, !.cap = c, !.acting = a,
                                     !.mine[i].status = status]
  <1>1. old \in Session /\ old.op = "dispatch" /\ old.acting = NoItem
    BY DEF Mark, WantsItem, Doing, TypeInv, TypeOK
  <1>2. c \in CapChoices \cup {NoCap}
    BY <1>1 DEF Resolved, Session, TypeInv, TypeOK
  <1>3. a \in {NoItem, i} /\ status \in {"dispatched", "failed"} /\ (status = "dispatched" => a = i)
    OBVIOUS
  <1>4. session' = [session EXCEPT ![s] = ses]
    BY DEF Mark
  <1>. HIDE DEF c, a, status
  <1>5. [old.mine[i] EXCEPT !.status = status] \in RowView
    BY <1>1, <1>3 DEF Session, RowView
  <1>6. /\ ses \in Session /\ ses.op = "dispatch" /\ ses.of = old.of /\ ses.acting = a
        /\ ses.mine = [old.mine EXCEPT ![i].status = status]
    BY <1>1, <1>2, <1>3, <1>5 DEF Session
  <1>. HIDE DEF ses
  <1>7. session' \in [Sessions -> Session] /\ OwnMark'
    BY <1>1, <1>3, <1>4, <1>6, MarkingTyped
  <1>. QED  BY <1>7 DEF TypeInv, TypeOK, Mark

LEMMA EndsTyped ==
  ASSUME TypeInv, NEW s \in Sessions, NEW ok \in BOOLEAN, NEW landed \in Nat, NEW lost \in Nat,
         Ends(s, ok, landed, lost)
  PROVE  TypeInv'
  <1>. DEFINE old    == session[s]
              i      == old.acting
              status == IF ok THEN "done" ELSE "failed"
              spent  == IF ok /\ GoesLive(old, i) THEN old.charged + Cost[i] ELSE old.charged
              ses    == [old EXCEPT !.acting = NoItem, !.mine[i].status = status,
                                    !.charged = spent]
  <1>1. old \in Session /\ old.op = "dispatch" /\ i \in Items
    BY DEF Ends, Doing, TypeInv, TypeOK, Session
  <1>2. spent \in Nat
    <2>1. old.charged \in Nat
      BY <1>1 DEF Session
    <2>2. Cost[i] \in Nat
      BY <1>1, DispatchAssumption
    <2>. HIDE DEF old, i
    <2>. QED  BY <2>1, <2>2
  <1>3. session' = [session EXCEPT ![s] = ses]
    BY DEF Ends
  <1>4. status \in {"done", "failed"}
    OBVIOUS
  <1>5. effects' \in [Items -> Nat]
    BY <1>1 DEF Ends, TypeInv, TypeOK
  <1>6. faults' \in Nat
    BY DEF Ends, Fault, TypeInv, TypeOK
  <1>. HIDE DEF spent, status
  <1>7. [old.mine[i] EXCEPT !.status = status] \in RowView
    BY <1>1, <1>4 DEF Session, RowView
  <1>8. /\ ses \in Session /\ ses.op = "dispatch" /\ ses.of = old.of /\ ses.acting = NoItem
        /\ ses.mine = [old.mine EXCEPT ![i].status = status]
    BY <1>1, <1>2, <1>4, <1>7 DEF Session
  <1>. HIDE DEF ses
  <1>9. session' \in [Sessions -> Session] /\ OwnMark'
    BY <1>1, <1>3, <1>4, <1>8, MarkingTyped
  <1>. QED  BY <1>5, <1>6, <1>9 DEF Ends, TypeInv, TypeOK

LEMMA OutcomeTyped ==
  ASSUME TypeInv, NEW s \in Sessions, Succeeds(s) \/ Fails(s)
  PROVE  TypeInv'
  <1>1. \A lost \in 0 .. MaxPosts : lost \in Nat /\ lost + 1 \in Nat
    BY DispatchAssumption
  <1>2. CASE Succeeds(s)
    <2>1. \A lost \in 0 .. MaxPosts - 1 : lost \in Nat /\ lost + 1 \in Nat
      BY DispatchAssumption
    <2>2. \E landed \in Nat, lost \in Nat : Ends(s, TRUE, landed, lost)
      BY <1>2, <2>1 DEF Succeeds
    <2>. QED  BY <2>2, EndsTyped
  <1>3. CASE Fails(s)
    BY <1>1, <1>3, EndsTyped DEF Fails
  <1>. QED  BY <1>2, <1>3

LEMMA FinishTyped ==
  ASSUME TypeInv, NEW s \in Sessions, FinishDispatch(s)
  PROVE  TypeInv'
  <1>1. item' \in [Items -> Row] /\ session' \in [Sessions -> Session] /\ OwnMark'
    BY CommitTyped DEF FinishDispatch
  <1>2. plan' \in [Plans -> PlanStatus]
    BY DEF TypeInv, TypeOK, FinishDispatch, Column
  <1>3. ledger' \in Nat
    BY DEF TypeInv, TypeOK, Session, FinishDispatch
  <1>. QED  BY <1>1, <1>2, <1>3 DEF TypeInv, TypeOK, FinishDispatch

LEMMA CallTyped ==
  ASSUME TypeInv, NEW s \in Sessions, BeginCall(s) \/ EndCall(s) \/ Abort(s) \/ Victim(s)
  PROVE  TypeInv'
  <1>1. CASE BeginCall(s)
    <2>. DEFINE ses == [IdleSession EXCEPT !.op = "call"]
    <2>1. ses \in Session
      BY IdleTyped DEF Session
    <2>2. /\ ses.op = "call" /\ ses.acting = NoItem
          /\ \A i \in Items : ses.mine[i].status # "dispatched"
      BY DEF IdleSession, NewItems, NewItem
    <2>3. session' \in [Sessions -> Session] /\ OwnMark'
      BY <1>1, <2>1, <2>2, SessionTyped DEF BeginCall, Begin
    <2>. QED  BY <1>1, <2>3 DEF BeginCall, TypeInv, TypeOK
  <1>2. CASE EndCall(s)
    <2>1. ledger' \in Nat
      BY <1>2, DispatchAssumption DEF EndCall, TypeInv, TypeOK
    <2>. QED  BY <1>2, <2>1, IdlingTyped DEF EndCall, TypeInv, TypeOK
  <1>3. CASE Abort(s) \/ Victim(s)
    <2>1. faults' \in Nat
      BY <1>3 DEF Abort, Victim, Fault, TypeInv, TypeOK
    <2>2. Abandon(s)
      BY <1>3 DEF Abort, Victim
    <2>. QED  BY <2>1, <2>2, IdlingTyped DEF Abandon, TypeInv, TypeOK
  <1>. QED  BY <1>1, <1>2, <1>3

LEMMA MidnightTyped == TypeInv /\ Midnight => TypeInv'
  <1>. SUFFICES ASSUME TypeInv, Midnight PROVE TypeInv'
    OBVIOUS
  <1>1. \A s \in Sessions :
          /\ session'[s] \in Session
          /\ session'[s].op = session[s].op /\ session'[s].of = session[s].of
          /\ session'[s].acting = session[s].acting /\ session'[s].mine = session[s].mine
    <2>. SUFFICES ASSUME NEW s \in Sessions, NEW ses \in Session, ses = session[s]
                  PROVE  LET next == [ses EXCEPT !.charged = 0]
                         IN  /\ next \in Session /\ next.op = ses.op /\ next.of = ses.of
                             /\ next.acting = ses.acting /\ next.mine = ses.mine
      BY DEF Midnight, TypeInv, TypeOK
    <2>. QED  BY DEF Session
  <1>2. session' \in [Sessions -> Session]
    BY <1>1 DEF Midnight
  <1>3. OwnMark'
    BY <1>1 DEF TypeInv, OwnMark
  <1>. QED  BY <1>2, <1>3 DEF Midnight, TypeInv, TypeOK

\* Every step preserves the types.
LEMMA TypeStep == TypeInv /\ [Next]_vars => TypeInv'
  <1>. SUFFICES ASSUME TypeInv, [Next]_vars PROVE TypeInv'
    OBVIOUS
  <1>1. ASSUME NEW s \in Sessions, HumanStep(s) PROVE TypeInv'
    BY <1>1, ApproveItemTyped, RejectItemTyped, ApprovePlanTyped, FlushTyped, SaveWordTyped
       DEF HumanStep
  <1>2. ASSUME NEW s \in Sessions, DispatchStep(s) PROVE TypeInv'
    BY <1>2, OpenDispatchTyped, MarkTyped, OutcomeTyped, FinishTyped DEF DispatchStep
  <1>3. CASE SetCaps
    BY <1>3 DEF SetCaps, TypeInv, TypeOK, OwnMark
  <1>4. CASE UNCHANGED vars
    BY <1>4 DEF vars, TypeInv, TypeOK, OwnMark
  <1>. QED  BY <1>1, <1>2, <1>3, <1>4, CallTyped, MidnightTyped DEF Next

\* Every reachable state is well typed, and no committed item is left "dispatched".
THEOREM DispatchTypeCorrect == Spec => []TypeOK
  <1>1. TypeInv => TypeOK
    BY DEF TypeInv
  <1>. QED  BY TypeInit, TypeStep, <1>1, PTL DEF Spec

--------------------------------------------------------------------------------
(***************************************************************************)
(* Nothing goes live unless a human chose it.  What a row, or a session's  *)
(* copy of it, says of dry_run goes back to a go-live approval, unless the *)
(* session is that approval; and a session only dispatches items of a plan *)
(* that was approved, which no later step can undo.                        *)
(***************************************************************************)
RowsChosen == \A i \in Items : ~item[i].dry => grants[i] > 0

SessionsChosen ==
  \A s \in Sessions :
    /\ \A i \in Items : ~session[s].loaded[i].dry => grants[i] > 0
    /\ \A i \in Items : ~session[s].mine[i].dry => grants[i] > 0 \/ i \in session[s].live
    /\ session[s].op # "human" => session[s].live = {}
    /\ session[s].new # session[s].old => session[s].new = "approved"
    /\ session[s].acting # NoItem => ~KillSwitch

PlansApproved ==
  \A s \in Sessions :
    session[s].op = "dispatch" =>
      /\ plan[session[s].of] # "draft"
      /\ \A i \in Items :
           i \in session[s].left \/ i = session[s].acting => PlanOf[i] = session[s].of

GoInv == RowsChosen /\ SessionsChosen /\ PlansApproved /\ OnlyChosenGoLive

\* Approvals are not taken back: grants only grow, and no plan is a draft again.
Kept ==
  /\ \A i \in Items : grants[i] > 0 => grants'[i] > 0
  /\ \A p \in Plans : plan[p] # "draft" => plan'[p] # "draft"

LEMMA GoInit == Init => GoInv
  BY DEF Init, GoInv, RowsChosen, SessionsChosen, PlansApproved, OnlyChosenGoLive,
         IdleSession, NewItems, NewItem

\* A step that replaces one session by a sound one keeps the others sound.
LEMMA SessionSound ==
  ASSUME TypeInv, SessionsChosen, PlansApproved, Kept, NEW s \in Sessions, NEW ses,
         session' = [session EXCEPT ![s] = ses],
         \A i \in Items : ~ses.loaded[i].dry => grants'[i] > 0,
         \A i \in Items : ~ses.mine[i].dry => grants'[i] > 0 \/ i \in ses.live,
         ses.op # "human" => ses.live = {},
         ses.new # ses.old => ses.new = "approved",
         ses.acting # NoItem => ~KillSwitch,
         ses.op = "dispatch" =>
           /\ plan'[ses.of] # "draft"
           /\ \A i \in Items : i \in ses.left \/ i = ses.acting => PlanOf[i] = ses.of
  PROVE  SessionsChosen' /\ PlansApproved'
  <1>1. session'[s] = ses /\ \A u \in Sessions \ {s} : session'[u] = session[u]
    BY DEF TypeInv, TypeOK
  <1>2. SessionsChosen'
    BY <1>1 DEF SessionsChosen, Kept
  <1>3. PlansApproved'
    <2>1. \A u \in Sessions \ {s} : session[u].op = "dispatch" => plan'[session[u].of] # "draft"
      BY DEF PlansApproved, Kept, TypeInv, OwnMark
    <2>. QED  BY <1>1, <2>1 DEF PlansApproved
  <1>. QED  BY <1>2, <1>3

LEMMA IdlingSound ==
  ASSUME TypeInv, SessionsChosen, PlansApproved, Kept, NEW s \in Sessions,
         session' = [session EXCEPT ![s] = IdleSession]
  PROVE  SessionsChosen' /\ PlansApproved'
  <1>. DEFINE ses == IdleSession
  <1>1. /\ ses.op = "idle" /\ ses.live = {} /\ ses.new = ses.old /\ ses.acting = NoItem
        /\ \A i \in Items : ses.loaded[i].dry /\ ses.mine[i].dry
    BY DEF IdleSession, NewItems, NewItem
  <1>2. session' = [session EXCEPT ![s] = ses]
    OBVIOUS
  <1>. HIDE DEF ses
  <1>. QED  BY <1>1, <1>2, SessionSound

\* What has been done stays justified as long as approvals are kept.
LEMMA EffectsKept ==
  ASSUME OnlyChosenGoLive, Kept, effects' = effects
  PROVE  OnlyChosenGoLive'
  BY DispatchAssumption DEF OnlyChosenGoLive, Kept

LEMMA LoadingSound ==
  ASSUME TypeOK, RowsChosen, NEW R, NEW i \in Items
  PROVE  ~Rows(R)[i].dry => grants[i] > 0
  BY DEF RowsChosen, Rows, NewItem

\* A human's session: rows as loaded, except those it says something about.
LEMMA SaysSound ==
  ASSUME TypeInv, GoInv, NEW s \in Sessions, NEW ses \in Session, Says(s, ses),
         ses.op = "human", ses.acting = NoItem,
         \A i \in Items : ~ses.loaded[i].dry => grants[i] > 0,
         \A i \in Items : ~ses.mine[i].dry => grants[i] > 0 \/ i \in ses.live,
         ses.new # ses.old => ses.new = "approved"
  PROVE  GoInv'
  <1>1. Kept /\ effects' = effects /\ item' = item /\ grants' = grants
    BY DEF Kept, Says
  <1>. DEFINE said == Said(ses)
  <1>2. session' = [session EXCEPT ![s] = said]
    BY DEF Says, Begin, Said
  <1>3. /\ said.op = "human" /\ said.acting = NoItem /\ said.loaded = ses.loaded
        /\ said.mine = ses.mine /\ said.live = ses.live
        /\ said.new = ses.new /\ said.old = ses.old
    BY SaidTyped DEF Alike
  <1>. HIDE DEF said
  <1>4. SessionsChosen' /\ PlansApproved'
    BY <1>1, <1>2, <1>3, SessionSound DEF GoInv
  <1>5. OnlyChosenGoLive' /\ RowsChosen'
    BY <1>1, EffectsKept DEF GoInv, RowsChosen
  <1>. QED  BY <1>4, <1>5 DEF GoInv

LEMMA FlushSound ==
  ASSUME TypeInv, GoInv, NEW s \in Sessions, HoldPlan(s) \/ \E i \in Items : Flush(s, i)
  PROVE  GoInv'
  <1>1. /\ \A u \in Sessions : Alike(session'[u], session[u])
        /\ \A u \in Sessions \ {s} : session'[u] = session[u]
        /\ session[s].op = "human"
        /\ UNCHANGED <<plan, item, cap, ledger, effects, grants, faults>>
    BY FlushOnly
  <1>2. SessionsChosen'
    BY <1>1 DEF GoInv, SessionsChosen, Alike
  <1>3. PlansApproved'
    BY <1>1 DEF GoInv, PlansApproved, Alike
  <1>. QED  BY <1>1, <1>2, <1>3 DEF GoInv, RowsChosen, OnlyChosenGoLive

LEMMA ApproveItemSound ==
  ASSUME TypeInv, GoInv, NEW s \in Sessions, NEW i \in Items, NEW live \in BOOLEAN,
         ApproveItem(s, i, live)
  PROVE  GoInv'
  <1>. DEFINE base == Loading("human", {i})
              ses  == [base EXCEPT !.mine[i] = Approved(live), !.live = IF live THEN {i} ELSE {}]
  <1>1. /\ base \in Session /\ base.op = "human" /\ base.acting = NoItem
        /\ base.loaded = Rows({i}) /\ base.mine = Rows({i}) /\ Rows({i}) \in [Items -> Row]
    BY LoadingTyped DEF TypeInv
  <1>2. base.new = base.old
    BY DEF Loading, IdleSession
  <1>3. \A k \in Items : ~Rows({i})[k].dry => grants[k] > 0
    BY LoadingSound DEF GoInv, TypeInv
  <1>. HIDE DEF base
  <1>4. /\ ses.op = "human" /\ ses.acting = NoItem /\ ses.new = ses.old
        /\ ses.loaded = Rows({i}) /\ ses.live = (IF live THEN {i} ELSE {})
        /\ ses.mine = [Rows({i}) EXCEPT ![i] = Approved(live)]
    BY <1>1, <1>2 DEF Session
  <1>6. Says(s, ses)
    BY DEF ApproveItem, base
  <1>7. ses \in Session
    <2>1. Approved(live) \in RowView
      BY RowTypes DEF Approved, Row
    <2>. QED  BY <1>1, <2>1, RowTypes DEF Session
  <1>. HIDE DEF ses
  <1>5. \A k \in Items : ~ses.mine[k].dry => grants[k] > 0 \/ k \in ses.live
    <2>1. \A k \in Items \ {i} : ses.mine[k] = Rows({i})[k]
      BY <1>1, <1>4
    <2>2. ASSUME ~live PROVE ses.mine[i].dry
      <3>1. live = FALSE
        BY <2>2
      <3>2. ses.mine[i] = Approved(FALSE)
        BY <1>1, <1>4, <3>1
      <3>3. Approved(FALSE).dry
        BY DEF Approved
      <3>. QED  BY <3>2, <3>3
    <2>3. live => i \in ses.live
      BY <1>4
    <2>. QED  BY <1>3, <2>1, <2>2, <2>3
  <1>. QED  BY <1>3, <1>4, <1>5, <1>6, <1>7, SaysSound

LEMMA RejectItemSound ==
  ASSUME TypeInv, GoInv, NEW s \in Sessions, NEW i \in Items, RejectItem(s, i)
  PROVE  GoInv'
  <1>. DEFINE base == Loading("human", {i})
              ses  == [base EXCEPT !.mine[i].status = "rejected"]
  <1>1. /\ base \in Session /\ base.op = "human" /\ base.acting = NoItem
        /\ base.loaded = Rows({i}) /\ base.mine = Rows({i}) /\ Rows({i}) \in [Items -> Row]
    BY LoadingTyped DEF TypeInv
  <1>2. base.new = base.old
    BY DEF Loading, IdleSession
  <1>3. \A k \in Items : ~Rows({i})[k].dry => grants[k] > 0
    BY LoadingSound DEF GoInv, TypeInv
  <1>. HIDE DEF base
  <1>4. /\ ses.op = "human" /\ ses.acting = NoItem /\ ses.new = ses.old
        /\ ses.loaded = Rows({i})
        /\ ses.mine = [Rows({i}) EXCEPT ![i].status = "rejected"]
    BY <1>1, <1>2 DEF Session
  <1>5. \A k \in Items : ses.mine[k].dry = Rows({i})[k].dry
    BY <1>1, <1>4 DEF Row
  <1>6. Says(s, ses)
    BY DEF RejectItem, base
  <1>7. ses \in Session
    <2>1. [base.mine[i] EXCEPT !.status = "rejected"] \in Row
      BY <1>1 DEF Row
    <2>. QED  BY <1>1, <2>1, RowTypes DEF Session
  <1>. HIDE DEF ses
  <1>. QED  BY <1>3, <1>4, <1>5, <1>6, <1>7, SaysSound

LEMMA ApprovePlanSound ==
  ASSUME TypeInv, GoInv, NEW s \in Sessions, NEW p \in Plans, ApprovePlan(s, p) \/ ApproveAll(s, p)
  PROVE  GoInv'
  <1>0. TypeOK /\ RowsChosen
    BY DEF TypeInv, GoInv
  <1>1. CASE ApprovePlan(s, p)
    <2>. DEFINE ses == LoadingPlan("human", p, "approved", {})
    <2>1. /\ ses \in Session /\ ses.op = "human" /\ ses.acting = NoItem /\ ses.new = "approved"
          /\ ses.loaded = Rows({}) /\ ses.mine = Rows({})
      BY <1>0, LoadingPlanTyped
    <2>2. Says(s, ses)
      BY <1>1 DEF ApprovePlan
    <2>. HIDE DEF ses
    <2>. QED  BY <1>0, <2>1, <2>2, LoadingSound, SaysSound
  <1>2. CASE ApproveAll(s, p)
    <2>. DEFINE new  == {i \in ItemsOf(p) : item[i].status = "proposed"}
                base == LoadingPlan("human", p, "approved", new)
                rows == [i \in Items |-> IF i \in new THEN Approved(FALSE) ELSE NewItem]
                ses  == [base EXCEPT !.mine = rows]
    <2>1. /\ base \in Session /\ base.op = "human" /\ base.acting = NoItem
          /\ base.new = "approved" /\ base.loaded = Rows(new)
      BY <1>0, LoadingPlanTyped
    <2>2. \A i \in Items : rows[i].dry
      BY DEF Approved, NewItem
    <2>3. \A i \in Items : ~Rows(new)[i].dry => grants[i] > 0
      BY <1>0, LoadingSound
    <2>4. Says(s, ses)
      BY <1>2 DEF ApproveAll
    <2>6. rows \in [Items -> RowView]
      BY RowTypes DEF Approved, Row
    <2>. HIDE DEF base, rows, new
    <2>5. /\ ses \in Session /\ ses.op = "human" /\ ses.acting = NoItem /\ ses.new = "approved"
          /\ ses.loaded = Rows(new) /\ ses.mine = rows
      BY <2>1, <2>6 DEF Session
    <2>. HIDE DEF ses
    <2>. QED  BY <2>2, <2>3, <2>4, <2>5, SaysSound
  <1>. QED  BY <1>1, <1>2

LEMMA SaveWordSound ==
  ASSUME TypeInv, GoInv, NEW s \in Sessions, SaveWord(s)
  PROVE  GoInv'
  <1>. DEFINE ses == session[s]
  <1>1. Kept
    <2>1. \A i \in Items : grants[i] > 0 => grants'[i] > 0
      BY DEF SaveWord, TypeInv, TypeOK
    <2>2. ses.new # ses.old => ses.new = "approved"
      BY DEF GoInv, SessionsChosen
    <2>3. \A p \in Plans : plan'[p] \in {plan[p], "approved"}
      BY <2>2 DEF SaveWord, Commit, Column
    <2>. QED  BY <2>1, <2>3 DEF Kept
  <1>2. SessionsChosen' /\ PlansApproved'
    BY <1>1, IdlingSound DEF GoInv, SaveWord, Commit
  <1>3. RowsChosen'
    <2>. SUFFICES ASSUME NEW i \in Items, ~item'[i].dry PROVE grants'[i] > 0
      BY DEF RowsChosen
    <2>1. item'[i].dry = Column(item[i].dry, ses.loaded[i].dry, ses.mine[i].dry)
      BY DEF SaveWord, Commit, Written
    <2>2. ~item[i].dry \/ ~ses.mine[i].dry
      BY <2>1 DEF Column
    <2>3. CASE grants[i] > 0
      BY <1>1, <2>3 DEF Kept
    <2>4. CASE i \in ses.live
      BY <2>4 DEF SaveWord, TypeInv, TypeOK
    <2>. QED  BY <2>2, <2>3, <2>4 DEF GoInv, RowsChosen, SessionsChosen
  <1>4. OnlyChosenGoLive'
    BY <1>1, EffectsKept DEF GoInv, SaveWord
  <1>. QED  BY <1>2, <1>3, <1>4 DEF GoInv

LEMMA OpenDispatchSound ==
  ASSUME TypeInv, GoInv, NEW s \in Sessions, NEW p \in Plans, OpenDispatch(s, p)
  PROVE  GoInv'
  <1>. DEFINE queue == {i \in ItemsOf(p) : item[i].status \in Runnable}
              base  == LoadingPlan("dispatch", p, plan[p], queue)
              ses   == [base EXCEPT !.left = queue]
  <1>0. TypeOK /\ RowsChosen /\ plan[p] \in PlanStatus
    BY DEF TypeInv, TypeOK, GoInv
  <1>1. /\ base \in Session /\ base.op = "dispatch" /\ base.acting = NoItem /\ base.of = p
        /\ base.old = plan[p] /\ base.new = plan[p] /\ base.live = {}
        /\ base.loaded = Rows(queue) /\ base.mine = Rows(queue)
    BY <1>0, LoadingPlanTyped
  <1>2. \A i \in queue : PlanOf[i] = p
    BY DEF ItemsOf
  <1>3. plan[p] # "draft"
    BY DEF OpenDispatch, Dispatchable
  <1>4. session' = [session EXCEPT ![s] = ses]
    BY DEF OpenDispatch, Begin
  <1>. HIDE DEF base, queue
  <1>5. \A i \in Items : ~Rows(queue)[i].dry => grants[i] > 0
    BY <1>0, LoadingSound
  <1>6. /\ ses.op = "dispatch" /\ ses.acting = NoItem /\ ses.of = p /\ ses.new = ses.old
        /\ ses.live = {} /\ ses.left = queue
        /\ ses.loaded = Rows(queue) /\ ses.mine = Rows(queue)
    BY <1>1 DEF Session
  <1>. HIDE DEF ses
  <1>7. Kept /\ grants' = grants /\ plan' = plan /\ item' = item /\ effects' = effects
    BY DEF Kept, OpenDispatch
  <1>8. \A i \in Items : i \in ses.left \/ i = ses.acting => PlanOf[i] = p
    BY <1>2, <1>6, DispatchAssumption
  <1>9. SessionsChosen' /\ PlansApproved'
    BY <1>3, <1>4, <1>5, <1>6, <1>7, <1>8, SessionSound DEF GoInv
  <1>. QED  BY <1>7, <1>9, EffectsKept DEF GoInv, RowsChosen

\* A step of a dispatch changes no one's choices: it leaves dry_run and the plan alone.
LEMMA ActingSound ==
  ASSUME TypeInv, GoInv, NEW s \in Sessions, session[s].op = "dispatch", NEW ses,
         session' = [session EXCEPT ![s] = ses], Kept, grants' = grants, item' = item,
         plan' = plan,
         ses.op = "dispatch", ses.of = session[s].of, ses.loaded = session[s].loaded,
         \A k \in Items : ~ses.mine[k].dry => ~session[s].mine[k].dry,
         ses.live = session[s].live, ses.old = session[s].old, ses.new = session[s].new,
         ses.acting # NoItem => ~KillSwitch,
         ses.acting # NoItem => ses.acting \in session[s].left,
         ses.left \subseteq session[s].left
  PROVE  RowsChosen' /\ SessionsChosen' /\ PlansApproved'
  <1>1. \A i \in Items : i \in ses.left \/ i = ses.acting => PlanOf[i] = ses.of
    BY DispatchAssumption DEF GoInv, PlansApproved
  <1>2. plan[ses.of] # "draft"
    BY DEF GoInv, PlansApproved
  <1>3. /\ \A k \in Items : ~ses.loaded[k].dry => grants[k] > 0
        /\ \A k \in Items : ~ses.mine[k].dry => grants[k] > 0 \/ k \in ses.live
        /\ ses.live = {}
        /\ ses.new # ses.old => ses.new = "approved"
    BY DEF GoInv, SessionsChosen
  <1>4. SessionsChosen' /\ PlansApproved'
    BY <1>1, <1>2, <1>3, SessionSound DEF GoInv
  <1>. QED  BY <1>4 DEF GoInv, RowsChosen

LEMMA MarkSound ==
  ASSUME TypeInv, GoInv, NEW s \in Sessions, NEW i \in Items, Mark(s, i)
  PROVE  GoInv'
  <1>. DEFINE old     == session[s]
              live    == GoesLive(old, i) /\ ~KillSwitch
              refused == KillSwitch \/ (live /\ ~InBudget(old, i))
              c       == IF live /\ Cost[i] > 0 THEN Resolved(old) ELSE old.cap
              a       == IF refused THEN NoItem ELSE i
              status  == IF refused THEN "failed" ELSE "dispatched"
              ses     == [old EXCEPT !.left = @ \ {i}, !.cap = c, !.acting = a,
                                     !.mine[i].status = status]
  <1>1. old \in Session /\ old.op = "dispatch" /\ i \in old.left
    BY DEF Mark, WantsItem, NextItem, Doing, TypeInv, TypeOK
  <1>2. a # NoItem => a = i /\ ~KillSwitch
    OBVIOUS
  <1>3. session' = [session EXCEPT ![s] = ses]
    BY DEF Mark
  <1>. HIDE DEF c, a, status
  <1>4. /\ ses.op = "dispatch" /\ ses.of = old.of /\ ses.loaded = old.loaded
        /\ ses.live = old.live /\ ses.old = old.old /\ ses.new = old.new
        /\ ses.acting = a /\ ses.left = old.left \ {i}
        /\ ses.mine = [old.mine EXCEPT ![i].status = status]
    BY <1>1 DEF Session
  <1>. HIDE DEF ses
  <1>5. \A k \in Items : ~ses.mine[k].dry => ~old.mine[k].dry
    BY <1>1, <1>4 DEF Session, RowView
  <1>6. /\ Kept /\ grants' = grants /\ plan' = plan /\ item' = item /\ effects' = effects
    BY DEF Kept, Mark
  <1>7. RowsChosen' /\ SessionsChosen' /\ PlansApproved'
    BY <1>1, <1>2, <1>3, <1>4, <1>5, <1>6, ActingSound
  <1>. QED  BY <1>6, <1>7, EffectsKept DEF GoInv

LEMMA EndsSound ==
  ASSUME TypeInv, GoInv, NEW s \in Sessions, NEW ok \in BOOLEAN, NEW landed \in Nat,
         NEW lost \in Nat, Ends(s, ok, landed, lost)
  PROVE  GoInv'
  <1>. DEFINE old    == session[s]
              i      == old.acting
              status == IF ok THEN "done" ELSE "failed"
              spent  == IF ok /\ GoesLive(old, i) THEN old.charged + Cost[i] ELSE old.charged
              ses    == [old EXCEPT !.acting = NoItem, !.mine[i].status = status,
                                    !.charged = spent]
  <1>1. old \in Session /\ old.op = "dispatch" /\ i \in Items /\ i # NoItem
    BY DEF Ends, Doing, TypeInv, TypeOK, Session
  <1>2. session' = [session EXCEPT ![s] = ses]
    BY DEF Ends
  <1>. HIDE DEF spent, status
  <1>3. /\ ses.op = "dispatch" /\ ses.of = old.of /\ ses.loaded = old.loaded
        /\ ses.live = old.live /\ ses.old = old.old /\ ses.new = old.new
        /\ ses.acting = NoItem /\ ses.left = old.left
        /\ ses.mine = [old.mine EXCEPT ![i].status = status]
    BY <1>1 DEF Session
  <1>. HIDE DEF ses
  <1>4. \A k \in Items : ~ses.mine[k].dry => ~old.mine[k].dry
    BY <1>1, <1>3 DEF Session, RowView
  <1>5. /\ Kept /\ grants' = grants /\ plan' = plan /\ item' = item
    BY DEF Kept, Ends
  <1>6. RowsChosen' /\ SessionsChosen' /\ PlansApproved'
    BY <1>1, <1>2, <1>3, <1>4, <1>5, ActingSound
  <1>7. OnlyChosenGoLive'
    <2>. SUFFICES ASSUME NEW k \in Items, effects'[k] > 0
                  PROVE  grants[k] > 0 /\ plan[PlanOf[k]] # "draft" /\ ~KillSwitch
      BY <1>5 DEF OnlyChosenGoLive
    <2>1. CASE effects[k] > 0
      BY <2>1 DEF GoInv, OnlyChosenGoLive
    <2>2. CASE ~(effects[k] > 0)
      <3>1. k = i /\ landed # 0
        BY <1>1, <2>2 DEF Ends, TypeInv, TypeOK
      <3>2. ~old.loaded[k].dry
        BY <3>1 DEF Ends, GoesLive
      <3>. QED  BY <1>1, <3>1, <3>2 DEF GoInv, SessionsChosen, PlansApproved
    <2>. QED  BY <2>1, <2>2
  <1>. QED  BY <1>6, <1>7 DEF GoInv

LEMMA OutcomeSound ==
  ASSUME TypeInv, GoInv, NEW s \in Sessions, Succeeds(s) \/ Fails(s)
  PROVE  GoInv'
  <1>1. \A lost \in 0 .. MaxPosts : lost \in Nat /\ lost + 1 \in Nat
    BY DispatchAssumption
  <1>2. CASE Succeeds(s)
    <2>1. \A lost \in 0 .. MaxPosts - 1 : lost \in Nat /\ lost + 1 \in Nat
      BY DispatchAssumption
    <2>2. \E landed \in Nat, lost \in Nat : Ends(s, TRUE, landed, lost)
      BY <1>2, <2>1 DEF Succeeds
    <2>. QED  BY <2>2, EndsSound
  <1>3. CASE Fails(s)
    BY <1>1, <1>3, EndsSound DEF Fails
  <1>. QED  BY <1>2, <1>3

LEMMA FinishSound ==
  ASSUME TypeInv, GoInv, NEW s \in Sessions, FinishDispatch(s)
  PROVE  GoInv'
  <1>. DEFINE ses == session[s]
  <1>1. Kept /\ grants' = grants /\ effects' = effects
    <2>1. \A p \in Plans : plan'[p] \in {plan[p], "dispatched"} \/ plan'[p] = plan[p]
      BY DEF FinishDispatch, Column, TypeInv, TypeOK
    <2>. QED  BY <2>1 DEF FinishDispatch, Kept
  <1>2. SessionsChosen' /\ PlansApproved'
    BY <1>1, IdlingSound DEF GoInv, FinishDispatch
  <1>3. RowsChosen'
    <2>. SUFFICES ASSUME NEW i \in Items, ~item'[i].dry PROVE grants[i] > 0
      BY <1>1 DEF RowsChosen
    <2>1. item'[i].dry = Column(item[i].dry, ses.loaded[i].dry, ses.mine[i].dry)
      BY DEF FinishDispatch, Written
    <2>2. ~item[i].dry \/ ~ses.mine[i].dry
      BY <2>1 DEF Column
    <2>3. ses.live = {}
      BY DEF GoInv, SessionsChosen, FinishDispatch, Doing
    <2>. QED  BY <2>2, <2>3 DEF GoInv, RowsChosen, SessionsChosen
  <1>. QED  BY <1>1, <1>2, <1>3, EffectsKept DEF GoInv

LEMMA CallSound ==
  ASSUME TypeInv, GoInv, NEW s \in Sessions, BeginCall(s) \/ EndCall(s) \/ Abort(s) \/ Victim(s)
  PROVE  GoInv'
  <1>1. /\ Kept /\ grants' = grants /\ item' = item /\ effects' = effects
    BY DEF Kept, BeginCall, EndCall, Abort, Victim, Abandon
  <1>2. RowsChosen' /\ OnlyChosenGoLive'
    BY <1>1, EffectsKept DEF GoInv, RowsChosen
  <1>3. CASE BeginCall(s)
    <2>. DEFINE ses == [IdleSession EXCEPT !.op = "call"]
    <2>1. /\ ses.op = "call" /\ ses.live = {} /\ ses.new = ses.old /\ ses.acting = NoItem
          /\ \A i \in Items : ses.loaded[i].dry /\ ses.mine[i].dry
      BY DEF IdleSession, NewItems, NewItem
    <2>2. session' = [session EXCEPT ![s] = ses]
      BY <1>3 DEF BeginCall, Begin
    <2>. HIDE DEF ses
    <2>. QED  BY <1>1, <1>2, <2>1, <2>2, SessionSound DEF GoInv
  <1>4. CASE EndCall(s) \/ Abort(s) \/ Victim(s)
    BY <1>1, <1>2, <1>4, IdlingSound DEF GoInv, EndCall, Abort, Victim, Abandon
  <1>. QED  BY <1>3, <1>4

LEMMA MidnightSound ==
  ASSUME TypeInv, GoInv, Midnight
  PROVE  GoInv'
  <1>1. \A s \in Sessions :
          /\ session'[s].op = session[s].op /\ session'[s].of = session[s].of
          /\ session'[s].old = session[s].old /\ session'[s].new = session[s].new
          /\ session'[s].loaded = session[s].loaded /\ session'[s].mine = session[s].mine
          /\ session'[s].live = session[s].live /\ session'[s].left = session[s].left
          /\ session'[s].acting = session[s].acting
    <2>1. ASSUME NEW ses \in Session, NEW next, next = [ses EXCEPT !.charged = 0]
          PROVE  /\ next.op = ses.op /\ next.of = ses.of
                 /\ next.old = ses.old /\ next.new = ses.new
                 /\ next.loaded = ses.loaded /\ next.mine = ses.mine
                 /\ next.live = ses.live /\ next.left = ses.left
                 /\ next.acting = ses.acting
      BY <2>1 DEF Session
    <2>2. \A s \in Sessions : /\ session[s] \in Session
                             /\ session'[s] = [session[s] EXCEPT !.charged = 0]
      BY DEF Midnight, TypeInv, TypeOK
    <2>. QED  BY <2>1, <2>2
  <1>2. UNCHANGED <<plan, item, effects, grants>>
    BY DEF Midnight
  <1>3. SessionsChosen'
    BY <1>1, <1>2 DEF GoInv, SessionsChosen
  <1>4. PlansApproved'
    BY <1>1, <1>2 DEF GoInv, PlansApproved
  <1>. QED  BY <1>2, <1>3, <1>4 DEF GoInv, RowsChosen, OnlyChosenGoLive

\* Every step keeps what is done outside chosen by a human.
LEMMA GoStep == TypeInv /\ GoInv /\ [Next]_vars => GoInv'
  <1>. SUFFICES ASSUME TypeInv, GoInv, [Next]_vars PROVE GoInv'
    OBVIOUS
  <1>1. ASSUME NEW s \in Sessions, HumanStep(s) PROVE GoInv'
    BY <1>1, ApproveItemSound, RejectItemSound, ApprovePlanSound, FlushSound, SaveWordSound
       DEF HumanStep
  <1>2. ASSUME NEW s \in Sessions, DispatchStep(s) PROVE GoInv'
    BY <1>2, OpenDispatchSound, MarkSound, OutcomeSound, FinishSound DEF DispatchStep
  <1>3. CASE SetCaps
    BY <1>3 DEF SetCaps, GoInv, RowsChosen, SessionsChosen, PlansApproved, OnlyChosenGoLive
  <1>4. CASE UNCHANGED vars
    BY <1>4 DEF vars, GoInv, RowsChosen, SessionsChosen, PlansApproved, OnlyChosenGoLive
  <1>. QED  BY <1>1, <1>2, <1>3, <1>4, CallSound, MidnightSound DEF Next

\* Nothing is done outside unless a human chose go-live for that very item, a human approved
\* its plan and the kill switch is off, for any number of overlapping sessions and faults.
THEOREM HumansChooseLive == Spec => []OnlyChosenGoLive
  <1>1. GoInv => OnlyChosenGoLive
    BY DEF GoInv
  <1>. QED  BY TypeInit, TypeStep, GoInit, GoStep, <1>1, PTL DEF Spec

--------------------------------------------------------------------------------
(***************************************************************************)
(* Who waits for whom.  A dispatch takes items in their order, so the ones *)
(* it holds come before those it wants; a word about one item holds        *)
(* nothing before its commit; only "approve all" holds a row (the plan's)  *)
(* and still wants any other.  Among dispatches, then, whoever waits wants *)
(* an item that comes before all the items the other one wants: the least  *)
(* item wanted in a circle would not be the least.                         *)
(***************************************************************************)
OrderOK(ses) ==
  /\ ses.op \in {"idle", "call"} => ses.of = NoPlan /\ Changed(ses) = {}
  /\ ses.op = "human" => IF ses.held THEN ses.left # {} ELSE Changed(ses) \subseteq ses.left
  /\ ses.op = "human" /\ ses.of = NoPlan => ~ses.held /\ \E i \in Items : ses.left \subseteq {i}
  /\ ses.op = "dispatch" =>
       /\ ~ses.held
       /\ \A k \in Items, j \in ses.left :
            k \in Changed(ses) \ ses.left \/ k = ses.acting => k < j

InOrder == \A s \in Sessions : OrderOK(session[s])

LEMMA OrderOne ==
  ASSUME TypeInv, InOrder, NEW s \in Sessions, NEW ses, session' = [session EXCEPT ![s] = ses],
         OrderOK(ses)
  PROVE  InOrder'
  BY DEF InOrder, TypeInv, TypeOK

\* A session begins without the plan's row.
LEMMA Unheld ==
  /\ \A op, R : Loading(op, R).of = NoPlan /\ ~Loading(op, R).held
  /\ \A op, p, new, R : ~LoadingPlan(op, p, new, R).held
  BY DEF Loading, LoadingPlan, IdleSession

LEMMA IdleInOrder == OrderOK(IdleSession)
  BY DEF OrderOK, IdleSession, Changed

LEMMA OrderInit == Init => InOrder
  BY IdleInOrder DEF Init, InOrder

\* What a human says: nothing is flushed yet, and without the plan it is about one item.
LEMMA SaysInOrder ==
  ASSUME TypeInv, InOrder, NEW s \in Sessions, NEW ses \in Session, Says(s, ses),
         ses.op = "human", ~ses.held,
         ses.of = NoPlan => \E i \in Items : Changed(ses) \subseteq {i}
  PROVE  InOrder'
  <1>. DEFINE said == Said(ses)
  <1>1. session' = [session EXCEPT ![s] = said]
    BY DEF Says, Begin, Said
  <1>2. /\ said.op = "human" /\ ~said.held /\ said.of = ses.of
        /\ said.mine = ses.mine /\ said.loaded = ses.loaded
    BY SaidTyped DEF Alike
  <1>3. said.left = Changed(ses)
    BY DEF Said, Session
  <1>. HIDE DEF said
  <1>4. Changed(said) = Changed(ses)
    BY <1>2 DEF Changed
  <1>5. OrderOK(said)
    BY <1>2, <1>3, <1>4 DEF OrderOK
  <1>. QED  BY <1>1, <1>5, OrderOne

LEMMA ItemWordInOrder ==
  ASSUME TypeInv, InOrder, NEW s \in Sessions, NEW i \in Items,
         (\E live \in BOOLEAN : ApproveItem(s, i, live)) \/ RejectItem(s, i)
  PROVE  InOrder'
  <1>. DEFINE base == Loading("human", {i})
  <1>1. /\ base \in Session /\ base.op = "human" /\ base.of = NoPlan /\ ~base.held
        /\ base.loaded = Rows({i}) /\ base.mine = Rows({i}) /\ Rows({i}) \in [Items -> Row]
    BY LoadingTyped, Unheld DEF TypeInv
  <1>2. ASSUME NEW live \in BOOLEAN, ApproveItem(s, i, live)  PROVE InOrder'
    <2>. DEFINE ses == [base EXCEPT !.mine[i] = Approved(live), !.live = IF live THEN {i} ELSE {}]
    <2>1. Says(s, ses)
      BY <1>2 DEF ApproveItem
    <2>2. Approved(live) \in Row
      BY DEF Approved, Row
    <2>. HIDE DEF base
    <2>3. /\ ses \in Session /\ ses.op = "human" /\ ~ses.held
          /\ ses.loaded = Rows({i}) /\ ses.mine = [Rows({i}) EXCEPT ![i] = Approved(live)]
      BY <1>1, <2>2, RowTypes DEF Session
    <2>. HIDE DEF ses
    <2>4. Changed(ses) \subseteq {i}
      BY <1>1, <2>3 DEF Changed
    <2>. QED  BY <2>1, <2>3, <2>4, SaysInOrder
  <1>3. CASE RejectItem(s, i)
    <2>. DEFINE row == [base.mine[i] EXCEPT !.status = "rejected"]
                ses == [base EXCEPT !.mine[i].status = "rejected"]
    <2>1. Says(s, ses)
      BY <1>3 DEF RejectItem
    <2>2. row \in Row
      BY <1>1 DEF Row
    <2>. HIDE DEF base
    <2>3. /\ ses \in Session /\ ses.op = "human" /\ ~ses.held
          /\ ses.loaded = Rows({i}) /\ ses.mine = [Rows({i}) EXCEPT ![i] = row]
      BY <1>1, <2>2, RowTypes DEF Session
    <2>. HIDE DEF ses, row
    <2>4. Changed(ses) \subseteq {i}
      BY <1>1, <2>3 DEF Changed
    <2>. QED  BY <2>1, <2>3, <2>4, SaysInOrder
  <1>. QED  BY <1>2, <1>3

LEMMA PlanWordInOrder ==
  ASSUME TypeInv, InOrder, NEW s \in Sessions, NEW p \in Plans,
         ApprovePlan(s, p) \/ ApproveAll(s, p)
  PROVE  InOrder'
  <1>0. p # NoPlan /\ TypeOK
    BY DispatchAssumption DEF TypeInv
  <1>1. CASE ApprovePlan(s, p)
    <2>. DEFINE ses == LoadingPlan("human", p, "approved", {})
    <2>1. ses \in Session /\ ses.op = "human" /\ ses.of = p /\ ~ses.held
      BY <1>0, LoadingPlanTyped, Unheld
    <2>2. Says(s, ses)
      BY <1>1 DEF ApprovePlan
    <2>. HIDE DEF ses
    <2>. QED  BY <1>0, <2>1, <2>2, SaysInOrder
  <1>2. CASE ApproveAll(s, p)
    <2>. DEFINE new  == {i \in ItemsOf(p) : item[i].status = "proposed"}
                base == LoadingPlan("human", p, "approved", new)
                rows == [i \in Items |-> IF i \in new THEN Approved(FALSE) ELSE NewItem]
                ses  == [base EXCEPT !.mine = rows]
    <2>1. base \in Session /\ base.op = "human" /\ base.of = p /\ ~base.held
      BY <1>0, LoadingPlanTyped, Unheld
    <2>2. Says(s, ses)
      BY <1>2 DEF ApproveAll
    <2>3. rows \in [Items -> RowView]
      BY RowTypes DEF Approved, Row
    <2>. HIDE DEF base, rows
    <2>4. ses \in Session /\ ses.op = "human" /\ ses.of = p /\ ~ses.held
      BY <2>1, <2>3 DEF Session
    <2>. HIDE DEF ses
    <2>. QED  BY <1>0, <2>2, <2>4, SaysInOrder
  <1>. QED  BY <1>1, <1>2

\* A flush of "approve all" leaves something to flush, and comes after its plan; a word about
\* one item is flushed with its commit.
LEMMA FlushInOrder ==
  ASSUME TypeInv, InOrder, NEW s \in Sessions, HoldPlan(s) \/ \E i \in Items : Flush(s, i)
  PROVE  InOrder'
  <1>. DEFINE old == session[s]
  <1>1. old \in Session /\ old.op = "human" /\ OrderOK(old)
    BY DEF HoldPlan, Flush, Doing, TypeInv, TypeOK, InOrder
  <1>2. CASE HoldPlan(s)
    <2>. DEFINE ses == [old EXCEPT !.held = TRUE]
    <2>1. session' = [session EXCEPT ![s] = ses]
      BY <1>2 DEF HoldPlan
    <2>2. ses.op = "human" /\ ses.of = old.of /\ ses.held = TRUE /\ ses.left = old.left
      BY <1>1 DEF Session
    <2>3. old.left # {} /\ old.of # NoPlan
      BY <1>2, DispatchAssumption DEF HoldPlan, WantsPlan
    <2>. HIDE DEF ses
    <2>4. OrderOK(ses)
      BY <2>2, <2>3 DEF OrderOK
    <2>. QED  BY <2>1, <2>4, OrderOne
  <1>3. ASSUME NEW i \in Items, Flush(s, i)  PROVE InOrder'
    <2>. DEFINE ses == [old EXCEPT !.left = @ \ {i}]
    <2>1. session' = [session EXCEPT ![s] = ses]
      BY <1>3 DEF Flush
    <2>2. ses.op = "human" /\ ses.of = old.of /\ ses.held = old.held /\ ses.left = old.left \ {i}
      BY <1>1 DEF Session
    <2>3. i \in old.left /\ old.left # {i} /\ (old.of # NoPlan => old.held)
      BY <1>1, <1>3 DEF Flush, WantsItem, NextItem
    <2>4. old.of # NoPlan
      BY <1>1, <2>3 DEF OrderOK
    <2>. HIDE DEF ses
    <2>5. ses.left # {}
      BY <2>2, <2>3
    <2>6. OrderOK(ses)
      BY <2>2, <2>3, <2>4, <2>5 DEF OrderOK
    <2>. QED  BY <2>1, <2>6, OrderOne
  <1>. QED  BY <1>2, <1>3

\* A dispatch marks the first of its items that are left, and acts on it before the next.
LEMMA ActInOrder ==
  ASSUME TypeInv, InOrder, NEW s \in Sessions, session[s].op = "dispatch", NEW i \in Items,
         \/ NextItem(session[s], i)
         \/ i = session[s].acting,
         \A u \in Sessions \ {s} : session'[u] = session[u],
         session'[s].op = "dispatch", session'[s].held = session[s].held,
         session'[s].loaded = session[s].loaded, session'[s].left = session[s].left \ {i},
         session'[s].acting \in {NoItem, i},
         \A k \in Items \ {i} : session'[s].mine[k] = session[s].mine[k]
  PROVE  InOrder'
  <1>. DEFINE old == session[s]
              ses == session'[s]
  <1>1. OrderOK(old) /\ old.op = "dispatch" /\ old.left \subseteq Items
    BY DEF InOrder, TypeInv, TypeOK, Session
  <1>2. \A k \in Items, j \in old.left : k \in Changed(old) \ old.left \/ k = old.acting => k < j
    BY <1>1 DEF OrderOK
  <1>3. \A j \in old.left \ {i} : i < j
    <2>1. CASE NextItem(old, i)
      <3>1. \A a, b \in Nat : a <= b /\ a # b => a < b
        OBVIOUS
      <3>. QED  BY <1>1, <2>1, <3>1, DispatchAssumption DEF NextItem
    <2>2. CASE i = old.acting
      BY <1>2, <2>2
    <2>. QED  BY <2>1, <2>2
  <1>4. ASSUME NEW k \in Items, NEW j \in ses.left, k \in Changed(ses) \ ses.left \/ k = ses.acting
        PROVE  k < j
    <2>1. j \in old.left \ {i}
      OBVIOUS
    <2>2. CASE k = i
      BY <1>3, <2>1, <2>2
    <2>3. CASE k # i
      <3>1. k # ses.acting
        BY <2>3, DispatchAssumption
      <3>2. k \in Changed(old) \ old.left
        BY <1>4, <2>3, <3>1 DEF Changed
      <3>. QED  BY <1>2, <2>1, <3>2
    <2>. QED  BY <2>2, <2>3
  <1>5. OrderOK(ses)
    BY <1>1, <1>4 DEF OrderOK
  <1>. QED  BY <1>5 DEF InOrder

LEMMA MarkInOrder ==
  ASSUME TypeInv, InOrder, NEW s \in Sessions, NEW i \in Items, Mark(s, i)
  PROVE  InOrder'
  <1>. DEFINE old     == session[s]
              live    == GoesLive(old, i) /\ ~KillSwitch
              refused == KillSwitch \/ (live /\ ~InBudget(old, i))
              c       == IF live /\ Cost[i] > 0 THEN Resolved(old) ELSE old.cap
              a       == IF refused THEN NoItem ELSE i
              status  == IF refused THEN "failed" ELSE "dispatched"
              ses     == [old EXCEPT !.left = @ \ {i}, !.cap = c, !.acting = a,
                                     !.mine[i].status = status]
  <1>1. old \in Session /\ old.op = "dispatch" /\ NextItem(old, i)
    BY DEF Mark, WantsItem, Doing, TypeInv, TypeOK
  <1>2. a \in {NoItem, i}
    OBVIOUS
  <1>3. session' = [session EXCEPT ![s] = ses]
    BY DEF Mark
  <1>. HIDE DEF c, a, status
  <1>4. /\ ses.op = "dispatch" /\ ses.held = old.held /\ ses.loaded = old.loaded
        /\ ses.left = old.left \ {i} /\ ses.acting = a
        /\ \A k \in Items \ {i} : ses.mine[k] = old.mine[k]
    BY <1>1 DEF Session
  <1>. HIDE DEF ses
  <1>5. session'[s] = ses /\ \A u \in Sessions \ {s} : session'[u] = session[u]
    BY <1>3 DEF TypeInv, TypeOK
  <1>6. /\ session'[s].op = "dispatch" /\ session'[s].held = session[s].held
        /\ session'[s].loaded = session[s].loaded
        /\ session'[s].left = session[s].left \ {i} /\ session'[s].acting \in {NoItem, i}
        /\ \A k \in Items \ {i} : session'[s].mine[k] = session[s].mine[k]
    BY <1>2, <1>4, <1>5
  <1>. QED  BY <1>1, <1>5, <1>6, ActInOrder

LEMMA EndsInOrder ==
  ASSUME TypeInv, InOrder, NEW s \in Sessions, Succeeds(s) \/ Fails(s)
  PROVE  InOrder'
  <1>1. \E ok, landed, lost : Ends(s, ok, landed, lost)
    BY DEF Succeeds, Fails
  <1>2. PICK ok, landed, lost : Ends(s, ok, landed, lost)
    BY <1>1
  <1>. DEFINE old    == session[s]
              i      == old.acting
              status == IF ok THEN "done" ELSE "failed"
              spent  == IF ok /\ GoesLive(old, i) THEN old.charged + Cost[i] ELSE old.charged
              ses    == [old EXCEPT !.acting = NoItem, !.mine[i].status = status,
                                    !.charged = spent]
  <1>3. old \in Session /\ old.op = "dispatch" /\ i \in Items
    BY <1>2 DEF Ends, Doing, TypeInv, TypeOK, Session
  <1>4. session' = [session EXCEPT ![s] = ses]
    BY <1>2 DEF Ends
  <1>. HIDE DEF spent, status
  <1>5. /\ ses.op = "dispatch" /\ ses.held = old.held /\ ses.loaded = old.loaded
        /\ ses.left = old.left /\ ses.acting = NoItem
        /\ \A k \in Items \ {i} : ses.mine[k] = old.mine[k]
    BY <1>3 DEF Session
  <1>6. i \notin old.left
    <2>1. \A n \in Nat : ~(n < n)
      OBVIOUS
    <2>. QED  BY <1>3, <2>1, DispatchAssumption DEF InOrder, OrderOK
  <1>. HIDE DEF ses
  <1>7. session'[s] = ses /\ \A u \in Sessions \ {s} : session'[u] = session[u]
    BY <1>4 DEF TypeInv, TypeOK
  <1>8. /\ session'[s].op = "dispatch" /\ session'[s].held = session[s].held
        /\ session'[s].loaded = session[s].loaded
        /\ session'[s].left = session[s].left \ {i} /\ session'[s].acting \in {NoItem, i}
        /\ \A k \in Items \ {i} : session'[s].mine[k] = session[s].mine[k]
    BY <1>5, <1>6, <1>7
  <1>. QED  BY <1>3, <1>7, <1>8, ActInOrder

LEMMA OpensInOrder ==
  ASSUME TypeInv, InOrder, NEW s \in Sessions,
         (\E p \in Plans : OpenDispatch(s, p)) \/ BeginCall(s)
  PROVE  InOrder'
  <1>1. ASSUME NEW p \in Plans, OpenDispatch(s, p)  PROVE InOrder'
    <2>. DEFINE queue == {i \in ItemsOf(p) : item[i].status \in Runnable}
                base  == LoadingPlan("dispatch", p, plan[p], queue)
                ses   == [base EXCEPT !.left = queue]
    <2>1. plan[p] \in PlanStatus /\ TypeOK
      BY DEF TypeInv, TypeOK
    <2>2. /\ base \in Session /\ base.op = "dispatch" /\ base.acting = NoItem
          /\ base.mine = Rows(queue) /\ base.loaded = Rows(queue) /\ ~base.held
      BY <2>1, LoadingPlanTyped, Unheld
    <2>3. session' = [session EXCEPT ![s] = ses]
      BY <1>1 DEF OpenDispatch, Begin
    <2>. HIDE DEF base, queue
    <2>4. /\ ses.op = "dispatch" /\ ses.acting = NoItem /\ ~ses.held
          /\ ses.mine = ses.loaded
      BY <2>2 DEF Session
    <2>. HIDE DEF ses
    <2>5. Changed(ses) = {}
      BY <2>4 DEF Changed
    <2>6. OrderOK(ses)
      BY <2>4, <2>5, DispatchAssumption DEF OrderOK
    <2>. QED  BY <2>3, <2>6, OrderOne
  <1>2. CASE BeginCall(s)
    <2>. DEFINE ses == [IdleSession EXCEPT !.op = "call"]
    <2>1. ses.op = "call" /\ ses.of = NoPlan /\ ses.mine = ses.loaded
      BY DEF IdleSession
    <2>2. session' = [session EXCEPT ![s] = ses]
      BY <1>2 DEF BeginCall, Begin
    <2>. HIDE DEF ses
    <2>3. OrderOK(ses)
      BY <2>1 DEF OrderOK, Changed
    <2>. QED  BY <2>2, <2>3, OrderOne
  <1>. QED  BY <1>1, <1>2

LEMMA OrderStep == TypeInv /\ InOrder /\ [Next]_vars => InOrder'
  <1>. SUFFICES ASSUME TypeInv, InOrder, [Next]_vars PROVE InOrder'
    OBVIOUS
  <1>1. ASSUME NEW s \in Sessions, session' = [session EXCEPT ![s] = IdleSession]
        PROVE  InOrder'
    BY <1>1, IdleInOrder, OrderOne
  <1>2. ASSUME NEW s \in Sessions, HumanStep(s) PROVE InOrder'
    BY <1>1, <1>2, ItemWordInOrder, PlanWordInOrder, FlushInOrder DEF HumanStep, SaveWord, Commit
  <1>3. ASSUME NEW s \in Sessions, DispatchStep(s) PROVE InOrder'
    BY <1>1, <1>3, OpensInOrder, MarkInOrder, EndsInOrder DEF DispatchStep, FinishDispatch
  <1>4. ASSUME NEW s \in Sessions, BeginCall(s) \/ EndCall(s) \/ Abort(s) \/ Victim(s)
        PROVE  InOrder'
    BY <1>1, <1>4, OpensInOrder DEF EndCall, Abort, Victim, Abandon
  <1>5. CASE Midnight
    <2>1. ASSUME NEW s \in Sessions  PROVE OrderOK(session'[s])
      <3>1. session[s] \in Session /\ OrderOK(session[s])
        BY DEF TypeInv, TypeOK, InOrder
      <3>2. session'[s] = [session[s] EXCEPT !.charged = 0]
        BY <1>5 DEF Midnight
      <3>3. /\ session'[s].op = session[s].op /\ session'[s].of = session[s].of
            /\ session'[s].held = session[s].held /\ session'[s].left = session[s].left
            /\ session'[s].acting = session[s].acting
            /\ session'[s].mine = session[s].mine /\ session'[s].loaded = session[s].loaded
        BY <3>1, <3>2 DEF Session
      <3>4. Changed(session'[s]) = Changed(session[s])
        BY <3>3 DEF Changed
      <3>. QED  BY <3>1, <3>3, <3>4 DEF OrderOK
    <2>. QED  BY <2>1 DEF InOrder
  <1>6. CASE SetCaps \/ UNCHANGED vars
    BY <1>6 DEF SetCaps, vars, InOrder
  <1>. QED  BY <1>2, <1>3, <1>4, <1>5, <1>6 DEF Next

LEMMA Least ==
  ASSUME NEW W \in SUBSET Nat, W # {}
  PROVE  \E m \in W : \A n \in W : m <= n
  <1>. DEFINE R == OpToRel(<, Nat)
  <1>1. IsWellFoundedOn(R, Nat)
    BY NatLessThanWellFounded
  <1>2. \A x, y \in Nat : x < y => <<x, y>> \in R
    BY DEF OpToRel
  <1>. HIDE DEF R
  <1>3. \E m \in W : \A n \in W : <<n, m>> \notin R
    BY <1>1, WFMin, Zenon
  <1>4. PICK m \in W : \A n \in W : <<n, m>> \notin R
    BY <1>3
  <1>5. \A n \in W : n \in Nat /\ m \in Nat /\ ~(n < m)
    BY <1>2, <1>4
  <1>6. \A n \in W : m <= n
    BY <1>5
  <1>. QED  BY <1>6

\* Who is waited for is a dispatch, or an "approve all" that holds its plan.
LEMMA Holder ==
  ASSUME TypeInv, InOrder, NEW s \in Sessions, NEW u \in Sessions, WaitsFor(s, u),
         ~(Doing(u, "human") /\ session[u].held /\ session[u].left # {})
  PROVE  /\ Doing(u, "dispatch")
         /\ \E i \in Items : WantsItem(session[s], i) /\ HoldsItem(session[u], i)
  <1>1. session[u] \in Session /\ OrderOK(session[u])
    BY DEF TypeInv, TypeOK, InOrder
  <1>2. CASE Doing(u, "human")
    <2>1. ~session[u].held /\ Changed(session[u]) \subseteq session[u].left
      BY <1>1, <1>2 DEF OrderOK, Doing
    <2>. QED  BY <2>1 DEF WaitsFor, HoldsItem, HoldsPlan
  <1>3. CASE Doing(u, "idle") \/ Doing(u, "call")
    <2>1. session[u].of = NoPlan /\ Changed(session[u]) = {}
      BY <1>1, <1>3 DEF OrderOK, Doing
    <2>. QED  BY <2>1, DispatchAssumption DEF WaitsFor, HoldsItem, HoldsPlan
  <1>4. CASE Doing(u, "dispatch")
    <2>1. ~session[u].held
      BY <1>1, <1>4 DEF OrderOK, Doing
    <2>. QED  BY <1>4, <2>1 DEF WaitsFor, HoldsPlan
  <1>. QED  BY <1>1, <1>2, <1>3, <1>4 DEF Session, Doing

LEMMA CircleHasApproveAll ==
  ASSUME TypeInv, InOrder, NEW C \in SUBSET Open, C # {}, Cyclic(C)
  PROVE  \E s \in C : Doing(s, "human") /\ session[s].held /\ session[s].left # {}
  <1>. SUFFICES ASSUME \A s \in C : ~(Doing(s, "human") /\ session[s].held /\ session[s].left # {})
                PROVE  FALSE
    OBVIOUS
  <1>0. C \subseteq Sessions
    BY DEF Open
  <1>. DEFINE W == {i \in Items : \E s \in C : WantsItem(session[s], i)}
  <1>1. ASSUME NEW u \in C
        PROVE  /\ Doing(u, "dispatch")
               /\ \E s \in C, i \in Items : WantsItem(session[s], i) /\ HoldsItem(session[u], i)
    <2>1. PICK s \in C : WaitsFor(s, u)
      BY DEF Cyclic
    <2>. QED  BY <1>0, <2>1, Holder
  <1>2. W \subseteq Nat /\ W # {}
    BY <1>1, DispatchAssumption
  <1>3. PICK m \in W : \A n \in W : m <= n
    BY <1>2, Least
  <1>4. PICK u \in C : WantsItem(session[u], m)
    OBVIOUS
  <1>5. PICK s \in C, i \in Items : WantsItem(session[s], i) /\ HoldsItem(session[u], i)
    BY <1>1
  <1>6. i < m
    <2>1. m \in session[u].left
      BY <1>4 DEF WantsItem, NextItem
    <2>2. OrderOK(session[u]) /\ session[u].op = "dispatch"
      BY <1>0, <1>1 DEF InOrder, Doing
    <2>. QED  BY <1>5, <2>1, <2>2 DEF OrderOK, HoldsItem
  <1>7. m <= i /\ i \in Nat /\ m \in Nat
    BY <1>2, <1>3, <1>5
  <1>. QED  BY <1>6, <1>7

\* However many transactions overlap, every circle of waiting ones has an "approve all" in it:
\* dispatches and words on single items never wait for each other in a circle.
THEOREM CirclesNeedApproveAll == Spec => []OnlyApproveAllCrosses
  <1>1. TypeInv /\ InOrder => OnlyApproveAllCrosses
    BY CircleHasApproveAll DEF OnlyApproveAllCrosses
  <1>. QED  BY TypeInit, TypeStep, OrderInit, OrderStep, <1>1, PTL DEF Spec

--------------------------------------------------------------------------------
(***************************************************************************)
(* Without overlap: with aborts, lost answers and retried POSTs, but on    *)
(* fresh rows, an item is performed once per go-live and fault, and within *)
(* the day's cap.                                                          *)
(***************************************************************************)

USE DEF ItemStatus, Settled, PlanStatus

\* At most one transaction is open.
Alone == \A s, u \in Sessions : ~Doing(s, "idle") /\ ~Doing(u, "idle") => s = u

\* A human's session has loaded what it changes, and approves or rejects it; what it sets
\* live is counted when it commits.
HumanOK(ses, rows) ==
  \A i \in Items :
    ses.mine[i] # ses.loaded[i] =>
      /\ ses.loaded[i] = rows[i]
      /\ ses.mine[i].status \in {"approved", "rejected"}
      /\ ses.mine[i] = Approved(TRUE) => i \in ses.live

Touched == {"dispatched", "done", "failed"}

\* A dispatch acts on approved rows as they are, and says "done" of a live one it performed.
DispatchOK(ses, rows, performed) ==
  \A i \in Items :
    /\ ses.loaded[i].status \in {"proposed", "approved"}
    /\ ses.mine[i].dry = ses.loaded[i].dry
    /\ ses.mine[i].status \in Touched \/ ses.mine[i] = ses.loaded[i]
    /\ i \in ses.left => ses.mine[i] = ses.loaded[i]
    /\ i = ses.acting => ses.mine[i].status = "dispatched"
    /\ i \in ses.left \/ ses.mine[i].status \in Touched
         => ses.loaded[i] = rows[i] /\ rows[i].status = "approved"
    /\ ses.mine[i].status = "done" /\ ~ses.loaded[i].dry => performed[i] > 0

\* Its governor has resolved the cap in force, if any; what it has charged, and what it is
\* about to charge for the live item it acts on, fit into the day.
InCap(ses, c, spent) ==
  /\ ses.cap \in {NoCap, c}
  /\ c.on /\ ses.charged > 0 => spent + ses.charged <= c.day
  /\ \A i \in Items : c.on /\ i = ses.acting /\ ~ses.loaded[i].dry /\ Cost[i] > 0
                        => spent + ses.charged + Cost[i] <= c.day

SessionOK(ses, rows, performed, c, spent) ==
  /\ ses.op = "human" => HumanOK(ses, rows)
  /\ ses.op = "dispatch" => DispatchOK(ses, rows, performed) /\ InCap(ses, c, spent)

\* An open dispatch is through with item i.
Through(ses, i) == ses.op = "dispatch" /\ ses.mine[i].status \in {"done", "failed"}

\* One more live action would not be one too many.
Due(i) == effects[i] + 1 <= grants[i] + faults

\* An approved live row is still to be performed, unless an open dispatch is through with it.
RowsOK ==
  \A i \in Items :
    /\ effects[i] <= grants[i] + faults
    /\ item[i].status = "done" /\ ~item[i].dry => effects[i] > 0
    /\ item[i] = Approved(TRUE) => Due(i) \/ \E s \in Sessions : Through(session[s], i)

SerialInv ==
  /\ Alone
  /\ RowsOK
  /\ \A s \in Sessions : SessionOK(session[s], item, effects, cap, ledger)

--------------------------------------------------------------------------------
\* A commit on fresh rows writes what the session made of them.
LEMMA WrittenFresh ==
  ASSUME TypeInv, NEW s \in Sessions, NEW i \in Items
  PROVE  /\ session[s].mine[i] = session[s].loaded[i] => Written(session[s])[i] = item[i]
         /\ session[s].loaded[i] = item[i] => Written(session[s])[i] = session[s].mine[i]
  <1>1. item[i] \in Row /\ session[s].mine[i] \in RowView
    BY DEF TypeInv, TypeOK, Session
  <1>2. Written(session[s])[i] =
          [status |-> Column(item[i].status, session[s].loaded[i].status,
                             session[s].mine[i].status),
           dry |-> Column(item[i].dry, session[s].loaded[i].dry, session[s].mine[i].dry)]
    BY DEF Written
  <1>. QED  BY <1>1, <1>2 DEF Column, Row, RowView

\* The arithmetic of what is due.
LEMMA Room ==
  ASSUME NEW e \in Nat, NEW g \in Nat, NEW f \in Nat, e <= g + f
  PROVE  e <= (g + 1) + f /\ e + 1 <= (g + 1) + f /\ e <= g + (f + 1) /\ e + 1 <= g + (f + 1)
  OBVIOUS

LEMMA OthersIdle ==
  ASSUME SerialInv, NEW s \in Sessions, ~Doing(s, "idle")
  PROVE  \A u \in Sessions \ {s} : session[u].op = "idle"
  BY DEF SerialInv, Alone, Doing

\* Who is alone waits for nobody.
LEMMA NoVictim ==
  ASSUME SerialInv, NEW s \in Sessions
  PROVE  ~Victim(s)
  <1>1. ASSUME NEW C \in SUBSET Open, s \in C, Cyclic(C) PROVE FALSE
    <2>1. PICK u \in C : s # u
      BY <1>1 DEF Cyclic, WaitsFor
    <2>. QED  BY <1>1, <2>1 DEF SerialInv, Alone, Open
  <1>. QED  BY <1>1 DEF Victim

LEMMA NoneOpen ==
  ASSUME MaxOverlap = 1, SerialInv, Cardinality(Open) < MaxOverlap
  PROVE  \A u \in Sessions : session[u].op = "idle"
  <1>. SUFFICES ASSUME NEW u \in Sessions, ~Doing(u, "idle") PROVE FALSE
    BY DEF Doing
  <1>1. Open = {u}
    BY DEF Open, SerialInv, Alone
  <1>2. Cardinality({u}) = 1
    BY FS_Singleton
  <1>. QED  BY <1>1, <1>2

\* A step of a session that is alone.
LEMMA OneStep ==
  ASSUME TypeInv, NEW s \in Sessions, NEW X, session' = [session EXCEPT ![s] = X],
         \A u \in Sessions \ {s} : session[u].op = "idle",
         SessionOK(X, item', effects', cap', ledger'), RowsOK'
  PROVE  SerialInv'
  <1>1. \A u \in Sessions : session'[u] = IF u = s THEN X ELSE session[u]
    BY DEF TypeInv, TypeOK
  <1>2. Alone'
    BY <1>1 DEF Alone, Doing
  <1>3. \A u \in Sessions : SessionOK(session'[u], item', effects', cap', ledger')
    BY <1>1 DEF SessionOK
  <1>. QED  BY <1>2, <1>3 DEF SerialInv

\* A session that begins; before, none is open, so that every approved live row is due.
LEMMA BeginSerial ==
  ASSUME MaxOverlap = 1, TypeInv, SerialInv, NEW s \in Sessions, NEW ses, Begin(s, ses),
         SessionOK(ses, item, effects, cap, ledger),
         UNCHANGED <<item, cap, ledger, effects, grants, faults>>
  PROVE  SerialInv'
  <1>1. \A u \in Sessions : session[u].op = "idle"
    BY NoneOpen DEF Begin
  <1>2. \A i \in Items : item[i] = Approved(TRUE) => Due(i)
    BY <1>1 DEF SerialInv, RowsOK, Through
  <1>3. RowsOK'
    <2>1. \A i \in Items : Due(i) => Due(i)'
      BY DEF Due
    <2>. QED  BY <1>2, <2>1 DEF SerialInv, RowsOK
  <1>. QED  BY <1>1, <1>3, OneStep DEF Begin

\* A session ends and leaves the rows as they are: what it was through with is lost, but then
\* a fault is counted, or it was no dispatch.
LEMMA EndsIdle ==
  ASSUME TypeInv, SerialInv, NEW s \in Sessions, ~Doing(s, "idle"),
         session' = [session EXCEPT ![s] = IdleSession],
         UNCHANGED <<item, effects, grants>>,
         \/ session[s].op # "dispatch" /\ faults' = faults
         \/ faults' = faults + 1
  PROVE  SerialInv'
  <1>1. \A u \in Sessions \ {s} : session[u].op = "idle"
    BY OthersIdle
  <1>2. \A i \in Items : effects[i] \in Nat /\ grants[i] \in Nat /\ faults \in Nat
    BY DEF TypeInv, TypeOK
  <1>3. ASSUME NEW i \in Items
        PROVE  /\ effects'[i] <= grants'[i] + faults'
               /\ item'[i].status = "done" /\ ~item'[i].dry => effects'[i] > 0
               /\ item'[i] = Approved(TRUE) => Due(i)'
    <2>1. effects[i] <= grants[i] + faults
          /\ (item[i].status = "done" /\ ~item[i].dry => effects[i] > 0)
      BY DEF SerialInv, RowsOK
    <2>2. CASE faults' = faults + 1
      <3>1. effects[i] <= grants[i] + (faults + 1) /\ effects[i] + 1 <= grants[i] + (faults + 1)
        BY <1>2, <2>1, Room
      <3>2. effects'[i] = effects[i] /\ grants'[i] = grants[i] /\ item'[i] = item[i]
        OBVIOUS
      <3>. QED  BY <2>1, <2>2, <3>1, <3>2 DEF Due
    <2>3. CASE session[s].op # "dispatch" /\ faults' = faults
      <3>1. item[i] = Approved(TRUE) => Due(i)
        BY <1>1, <2>3 DEF SerialInv, RowsOK, Through
      <3>. QED  BY <2>1, <2>3, <3>1 DEF Due
    <2>. QED  BY <2>2, <2>3
  <1>4. RowsOK'
    BY <1>3 DEF RowsOK
  <1>5. SessionOK(IdleSession, item', effects', cap', ledger')
    BY DEF SessionOK, IdleSession
  <1>. QED  BY <1>1, <1>4, <1>5, OneStep

--------------------------------------------------------------------------------
(***************************************************************************)
(* Humans                                                                  *)
(***************************************************************************)

LEMMA SaysSerial ==
  ASSUME MaxOverlap = 1, TypeInv, SerialInv, NEW s \in Sessions, NEW ses \in Session,
         Says(s, ses), ses.op = "human", HumanOK(ses, item)
  PROVE  SerialInv'
  <1>. DEFINE said == Said(ses)
  <1>1. Begin(s, said) /\ UNCHANGED <<item, cap, ledger, effects, grants, faults>>
    BY DEF Says, Said
  <1>2. said.op = "human" /\ said.loaded = ses.loaded /\ said.mine = ses.mine
        /\ said.live = ses.live
    BY SaidTyped DEF Alike
  <1>. HIDE DEF said
  <1>3. SessionOK(said, item, effects, cap, ledger)
    BY <1>2 DEF SessionOK, HumanOK
  <1>. QED  BY <1>1, <1>3, BeginSerial

LEMMA FlushSerial ==
  ASSUME TypeInv, SerialInv, NEW s \in Sessions, HoldPlan(s) \/ \E i \in Items : Flush(s, i)
  PROVE  SerialInv'
  <1>1. /\ \A u \in Sessions : Alike(session'[u], session[u])
        /\ \A u \in Sessions \ {s} : session'[u] = session[u]
        /\ session[s].op = "human"
        /\ UNCHANGED <<plan, item, cap, ledger, effects, grants, faults>>
    BY FlushOnly
  <1>2. Alone'
    BY <1>1 DEF SerialInv, Alone, Doing, Alike
  <1>3. RowsOK'
    BY <1>1 DEF SerialInv, RowsOK, Through, Due, Alike
  <1>4. \A u \in Sessions : SessionOK(session'[u], item, effects, cap, ledger)
    <2>1. SessionOK(session'[s], item, effects, cap, ledger)
      BY <1>1 DEF SerialInv, SessionOK, HumanOK, Alike
    <2>. QED  BY <1>1, <2>1 DEF SerialInv
  <1>. QED  BY <1>1, <1>2, <1>3, <1>4 DEF SerialInv

\* Approving an item, for a dry run or to go live, and rejecting one.
LEMMA ItemWordSerial ==
  ASSUME MaxOverlap = 1, TypeInv, SerialInv, NEW s \in Sessions, NEW i \in Items,
         (\E live \in BOOLEAN : ApproveItem(s, i, live)) \/ RejectItem(s, i)
  PROVE  SerialInv'
  <1>. DEFINE base == Loading("human", {i})
  <1>1. /\ base \in Session /\ base.op = "human" /\ base.loaded = Rows({i})
        /\ base.mine = Rows({i}) /\ Rows({i}) \in [Items -> Row]
    BY LoadingTyped DEF TypeInv
  <1>2. Rows({i})[i] = item[i]
    BY DEF Rows
  <1>. HIDE DEF base
  <1>3. ASSUME NEW row \in Row, NEW ses \in Session, ses.op = "human", ses.loaded = base.loaded,
               ses.mine = [base.mine EXCEPT ![i] = row], row.status \in {"approved", "rejected"},
               row = Approved(TRUE) => i \in ses.live, Says(s, ses)
        PROVE  SerialInv'
    <2>1. \A k \in Items : ses.mine[k] # ses.loaded[k] => k = i /\ ses.mine[k] = row
      BY <1>1, <1>3
    <2>2. HumanOK(ses, item)
      BY <1>1, <1>2, <1>3, <2>1 DEF HumanOK
    <2>. QED  BY <1>3, <2>2, SaysSerial
  <1>4. ASSUME NEW live \in BOOLEAN, ApproveItem(s, i, live)  PROVE SerialInv'
    <2>. DEFINE ses == [base EXCEPT !.mine[i] = Approved(live), !.live = IF live THEN {i} ELSE {}]
    <2>1. /\ ses.op = "human" /\ ses.loaded = base.loaded
          /\ ses.mine = [base.mine EXCEPT ![i] = Approved(live)]
          /\ ses.live = IF live THEN {i} ELSE {}
      BY <1>1 DEF Session
    <2>2. Says(s, ses)
      BY <1>4 DEF ApproveItem, base
    <2>4. Approved(live) \in Row
      BY DEF Approved, Row
    <2>5. ses \in Session
      BY <1>1, <2>4, RowTypes DEF Session
    <2>. HIDE DEF ses
    <2>3. Approved(live).status = "approved" /\ (Approved(live) = Approved(TRUE) => live)
      BY DEF Approved
    <2>. QED  BY <1>3, <2>1, <2>2, <2>3, <2>4, <2>5
  <1>5. CASE RejectItem(s, i)
    <2>. DEFINE row == [base.mine[i] EXCEPT !.status = "rejected"]
                ses == [base EXCEPT !.mine[i].status = "rejected"]
    <2>1. /\ ses.op = "human" /\ ses.loaded = base.loaded
          /\ ses.mine = [base.mine EXCEPT ![i] = row]
      BY <1>1 DEF Session
    <2>2. Says(s, ses)
      BY <1>5 DEF RejectItem, base
    <2>3. row.status = "rejected" /\ row \in Row
      BY <1>1 DEF Row
    <2>5. ses \in Session
      BY <1>1, <2>3, RowTypes DEF Session
    <2>4. row # Approved(TRUE)
      BY <2>3 DEF Approved
    <2>. HIDE DEF ses, row
    <2>. QED  BY <1>3, <2>1, <2>2, <2>3, <2>4, <2>5
  <1>. QED  BY <1>4, <1>5

LEMMA PlanWordSerial ==
  ASSUME MaxOverlap = 1, TypeInv, SerialInv, NEW s \in Sessions, NEW p \in Plans,
         ApprovePlan(s, p) \/ ApproveAll(s, p)
  PROVE  SerialInv'
  <1>1. CASE ApprovePlan(s, p)
    <2>. DEFINE ses == LoadingPlan("human", p, "approved", {})
    <2>1. /\ ses \in Session /\ ses.op = "human"
          /\ ses.loaded = Rows({}) /\ ses.mine = Rows({})
      BY LoadingPlanTyped DEF TypeInv
    <2>2. Says(s, ses)
      BY <1>1 DEF ApprovePlan
    <2>. HIDE DEF ses
    <2>3. HumanOK(ses, item)
      BY <2>1 DEF HumanOK
    <2>. QED  BY <2>1, <2>2, <2>3, SaysSerial
  <1>2. CASE ApproveAll(s, p)
    <2>. DEFINE new  == {i \in ItemsOf(p) : item[i].status = "proposed"}
                base == LoadingPlan("human", p, "approved", new)
                rows == [i \in Items |-> IF i \in new THEN Approved(FALSE) ELSE NewItem]
                ses  == [base EXCEPT !.mine = rows]
    <2>1. base \in Session /\ base.op = "human" /\ base.loaded = Rows(new)
      BY LoadingPlanTyped DEF TypeInv
    <2>2. Says(s, ses)
      BY <1>2 DEF ApproveAll
    <2>7. rows \in [Items -> RowView]
      BY RowTypes DEF Approved, Row
    <2>. HIDE DEF base, rows
    <2>3. /\ ses \in Session /\ ses.op = "human"
          /\ ses.loaded = Rows(new) /\ ses.mine = rows
      BY <2>1, <2>7 DEF Session
    <2>. USE DEF rows
    <2>. HIDE DEF ses, new
    <2>4. \A i \in Items : IF i \in new THEN Rows(new)[i] = item[i] /\ rows[i] = Approved(FALSE)
                                        ELSE rows[i] = Rows(new)[i]
      BY DEF Rows
    <2>5. Approved(FALSE) # Approved(TRUE) /\ Approved(FALSE).status = "approved"
      BY DEF Approved
    <2>. HIDE DEF rows
    <2>6. HumanOK(ses, item)
      BY <2>3, <2>4, <2>5 DEF HumanOK
    <2>. QED  BY <2>2, <2>3, <2>6, SaysSerial
  <1>. QED  BY <1>1, <1>2

LEMMA SaveWordSerial ==
  ASSUME TypeInv, SerialInv, NEW s \in Sessions, SaveWord(s)
  PROVE  SerialInv'
  <1>. DEFINE ses == session[s]
  <1>1. /\ ses.op = "human" /\ item' = Written(ses)
        /\ session' = [session EXCEPT ![s] = IdleSession]
        /\ grants' = [i \in Items |-> IF i \in ses.live THEN grants[i] + 1 ELSE grants[i]]
        /\ UNCHANGED <<cap, ledger, effects, faults>>
    BY DEF SaveWord, Commit, Doing
  <1>2. HumanOK(ses, item) /\ \A u \in Sessions \ {s} : session[u].op = "idle"
    BY <1>1, OthersIdle DEF SerialInv, SessionOK, Doing
  <1>3. \A i \in Items : item[i] = Approved(TRUE) => Due(i)
    BY <1>1, <1>2 DEF SerialInv, RowsOK, Through
  <1>4. ASSUME NEW i \in Items
        PROVE  /\ effects'[i] <= grants'[i] + faults'
               /\ item'[i].status = "done" /\ ~item'[i].dry => effects'[i] > 0
               /\ item'[i] = Approved(TRUE) => Due(i)'
    <2>1. effects[i] \in Nat /\ grants[i] \in Nat /\ faults \in Nat
          /\ effects[i] <= grants[i] + faults
          /\ (item[i].status = "done" /\ ~item[i].dry => effects[i] > 0)
      BY DEF TypeInv, TypeOK, SerialInv, RowsOK
    <2>2. /\ effects' = effects /\ faults' = faults
          /\ grants'[i] = IF i \in ses.live THEN grants[i] + 1 ELSE grants[i]
      BY <1>1
    <2>3. CASE ses.mine[i] = ses.loaded[i]
      <3>1. item'[i] = item[i]
        BY <1>1, <2>3, WrittenFresh
      <3>2. item[i] = Approved(TRUE) => Due(i)
        BY <1>3
      <3>3. effects'[i] <= grants'[i] + faults' /\ (Due(i) => Due(i)')
        <4>. HIDE DEF ses
        <4>1. CASE i \in ses.live
          BY <2>1, <2>2, <4>1, Room DEF Due
        <4>2. CASE i \notin ses.live
          BY <2>1, <2>2, <4>2 DEF Due
        <4>. QED  BY <4>1, <4>2
      <3>. QED  BY <2>1, <2>2, <3>1, <3>2, <3>3
    <2>4. CASE ses.mine[i] # ses.loaded[i]
      <3>1. /\ item'[i] = ses.mine[i] /\ item'[i].status \in {"approved", "rejected"}
            /\ item'[i] = Approved(TRUE) => i \in ses.live
        BY <1>1, <1>2, <2>4, WrittenFresh DEF HumanOK
      <3>2. effects'[i] <= grants'[i] + faults' /\ (i \in ses.live => Due(i)')
        <4>. HIDE DEF ses
        <4>1. CASE i \in ses.live
          BY <2>1, <2>2, <4>1, Room DEF Due
        <4>2. CASE i \notin ses.live
          BY <2>1, <2>2, <4>2 DEF Due
        <4>. QED  BY <4>1, <4>2
      <3>. QED  BY <3>1, <3>2
    <2>. QED  BY <2>3, <2>4
  <1>5. RowsOK'
    BY <1>4 DEF RowsOK
  <1>6. SessionOK(IdleSession, item', effects', cap', ledger')
    BY DEF SessionOK, IdleSession
  <1>. QED  BY <1>1, <1>2, <1>5, <1>6, OneStep

--------------------------------------------------------------------------------
(***************************************************************************)
(* Dispatch                                                                *)
(***************************************************************************)
LEMMA OpenDispatchSerial ==
  ASSUME MaxOverlap = 1, TypeInv, SerialInv, NEW s \in Sessions, NEW p \in Plans,
         OpenDispatch(s, p)
  PROVE  SerialInv'
  <1>. DEFINE queue == {i \in ItemsOf(p) : item[i].status \in Runnable}
              base  == LoadingPlan("dispatch", p, plan[p], queue)
              ses   == [base EXCEPT !.left = queue]
  <1>1. plan[p] \in PlanStatus
    BY DEF TypeInv, TypeOK
  <1>2. /\ base \in Session /\ base.op = "dispatch" /\ base.acting = NoItem
        /\ base.mine = Rows(queue) /\ base.loaded = Rows(queue)
    BY <1>1, LoadingPlanTyped DEF TypeInv
  <1>3. base.cap = NoCap /\ base.charged = 0
    BY DEF LoadingPlan, Loading, IdleSession
  <1>4. Begin(s, ses) /\ UNCHANGED <<item, cap, ledger, effects, grants, faults>>
    BY DEF OpenDispatch
  <1>5. \A i \in queue : i \in Items /\ item[i].status = "approved"
    BY DEF ItemsOf, Runnable
  <1>. HIDE DEF base, queue
  <1>6. /\ ses.op = "dispatch" /\ ses.acting = NoItem /\ ses.left = queue
        /\ ses.mine = Rows(queue) /\ ses.loaded = Rows(queue)
        /\ ses.cap = NoCap /\ ses.charged = 0
    BY <1>2, <1>3 DEF Session
  <1>7. \A i \in Items : Rows(queue)[i] = IF i \in queue THEN item[i] ELSE NewItem
    BY DEF Rows
  <1>. HIDE DEF ses
  <1>8. DispatchOK(ses, item, effects)
    BY <1>5, <1>6, <1>7, DispatchAssumption DEF DispatchOK, Touched, NewItem
  <1>9. InCap(ses, cap, ledger)
    BY <1>6, DispatchAssumption DEF InCap
  <1>10. SessionOK(ses, item, effects, cap, ledger)
    BY <1>6, <1>8, <1>9 DEF SessionOK
  <1>. QED  BY <1>4, <1>10, BeginSerial

\* The two gates: a live item that passes them fits into the day.
LEMMA MarkSerial ==
  ASSUME TypeInv, SerialInv, NEW s \in Sessions, NEW i \in Items, Mark(s, i)
  PROVE  SerialInv'
  <1>. DEFINE old     == session[s]
              live    == GoesLive(old, i) /\ ~KillSwitch
              refused == KillSwitch \/ (live /\ ~InBudget(old, i))
              c       == IF live /\ Cost[i] > 0 THEN Resolved(old) ELSE old.cap
              a       == IF refused THEN NoItem ELSE i
              status  == IF refused THEN "failed" ELSE "dispatched"
              ses     == [old EXCEPT !.left = @ \ {i}, !.cap = c, !.acting = a,
                                     !.mine[i].status = status]
  <1>1. old \in Session /\ old.op = "dispatch" /\ old.acting = NoItem /\ i \in old.left
    BY DEF Mark, Doing, WantsItem, NextItem, TypeInv, TypeOK
  <1>2. DispatchOK(old, item, effects) /\ InCap(old, cap, ledger)
        /\ \A u \in Sessions \ {s} : session[u].op = "idle"
    BY <1>1, OthersIdle DEF SerialInv, SessionOK, Doing
  <1>3. c \in {NoCap, cap}
    BY <1>2 DEF InCap, Resolved
  <1>4. a = i /\ ~old.loaded[i].dry /\ Cost[i] > 0 /\ cap.on
          => ledger + old.charged + Cost[i] <= cap.day
    <2>. SUFFICES ASSUME a = i, ~old.loaded[i].dry, Cost[i] > 0, cap.on
                  PROVE  ledger + old.charged + Cost[i] <= cap.day
      OBVIOUS
    <2>1. InBudget(old, i)
      BY DispatchAssumption DEF GoesLive
    <2>2. Resolved(old) = cap
      BY <1>2 DEF InCap, Resolved
    <2>. QED  BY <2>1, <2>2 DEF InBudget, WithinDay
  <1>5. a \in {NoItem, i} /\ status \in {"dispatched", "failed"} /\ (a = i => status = "dispatched")
    BY DispatchAssumption
  <1>6. session' = [session EXCEPT ![s] = ses]
        /\ UNCHANGED <<item, cap, ledger, effects, grants, faults>>
    BY DEF Mark
  <1>. HIDE DEF c, a, status
  <1>7. /\ ses.op = "dispatch" /\ ses.left = old.left \ {i} /\ ses.cap = c /\ ses.acting = a
        /\ ses.loaded = old.loaded /\ ses.charged = old.charged
        /\ \A k \in Items : ses.mine[k] = IF k = i THEN [old.mine[i] EXCEPT !.status = status]
                                                  ELSE old.mine[k]
    BY <1>1 DEF Session
  <1>8. [old.mine[i] EXCEPT !.status = status].status = status
        /\ [old.mine[i] EXCEPT !.status = status].dry = old.mine[i].dry
    BY <1>1 DEF Session, RowView
  <1>. HIDE DEF ses
  <1>9. DispatchOK(ses, item, effects)
    <2>. SUFFICES ASSUME NEW k \in Items
                  PROVE  /\ ses.loaded[k].status \in {"proposed", "approved"}
                         /\ ses.mine[k].dry = ses.loaded[k].dry
                         /\ ses.mine[k].status \in Touched \/ ses.mine[k] = ses.loaded[k]
                         /\ k \in ses.left => ses.mine[k] = ses.loaded[k]
                         /\ k = ses.acting => ses.mine[k].status = "dispatched"
                         /\ k \in ses.left \/ ses.mine[k].status \in Touched
                              => ses.loaded[k] = item[k] /\ item[k].status = "approved"
                         /\ ses.mine[k].status = "done" /\ ~ses.loaded[k].dry => effects[k] > 0
      BY DEF DispatchOK
    <2>1. CASE k = i
      <3>1. ses.mine[k].status = status /\ ses.mine[k].dry = old.mine[k].dry
        BY <1>7, <1>8, <2>1
      <3>2. old.loaded[k] = item[k] /\ item[k].status = "approved"
            /\ old.mine[k].dry = old.loaded[k].dry
        BY <1>1, <1>2, <2>1 DEF DispatchOK
      <3>3. k \notin ses.left /\ (k = ses.acting => status = "dispatched")
        BY <1>5, <1>7, <2>1
      <3>4. ses.loaded = old.loaded /\ status \in Touched /\ status # "done"
        BY <1>5, <1>7 DEF Touched
      <3>. QED  BY <3>1, <3>2, <3>3, <3>4
    <2>2. CASE k # i
      BY <1>1, <1>2, <1>5, <1>7, <2>2, DispatchAssumption DEF DispatchOK, Touched
    <2>. QED  BY <2>1, <2>2
  <1>10. InCap(ses, cap, ledger)
    BY <1>2, <1>3, <1>4, <1>5, <1>7, DispatchAssumption DEF InCap
  <1>11. SessionOK(ses, item, effects, cap, ledger)
    BY <1>7, <1>9, <1>10 DEF SessionOK
  <1>12. RowsOK'
    <2>1. ASSUME NEW k \in Items, NEW u \in Sessions, Through(session[u], k)
          PROVE  Through(session'[s], k)
      <3>1. u = s /\ session'[s] = ses
        BY <1>2, <1>6, <2>1 DEF Through, TypeInv, TypeOK
      <3>2. k # i
        BY <1>1, <1>2, <2>1, <3>1 DEF Through, DispatchOK
      <3>. QED  BY <1>7, <2>1, <3>1, <3>2 DEF Through
    <2>2. \A k \in Items : Due(k) => Due(k)'
      BY <1>6 DEF Due
    <2>. QED  BY <1>6, <2>1, <2>2 DEF SerialInv, RowsOK
  <1>. QED  BY <1>2, <1>6, <1>11, <1>12, OneStep

\* An action ends: performed at most once more than its answers were lost, and only if due.
LEMMA EndsSerial ==
  ASSUME TypeInv, SerialInv, NEW s \in Sessions, NEW ok \in BOOLEAN, NEW landed \in Nat,
         NEW lost \in Nat, landed <= lost + 1, Ends(s, ok, landed, lost),
         ok /\ GoesLive(session[s], session[s].acting) => landed > 0
  PROVE  SerialInv'
  <1>. DEFINE old    == session[s]
              i      == old.acting
              status == IF ok THEN "done" ELSE "failed"
              spent  == IF ok /\ GoesLive(old, i) THEN old.charged + Cost[i] ELSE old.charged
              ses    == [old EXCEPT !.acting = NoItem, !.mine[i].status = status,
                                    !.charged = spent]
  <1>1. old \in Session /\ old.op = "dispatch" /\ i \in Items
    BY DEF Ends, Doing, TypeInv, TypeOK, Session
  <1>2. DispatchOK(old, item, effects) /\ InCap(old, cap, ledger)
        /\ \A u \in Sessions \ {s} : session[u].op = "idle"
    BY <1>1, OthersIdle DEF SerialInv, SessionOK, Doing
  <1>3. /\ old.loaded[i] = item[i] /\ item[i].status = "approved"
        /\ old.mine[i].status = "dispatched" /\ i \notin old.left
    BY <1>1, <1>2 DEF DispatchOK, Touched
  <1>4. /\ session' = [session EXCEPT ![s] = ses]
        /\ effects' = [effects EXCEPT ![i] = @ + landed] /\ faults' = faults + lost
        /\ old.loaded[i].dry => landed = 0
        /\ UNCHANGED <<item, cap, ledger, grants>>
    BY DEF Ends, Fault, GoesLive
  <1>5. /\ ok /\ ~old.loaded[i].dry => landed > 0
        /\ spent = IF ok /\ ~old.loaded[i].dry THEN old.charged + Cost[i] ELSE old.charged
    BY DEF GoesLive
  <1>6. status \in {"done", "failed"} /\ (status = "done" => ok)
    OBVIOUS
  <1>7. /\ effects \in [Items -> Nat] /\ grants \in [Items -> Nat] /\ faults \in Nat
        /\ item[i] \in Row /\ old.charged \in Nat /\ ledger \in Nat /\ Cost[i] \in Nat
    BY <1>1, DispatchAssumption DEF TypeInv, TypeOK, Session
  <1>. HIDE DEF spent, status
  <1>8. /\ ses.op = "dispatch" /\ ses.left = old.left /\ ses.cap = old.cap /\ ses.acting = NoItem
        /\ ses.loaded = old.loaded /\ ses.charged = spent
        /\ \A k \in Items : ses.mine[k] = IF k = i THEN [old.mine[i] EXCEPT !.status = status]
                                                  ELSE old.mine[k]
    BY <1>1 DEF Session
  <1>9. [old.mine[i] EXCEPT !.status = status].status = status
        /\ [old.mine[i] EXCEPT !.status = status].dry = old.mine[i].dry
    BY <1>1 DEF Session, RowView
  <1>10. session'[s] = ses
    BY <1>4 DEF TypeInv, TypeOK
  <1>. HIDE DEF ses
  <1>11. \A k \in Items : /\ effects'[k] = IF k = i THEN effects[i] + landed ELSE effects[k]
                          /\ effects'[k] >= effects[k]
    <2>1. \A k \in Items : effects'[k] = IF k = i THEN effects[i] + landed ELSE effects[k]
      BY <1>4, <1>7
    <2>2. \A k \in Items : effects[k] + landed >= effects[k] /\ effects[k] >= effects[k]
      BY <1>7
    <2>. QED  BY <2>1, <2>2
  <1>12. effects[i] + landed > 0 \/ landed = 0
    BY <1>1, <1>7
  <1>13. DispatchOK(ses, item', effects')
    <2>. SUFFICES ASSUME NEW k \in Items
                  PROVE  /\ ses.loaded[k].status \in {"proposed", "approved"}
                         /\ ses.mine[k].dry = ses.loaded[k].dry
                         /\ ses.mine[k].status \in Touched \/ ses.mine[k] = ses.loaded[k]
                         /\ k \in ses.left => ses.mine[k] = ses.loaded[k]
                         /\ k = ses.acting => ses.mine[k].status = "dispatched"
                         /\ k \in ses.left \/ ses.mine[k].status \in Touched
                              => ses.loaded[k] = item'[k] /\ item'[k].status = "approved"
                         /\ ses.mine[k].status = "done" /\ ~ses.loaded[k].dry => effects'[k] > 0
      BY DEF DispatchOK
    <2>1. CASE k = i
      <3>1. ses.mine[k].status = "done" /\ ~ses.loaded[k].dry => effects'[k] > 0
        <4>1. ses.mine[k].status = "done" /\ ~ses.loaded[k].dry => landed > 0
          BY <1>5, <1>6, <1>8, <1>9, <2>1
        <4>2. effects'[k] = effects[i] + landed
          BY <1>11, <2>1
        <4>3. landed > 0 => effects[i] + landed > 0
          BY <1>1, <1>7
        <4>. QED  BY <4>1, <4>2, <4>3
      <3>2. /\ ses.loaded[k].status \in {"proposed", "approved"}
            /\ ses.mine[k].dry = ses.loaded[k].dry /\ ses.mine[k].status \in Touched
        BY <1>1, <1>2, <1>6, <1>8, <1>9, <2>1 DEF DispatchOK, Touched
      <3>3. k \notin ses.left /\ k # ses.acting
        BY <1>3, <1>8, <2>1, DispatchAssumption
      <3>4. ses.loaded[k] = item'[k] /\ item'[k].status = "approved"
        BY <1>3, <1>4, <1>8, <2>1
      <3>. QED  BY <3>1, <3>2, <3>3, <3>4
    <2>2. CASE k # i
      <3>1. effects'[k] = effects[k] /\ item' = item
        BY <1>4, <1>11, <2>2
      <3>. QED  BY <1>2, <1>8, <2>2, <3>1, DispatchAssumption DEF DispatchOK, Touched
    <2>. QED  BY <2>1, <2>2
  <1>14. InCap(ses, cap', ledger')
    <2>1. ses.cap \in {NoCap, cap}
      BY <1>2, <1>8 DEF InCap
    <2>2. cap.on /\ spent > 0 => ledger + spent <= cap.day
      <3>1. CASE ok /\ ~old.loaded[i].dry /\ Cost[i] > 0
        <4>1. cap.on => ledger + old.charged + Cost[i] <= cap.day
          BY <1>1, <1>2, <3>1 DEF InCap
        <4>2. ledger + (old.charged + Cost[i]) = ledger + old.charged + Cost[i]
          BY <1>7
        <4>. QED  BY <1>5, <3>1, <4>1, <4>2
      <3>2. CASE ~(ok /\ ~old.loaded[i].dry /\ Cost[i] > 0)
        <4>1. spent = old.charged
          BY <1>5, <1>7, <3>2
        <4>. QED  BY <1>2, <4>1 DEF InCap
      <3>. QED  BY <3>1, <3>2
    <2>3. \A k \in Items : k # ses.acting
      BY <1>8, DispatchAssumption
    <2>. QED  BY <1>4, <1>8, <2>1, <2>2, <2>3 DEF InCap
  <1>15. SessionOK(ses, item', effects', cap', ledger')
    BY <1>8, <1>13, <1>14 DEF SessionOK
  <1>16. RowsOK'
    <2>. SUFFICES ASSUME NEW k \in Items
                  PROVE  /\ effects'[k] <= grants'[k] + faults'
                         /\ item'[k].status = "done" /\ ~item'[k].dry => effects'[k] > 0
                         /\ item'[k] = Approved(TRUE)
                              => Due(k)' \/ \E u \in Sessions : Through(session'[u], k)
      BY DEF RowsOK
    <2>1. /\ effects[k] <= grants[k] + faults
          /\ item[k].status = "done" /\ ~item[k].dry => effects[k] > 0
          /\ item[k] = Approved(TRUE) => Due(k) \/ \E u \in Sessions : Through(session[u], k)
          /\ effects[k] \in Nat /\ grants[k] \in Nat
      BY <1>7 DEF SerialInv, RowsOK
    <2>2. CASE k = i
      <3>1. Through(session'[s], k)
        BY <1>6, <1>8, <1>9, <1>10, <2>2 DEF Through
      <3>2. effects[i] + landed <= grants[i] + (faults + lost)
        <4>1. CASE old.loaded[i].dry
          BY <1>1, <1>4, <1>7, <2>1, <2>2, <4>1
        <4>2. CASE ~old.loaded[i].dry
          <5>1. item[i] = Approved(TRUE)
            BY <1>3, <1>7, <4>2 DEF Approved, Row
          <5>2. ~\E u \in Sessions : Through(session[u], i)
            BY <1>2, <1>3 DEF Through
          <5>3. effects[i] + 1 <= grants[i] + faults
            BY <2>1, <2>2, <5>1, <5>2 DEF Due
          <5>. HIDE DEF i, old
          <5>. QED  BY <1>1, <1>7, <5>3
        <4>. QED  BY <4>1, <4>2
      <3>3. effects'[k] = effects[i] + landed /\ grants'[k] = grants[i]
        BY <1>4, <1>11, <2>2
      <3>4. item[k].status # "done"
        BY <1>3, <2>2
      <3>. QED  BY <1>4, <3>1, <3>2, <3>3, <3>4
    <2>3. CASE k # i
      <3>1. effects'[k] = effects[k] /\ grants'[k] = grants[k] /\ item'[k] = item[k]
        BY <1>4, <1>11, <2>3
      <3>2. \A e \in Nat, g \in Nat : e <= g + faults => e <= g + (faults + lost)
        BY <1>7
      <3>3. effects[k] <= grants[k] + (faults + lost)
        BY <2>1, <3>2
      <3>4. Due(k) => Due(k)'
        BY <1>4, <2>1, <3>1, <3>2 DEF Due
      <3>5. ASSUME NEW u \in Sessions, Through(session[u], k) PROVE Through(session'[s], k)
        <4>1. u = s
          BY <1>2, <3>5 DEF Through
        <4>. QED  BY <1>8, <1>10, <2>3, <3>5, <4>1 DEF Through
      <3>. QED  BY <1>4, <2>1, <3>1, <3>3, <3>4, <3>5
    <2>. QED  BY <2>2, <2>3
  <1>. QED  BY <1>2, <1>4, <1>15, <1>16, OneStep

LEMMA OutcomeSerial ==
  ASSUME TypeInv, SerialInv, NEW s \in Sessions, Succeeds(s) \/ Fails(s)
  PROVE  SerialInv'
  <1>1. CASE Succeeds(s)
    <2>1. CASE Ends(s, TRUE, 0, 0) /\ ~GoesLive(session[s], session[s].acting)
      <3>1. 0 \in Nat /\ 0 <= 0 + 1
        OBVIOUS
      <3>. QED  BY <2>1, <3>1, EndsSerial
    <2>2. ASSUME NEW lost \in 0 .. MaxPosts - 1, Ends(s, TRUE, lost + 1, lost)
          PROVE  SerialInv'
      <3>1. lost \in Nat /\ lost + 1 \in Nat /\ lost + 1 > 0 /\ lost + 1 <= lost + 1
        BY DispatchAssumption
      <3>. QED  BY <2>2, <3>1, EndsSerial
    <2>. QED  BY <1>1, <2>1, <2>2 DEF Succeeds
  <1>2. CASE Fails(s)
    <2>1. ASSUME NEW lost \in 0 .. MaxPosts, Ends(s, FALSE, lost, lost)  PROVE  SerialInv'
      <3>1. lost \in Nat /\ lost <= lost + 1
        BY DispatchAssumption
      <3>. QED  BY <2>1, <3>1, EndsSerial
    <2>. QED  BY <1>2, <2>1 DEF Fails
  <1>. QED  BY <1>1, <1>2

\* A dispatch commits: what it is through with is no longer approved.
LEMMA FinishSerial ==
  ASSUME TypeInv, SerialInv, NEW s \in Sessions, FinishDispatch(s)
  PROVE  SerialInv' /\ (ledger' > ledger /\ cap.on => ledger' <= cap.day)
  <1>. DEFINE ses == session[s]
  <1>1. /\ ses.op = "dispatch" /\ ses.acting = NoItem /\ item' = Written(ses)
        /\ session' = [session EXCEPT ![s] = IdleSession] /\ ledger' = ledger + ses.charged
        /\ UNCHANGED <<cap, effects, grants, faults>>
    BY DEF FinishDispatch, Doing
  <1>2. DispatchOK(ses, item, effects) /\ InCap(ses, cap, ledger)
        /\ \A u \in Sessions \ {s} : session[u].op = "idle"
    BY <1>1, OthersIdle DEF SerialInv, SessionOK, Doing
  <1>3. \A i \in Items : ses.mine[i].status # "dispatched"
    BY <1>1, DispatchAssumption DEF TypeInv, OwnMark
  <1>4. ASSUME NEW i \in Items
        PROVE  /\ effects'[i] <= grants'[i] + faults'
               /\ item'[i].status = "done" /\ ~item'[i].dry => effects'[i] > 0
               /\ item'[i] = Approved(TRUE) => Due(i)'
    <2>1. /\ effects[i] <= grants[i] + faults
          /\ item[i].status = "done" /\ ~item[i].dry => effects[i] > 0
          /\ item[i] = Approved(TRUE) => Due(i) \/ \E u \in Sessions : Through(session[u], i)
      BY DEF SerialInv, RowsOK
    <2>2. Due(i)' = Due(i)
      BY <1>1 DEF Due
    <2>3. CASE ses.mine[i].status \in Touched
      <3>1. item'[i] = ses.mine[i] /\ item'[i].status \in {"done", "failed"}
        BY <1>1, <1>2, <1>3, <2>3, WrittenFresh DEF DispatchOK, Touched
      <3>2. item'[i].status = "done" /\ ~item'[i].dry => effects[i] > 0
        BY <1>2, <3>1 DEF DispatchOK
      <3>3. item'[i] # Approved(TRUE)
        BY <3>1 DEF Approved
      <3>. QED  BY <1>1, <2>1, <3>2, <3>3
    <2>4. CASE ses.mine[i].status \notin Touched
      <3>1. ses.mine[i] = ses.loaded[i]
        BY <1>2, <2>4 DEF DispatchOK
      <3>2. item'[i] = item[i]
        BY <1>1, <3>1, WrittenFresh
      <3>3. ~\E u \in Sessions : Through(session[u], i)
        BY <1>2, <2>4 DEF Through, Touched
      <3>. QED  BY <1>1, <2>1, <2>2, <3>2, <3>3
    <2>. QED  BY <2>3, <2>4
  <1>5. RowsOK'
    BY <1>4 DEF RowsOK
  <1>6. SessionOK(IdleSession, item', effects', cap', ledger')
    BY DEF SessionOK, IdleSession
  <1>7. ledger' > ledger /\ cap.on => ledger' <= cap.day
    <2>1. ses.charged \in Nat /\ ledger \in Nat
      BY DEF TypeInv, TypeOK, Session
    <2>2. ledger' > ledger => ses.charged > 0
      BY <1>1, <2>1
    <2>. QED  BY <1>1, <1>2, <2>2 DEF InCap
  <1>. QED  BY <1>1, <1>2, <1>5, <1>6, <1>7, OneStep

--------------------------------------------------------------------------------
(***************************************************************************)
(* Calls, caps, the day, and the theorems                                  *)
(***************************************************************************)
LEMMA CallSerial ==
  ASSUME MaxOverlap = 1, TypeInv, SerialInv, NEW s \in Sessions,
         BeginCall(s) \/ EndCall(s) \/ Abort(s) \/ Victim(s)
  PROVE  SerialInv'
  <1>1. CASE BeginCall(s)
    <2>. DEFINE ses == [IdleSession EXCEPT !.op = "call"]
    <2>1. ses.op = "call"
      BY DEF IdleSession
    <2>2. Begin(s, ses) /\ UNCHANGED <<item, cap, ledger, effects, grants, faults>>
      BY <1>1 DEF BeginCall
    <2>. HIDE DEF ses
    <2>3. SessionOK(ses, item, effects, cap, ledger)
      BY <2>1 DEF SessionOK
    <2>. QED  BY <2>2, <2>3, BeginSerial
  <1>2. CASE EndCall(s)
    <2>1. /\ session[s].op = "call" /\ session' = [session EXCEPT ![s] = IdleSession]
          /\ UNCHANGED <<item, effects, grants, faults>>
      BY <1>2 DEF EndCall, Doing
    <2>. QED  BY <2>1, EndsIdle DEF Doing
  <1>3. CASE Abort(s)
    BY <1>3, EndsIdle DEF Abort, Abandon, Fault
  <1>. QED  BY <1>1, <1>2, <1>3, NoVictim

\* An admin changes the caps when no transaction is open.
LEMMA CapsSerial ==
  ASSUME MaxOverlap = 1, TypeInv, SerialInv, SetCaps
  PROVE  SerialInv'
  <1>1. \A u \in Sessions : session[u].op = "idle"
    BY NoneOpen DEF SetCaps
  <1>2. UNCHANGED <<item, session, effects, grants, faults>>
    BY DEF SetCaps
  <1>3. Alone' /\ RowsOK'
    BY <1>2 DEF SerialInv, Alone, Doing, RowsOK, Due
  <1>4. \A u \in Sessions : SessionOK(session'[u], item', effects', cap', ledger')
    BY <1>1, <1>2 DEF SessionOK
  <1>. QED  BY <1>3, <1>4 DEF SerialInv

\* A new day: nothing is spent or charged yet, and what fitted still fits.
LEMMA MidnightSerial ==
  ASSUME TypeInv, SerialInv, Midnight
  PROVE  SerialInv'
  <1>1. \A s \in Sessions :
          /\ session'[s].op = session[s].op /\ session'[s].loaded = session[s].loaded
          /\ session'[s].mine = session[s].mine /\ session'[s].live = session[s].live
          /\ session'[s].left = session[s].left /\ session'[s].acting = session[s].acting
          /\ session'[s].cap = session[s].cap /\ session'[s].charged = 0
    <2>. TAKE s \in Sessions
    <2>1. session[s] \in Session
      BY DEF TypeInv, TypeOK
    <2>2. session'[s] = [session[s] EXCEPT !.charged = 0]
      BY DEF Midnight
    <2>. QED  BY <2>1, <2>2 DEF Session
  <1>2. ledger' = 0 /\ UNCHANGED <<item, cap, effects, grants, faults>>
    BY DEF Midnight
  <1>3. Alone' /\ RowsOK'
    <2>1. Alone'
      BY <1>1 DEF SerialInv, Alone, Doing
    <2>2. \A s \in Sessions, i \in Items : Through(session[s], i) => Through(session'[s], i)
      BY <1>1 DEF Through
    <2>3. \A i \in Items : Due(i) => Due(i)'
      BY <1>2 DEF Due
    <2>. QED  BY <1>2, <2>1, <2>2, <2>3 DEF SerialInv, RowsOK
  <1>4. ASSUME NEW s \in Sessions  PROVE SessionOK(session'[s], item', effects', cap', ledger')
    <2>1. SessionOK(session[s], item, effects, cap, ledger)
      BY DEF SerialInv
    <2>2. session[s].op = "human" => HumanOK(session'[s], item')
      BY <1>1, <1>2, <2>1 DEF SessionOK, HumanOK
    <2>3. session[s].op = "dispatch" => DispatchOK(session'[s], item', effects')
      BY <1>1, <1>2, <2>1 DEF SessionOK, DispatchOK
    <2>4. ASSUME session[s].op = "dispatch"  PROVE InCap(session'[s], cap', ledger')
      <3>1. InCap(session[s], cap, ledger)
        BY <2>1, <2>4 DEF SessionOK
      <3>2. ledger \in Nat /\ session[s].charged \in Nat /\ cap.day \in Nat
        BY DispatchAssumption DEF TypeInv, TypeOK, Session
      <3>3. \A i \in Items : ledger + session[s].charged + Cost[i] <= cap.day
                               => 0 + 0 + Cost[i] <= cap.day
        <4>1. \A a, b, c, d \in Nat : a + b + c <= d => 0 + 0 + c <= d
          OBVIOUS
        <4>. QED  BY <3>2, <4>1, DispatchAssumption
      <3>. QED  BY <1>1, <1>2, <3>1, <3>3 DEF InCap
    <2>. QED  BY <1>1, <2>2, <2>3, <2>4 DEF SessionOK
  <1>. QED  BY <1>3, <1>4 DEF SerialInv

LEMMA SerialStart == Init => SerialInv
  <1>. SUFFICES ASSUME Init PROVE SerialInv
    OBVIOUS
  <1>1. \A s \in Sessions : session[s].op = "idle"
    BY DEF Init, IdleSession
  <1>2. \A i \in Items : item[i] = NewItem /\ effects[i] = 0 /\ grants[i] = 0 /\ faults = 0
    BY DEF Init, NewItems
  <1>3. RowsOK
    BY <1>2 DEF RowsOK, NewItem, Approved
  <1>4. Alone /\ \A s \in Sessions : SessionOK(session[s], item, effects, cap, ledger)
    BY <1>1 DEF Alone, Doing, SessionOK
  <1>. QED  BY <1>3, <1>4 DEF SerialInv

LEMMA SerialStep ==
  ASSUME MaxOverlap = 1, TypeInv, SerialInv, [Next]_vars
  PROVE  SerialInv'
  <1>1. ASSUME NEW s \in Sessions, HumanStep(s) PROVE SerialInv'
    BY <1>1, ItemWordSerial, PlanWordSerial, FlushSerial, SaveWordSerial DEF HumanStep
  <1>2. ASSUME NEW s \in Sessions, DispatchStep(s) PROVE SerialInv'
    BY <1>2, OpenDispatchSerial, MarkSerial, OutcomeSerial, FinishSerial DEF DispatchStep
  <1>3. CASE UNCHANGED vars
    BY <1>3 DEF vars, SerialInv, Alone, Doing, RowsOK, Due
  <1>. QED  BY <1>1, <1>2, <1>3, CallSerial, CapsSerial, MidnightSerial DEF Next

LEMMA SerialInvariant == MaxOverlap = 1 => (Spec => [](TypeInv /\ SerialInv))
  <1>. SUFFICES ASSUME MaxOverlap = 1 PROVE Spec => [](TypeInv /\ SerialInv)
    OBVIOUS
  <1>1. TypeInv /\ SerialInv /\ [Next]_vars => SerialInv'
    BY SerialStep
  <1>. QED  BY <1>1, SerialStart, TypeInit, TypeStep, PTL DEF Spec

\* Serially, an item is performed once for each go-live approval, and once more for each
\* fault (an abort after the action, an answer lost and the POST retried).
THEOREM OncePerGo == MaxOverlap = 1 => (Spec => []OneEffectPerGo)
  <1>. SUFFICES ASSUME MaxOverlap = 1 PROVE Spec => []OneEffectPerGo
    OBVIOUS
  <1>1. SerialInv => OneEffectPerGo
    BY DEF SerialInv, RowsOK, OneEffectPerGo
  <1>2. Spec => [](TypeInv /\ SerialInv)
    BY SerialInvariant
  <1>. QED  BY <1>1, <1>2, PTL

\* Serially, an item that reads "done" and live was performed.
THEOREM DoneIsDone == MaxOverlap = 1 => (Spec => []DoneMeansDone)
  <1>. SUFFICES ASSUME MaxOverlap = 1 PROVE Spec => []DoneMeansDone
    OBVIOUS
  <1>1. SerialInv => DoneMeansDone
    BY DEF SerialInv, RowsOK, DoneMeansDone
  <1>2. Spec => [](TypeInv /\ SerialInv)
    BY SerialInvariant
  <1>. QED  BY <1>1, <1>2, PTL

\* Serially, a dispatch does not take the day's spend over the cap in force when it commits.
THEOREM DispatchInCap == MaxOverlap = 1 => (Spec => DispatchWithinCap)
  <1>. SUFFICES ASSUME MaxOverlap = 1 PROVE Spec => DispatchWithinCap
    OBVIOUS
  <1>1. ASSUME TypeInv, SerialInv, [Next]_vars, NEW s \in Sessions, Doing(s, "dispatch"),
               session'[s].op = "idle", ledger' > ledger, cap.on
        PROVE  ledger' <= cap.day
    <2>1. ledger \in Nat /\ ~(ledger > ledger) /\ ~(0 > ledger)
      BY <1>1 DEF TypeInv, TypeOK
    <2>2. ledger' # ledger /\ ledger' # 0
      BY <1>1, <2>1
    <2>3. \E u \in Sessions : FinishDispatch(u) \/ EndCall(u)
      BY <1>1, <2>2 DEF Next, HumanStep, ApproveItem, RejectItem, ApprovePlan, ApproveAll, Says,
         HoldPlan, Flush, SaveWord, DispatchStep, OpenDispatch, Mark, Succeeds, Fails, Ends,
         BeginCall, Abort, Victim, Abandon,
         SetCaps, Midnight, vars
    <2>4. ASSUME NEW u \in Sessions, EndCall(u) PROVE FALSE
      <3>1. session[u].op = "call"
        BY <2>4 DEF EndCall, Doing
      <3>. QED  BY <1>1, <3>1 DEF SerialInv, Alone, Doing
    <2>. QED  BY <1>1, <2>3, <2>4, FinishSerial
  <1>2. TypeInv /\ SerialInv /\ [Next]_vars
          => [\A s \in Sessions :
                Doing(s, "dispatch") /\ session'[s].op = "idle" /\ ledger' > ledger /\ cap.on
                  => ledger' <= cap.day]_vars
    BY <1>1
  <1>3. Spec => [](TypeInv /\ SerialInv)
    BY SerialInvariant
  <1>. QED  BY <1>2, <1>3, PTL DEF Spec, DispatchWithinCap

--------------------------------------------------------------------------------
(***************************************************************************)
(* Serially, PlanDispatch implements ActionGate.  The proof adds to the    *)
(* invariants above that what a session sets live is, of the row it        *)
(* loaded, what it leaves there.                                           *)
(***************************************************************************)
LiveOK ==
  \A s \in Sessions : \A i \in session[s].live :
    session[s].mine[i] = Approved(TRUE) /\ session[s].loaded[i] = item[i]

GateInv == TypeInv /\ GoInv /\ SerialInv /\ LiveOK

\* What a row says at the gate, given what open dispatches say of the item.
ReadAs(row, told) ==
  IF row = Approved(TRUE)
  THEN IF "done" \in told THEN "tried" ELSE IF "failed" \in told THEN "missed" ELSE "go"
  ELSE IF row.status = "done" /\ ~row.dry THEN "done" ELSE "silent"

Told(open, i) == {open[s].mine[i].status : s \in {d \in Sessions : open[d].op = "dispatch"}}

LEMMA StandingRead ==
  ASSUME NEW i \in Items
  PROVE  /\ Standing(i) = ReadAs(item[i], Told(session, i))
         /\ Standing(i)' = ReadAs(item'[i], Told(session', i))
  BY DEF Standing, Outcomes, Doing, ReadAs, Told

\* Only the session that is open has something to say.
LEMMA ToldByOne ==
  ASSUME NEW open, NEW s \in Sessions, \A u \in Sessions \ {s} : open[u].op = "idle", NEW i
  PROVE  /\ open[s].op = "dispatch" => Told(open, i) = {open[s].mine[i].status}
         /\ open[s].op # "dispatch" => Told(open, i) = {}
  BY DEF Told

\* Two reports that agree on what is done and what failed read the same.
LEMMA SameReading ==
  ASSUME NEW row, NEW told, NEW now,
         "done" \in told <=> "done" \in now, "failed" \in told <=> "failed" \in now
  PROVE  ReadAs(row, told) = ReadAs(row, now)
  BY DEF ReadAs

\* A step that no item's standing, no plan and no count shows is none at the gate.
LEMMA Unseen ==
  ASSUME UNCHANGED <<plan, effects, grants, faults>>,
         \A i \in Items : Standing(i)' = Standing(i)
  PROVE  UNCHANGED Gate!gate
  BY DEF Gate!gate

\* A session that begins has nothing to report yet.
LEMMA BeginUnseen ==
  ASSUME MaxOverlap = 1, GateInv, NEW s \in Sessions, NEW ses, Begin(s, ses),
         UNCHANGED <<plan, item, effects, grants, faults>>,
         ses.op = "dispatch" => \A i \in Items : ses.mine[i].status \notin {"done", "failed"}
  PROVE  UNCHANGED Gate!gate
  <1>1. \A u \in Sessions : session[u].op = "idle"
    BY NoneOpen DEF Begin, GateInv
  <1>2. session'[s] = ses /\ \A u \in Sessions \ {s} : session'[u].op = "idle"
    BY <1>1 DEF Begin, GateInv, TypeInv, TypeOK
  <1>3. ASSUME NEW i \in Items  PROVE Standing(i)' = Standing(i)
    <2>1. Told(session, i) = {}
      BY <1>1, ToldByOne
    <2>2. "done" \notin Told(session', i) /\ "failed" \notin Told(session', i)
      BY <1>2, ToldByOne
    <2>3. ReadAs(item[i], Told(session, i)) = ReadAs(item[i], Told(session', i))
      BY <2>1, <2>2, SameReading
    <2>. QED  BY <2>3, StandingRead
  <1>. QED  BY <1>3, Unseen

\* A session that begins to say what it sets live.
LEMMA BeginLive ==
  ASSUME GateInv, NEW s \in Sessions, NEW ses, session' = [session EXCEPT ![s] = ses],
         item' = item,
         \A i \in ses.live : ses.mine[i] = Approved(TRUE) /\ ses.loaded[i] = item[i]
  PROVE  LiveOK'
  BY DEF GateInv, LiveOK, TypeInv, TypeOK

\* A session ends: whoever else is open says nothing live.
LEMMA EndLive ==
  ASSUME GateInv, NEW s \in Sessions, ~Doing(s, "idle"), NEW ses, ses.live = {},
         session' = [session EXCEPT ![s] = ses]
  PROVE  LiveOK'
  <1>1. \A u \in Sessions \ {s} : session[u].live = {}
    BY OthersIdle DEF GateInv, GoInv, SessionsChosen
  <1>2. \A u \in Sessions : session'[u].live = {}
    BY <1>1 DEF GateInv, TypeInv, TypeOK
  <1>. QED  BY <1>2 DEF LiveOK

--------------------------------------------------------------------------------
(***************************************************************************)
(* Humans at the gate                                                      *)
(***************************************************************************)
LEMMA WordUnseen ==
  ASSUME MaxOverlap = 1, GateInv, NEW s \in Sessions, HumanStep(s), ~SaveWord(s)
  PROVE  LiveOK' /\ UNCHANGED Gate!gate
  <1>0. TypeOK
    BY DEF GateInv, TypeInv
  <1>1. ASSUME NEW ses \in Session, Says(s, ses), ses.op = "human",
               \A i \in ses.live : ses.mine[i] = Approved(TRUE) /\ ses.loaded[i] = item[i]
        PROVE  LiveOK' /\ UNCHANGED Gate!gate
    <2>. DEFINE said == Said(ses)
    <2>1. session' = [session EXCEPT ![s] = said] /\ Begin(s, said)
          /\ UNCHANGED <<plan, item, effects, grants, faults>>
      BY <1>1 DEF Says, Begin, Said
    <2>4. said.op = "human" /\ said.live = ses.live /\ said.mine = ses.mine
          /\ said.loaded = ses.loaded
      BY <1>1, SaidTyped DEF Alike
    <2>. HIDE DEF said
    <2>5. \A i \in said.live : said.mine[i] = Approved(TRUE) /\ said.loaded[i] = item[i]
      BY <1>1, <2>4
    <2>2. LiveOK'
      BY <2>1, <2>5, BeginLive
    <2>3. UNCHANGED Gate!gate
      BY <2>1, <2>4, BeginUnseen
    <2>. QED  BY <2>2, <2>3
  <1>2. ASSUME NEW i \in Items, NEW live \in BOOLEAN, ApproveItem(s, i, live)
        PROVE  LiveOK' /\ UNCHANGED Gate!gate
    <2>. DEFINE base == Loading("human", {i})
                ses  == [base EXCEPT !.mine[i] = Approved(live), !.live = IF live THEN {i} ELSE {}]
    <2>1. base \in Session /\ base.op = "human" /\ base.loaded = Rows({i})
          /\ base.mine \in [Items -> Row]
      BY <1>0, LoadingTyped
    <2>2. Rows({i})[i] = item[i]
      BY DEF Rows
    <2>3. Says(s, ses)
      BY <1>2 DEF ApproveItem
    <2>. HIDE DEF base
    <2>6. Approved(live) \in Row
      BY DEF Approved, Row
    <2>4. /\ ses \in Session /\ ses.op = "human" /\ ses.loaded = Rows({i}) /\ ses.mine[i] = Approved(live)
          /\ ses.live = IF live THEN {i} ELSE {}
      BY <2>1, <2>6, RowTypes DEF Session
    <2>. HIDE DEF ses
    <2>5. \A k \in ses.live : k = i /\ live = TRUE
      BY <2>4
    <2>. QED  BY <1>1, <2>2, <2>3, <2>4, <2>5
  <1>3. ASSUME NEW i \in Items, RejectItem(s, i)  PROVE LiveOK' /\ UNCHANGED Gate!gate
    <2>. DEFINE base == Loading("human", {i})
                ses  == [base EXCEPT !.mine[i].status = "rejected"]
    <2>1. base \in Session /\ base.op = "human" /\ base.live = {} /\ base.mine \in [Items -> Row]
      BY <1>0, LoadingTyped
    <2>2. Says(s, ses)
      BY <1>3 DEF RejectItem
    <2>4. [base.mine[i] EXCEPT !.status = "rejected"] \in Row
      BY <2>1 DEF Row
    <2>. HIDE DEF base
    <2>3. ses \in Session /\ ses.op = "human" /\ ses.live = {}
      BY <2>1, <2>4, RowTypes DEF Session
    <2>. QED  BY <1>1, <2>2, <2>3
  <1>4. ASSUME NEW p \in Plans, ApprovePlan(s, p)  PROVE LiveOK' /\ UNCHANGED Gate!gate
    <2>. DEFINE ses == LoadingPlan("human", p, "approved", {})
    <2>1. ses \in Session /\ ses.op = "human" /\ ses.live = {}
      BY <1>0, LoadingPlanTyped
    <2>2. Says(s, ses)
      BY <1>4 DEF ApprovePlan
    <2>. QED  BY <1>1, <2>1, <2>2
  <1>5. ASSUME NEW p \in Plans, ApproveAll(s, p)  PROVE LiveOK' /\ UNCHANGED Gate!gate
    <2>. DEFINE new  == {i \in ItemsOf(p) : item[i].status = "proposed"}
                base == LoadingPlan("human", p, "approved", new)
                rows == [i \in Items |-> IF i \in new THEN Approved(FALSE) ELSE NewItem]
                ses  == [base EXCEPT !.mine = rows]
    <2>1. base \in Session /\ base.op = "human" /\ base.live = {}
      BY <1>0, LoadingPlanTyped
    <2>2. Says(s, ses)
      BY <1>5 DEF ApproveAll
    <2>4. rows \in [Items -> RowView]
      BY RowTypes DEF Approved, Row
    <2>. HIDE DEF base, rows
    <2>3. ses \in Session /\ ses.op = "human" /\ ses.live = {}
      BY <2>1, <2>4 DEF Session
    <2>. QED  BY <1>1, <2>2, <2>3
  <1>6. ASSUME HoldPlan(s) \/ \E i \in Items : Flush(s, i)  PROVE LiveOK' /\ UNCHANGED Gate!gate
    <2>0. /\ \A u \in Sessions : Alike(session'[u], session[u])
          /\ UNCHANGED <<plan, item, effects, grants, faults>>
      BY <1>6, FlushOnly DEF GateInv
    <2>1. /\ UNCHANGED <<plan, item, effects, grants, faults>>
          /\ \A u \in Sessions :
               /\ session'[u].op = session[u].op /\ session'[u].loaded = session[u].loaded
               /\ session'[u].mine = session[u].mine /\ session'[u].live = session[u].live
      BY <2>0 DEF Alike
    <2>2. LiveOK'
      <3>. SUFFICES ASSUME NEW u \in Sessions, NEW i \in session'[u].live
                    PROVE  session'[u].mine[i] = Approved(TRUE) /\ session'[u].loaded[i] = item'[i]
        BY DEF LiveOK
      <3>1. i \in session[u].live
        BY <2>1
      <3>2. session[u].mine[i] = Approved(TRUE) /\ session[u].loaded[i] = item[i]
        BY <3>1 DEF GateInv, LiveOK
      <3>. QED  BY <2>1, <3>2
    <2>3. \A i \in Items : Told(session', i) = Told(session, i)
      BY <2>1 DEF Told
    <2>4. \A i \in Items : Standing(i)' = Standing(i)
      BY <2>1, <2>3, StandingRead
    <2>. QED  BY <2>1, <2>2, <2>4, Unseen
  <1>. QED  BY <1>2, <1>3, <1>4, <1>5, <1>6 DEF HumanStep

\* A word that commits: it stands for what was set live, nothing stands for what was changed
\* otherwise, and the rest reads as before.
LEMMA SaveWordAtGate ==
  ASSUME GateInv, NEW s \in Sessions, SaveWord(s)
  PROVE  LiveOK' /\ Gate!Next
  <1>. DEFINE ses == session[s]
  <1>1. /\ ses.op = "human" /\ item' = Written(ses) /\ ses \in Session
        /\ session' = [session EXCEPT ![s] = IdleSession]
        /\ grants' = [i \in Items |-> IF i \in ses.live THEN grants[i] + 1 ELSE grants[i]]
        /\ UNCHANGED <<effects, faults>>
    BY DEF SaveWord, Commit, Doing, GateInv, TypeInv, TypeOK
  <1>2. HumanOK(ses, item) /\ \A u \in Sessions \ {s} : session[u].op = "idle"
    BY <1>1, OthersIdle DEF GateInv, SerialInv, SessionOK, Doing
  <1>3. \A u \in Sessions : session'[u].op = "idle"
    BY <1>1, <1>2 DEF GateInv, TypeInv, TypeOK, IdleSession
  <1>4. \A i \in Items : Told(session, i) = {} /\ Told(session', i) = {}
    BY <1>1, <1>2, <1>3, ToldByOne
  <1>5. \A i \in Items : Standing(i) = ReadAs(item[i], {}) /\ Standing(i)' = ReadAs(item'[i], {})
    BY <1>4, StandingRead
  <1>6. \A i \in Items : Standing(i) \notin {"tried", "missed"}
    BY <1>5 DEF ReadAs
  <1>7. ASSUME NEW i \in Items  PROVE i \in ses.live => Standing(i)' = "go"
    <2>1. i \in ses.live => item'[i] = Approved(TRUE)
      BY <1>1, WrittenFresh DEF GateInv, LiveOK
    <2>. QED  BY <1>5, <2>1 DEF ReadAs
  <1>8. ASSUME NEW i \in Items, i \notin ses.live
        PROVE  Standing(i)' \in {"silent", Standing(i)}
    <2>1. CASE ses.mine[i] = ses.loaded[i]
      BY <1>1, <1>5, <2>1, WrittenFresh DEF GateInv
    <2>2. CASE ses.mine[i] # ses.loaded[i]
      <3>1. item'[i] = ses.mine[i] /\ item'[i].status # "done" /\ item'[i] # Approved(TRUE)
        BY <1>1, <1>2, <1>8, <2>2, WrittenFresh DEF HumanOK, GateInv
      <3>. QED  BY <1>5, <3>1 DEF ReadAs
    <2>. QED  BY <2>1, <2>2
  <1>9. \A p \in Plans : plan[p] # "draft" => plan'[p] # "draft"
    <2>1. ses.new # ses.old => ses.new = "approved"
      BY DEF GateInv, GoInv, SessionsChosen
    <2>2. \A p \in Plans : plan'[p] = IF p = ses.of THEN Column(plan[p], ses.old, ses.new)
                                      ELSE plan[p]
      BY DEF SaveWord, Commit
    <2>. QED  BY <2>1, <2>2 DEF Column
  <1>10. PICK P \in SUBSET Plans : P = {p \in Plans : plan'[p] # "draft"}
    OBVIOUS
  <1>11. PICK L \in SUBSET Items : L = ses.live
    BY <1>1 DEF Session
  <1>12. PICK now : now = [i \in Items |-> ReadAs(item'[i], {})]
    OBVIOUS
  <1>13. PICK Q \in SUBSET Items : Q = {i \in Items \ L : now[i] = "silent"}
    OBVIOUS
  <1>16. P = {p \in Plans : plan[p] # "draft"} \cup P
    BY <1>9, <1>10
  <1>17. \A i \in Items : Standing(i)' = IF i \in L THEN "go" ELSE IF i \in Q THEN "silent"
                                         ELSE Standing(i)
    BY <1>5, <1>7, <1>8, <1>11, <1>12, <1>13
  <1>18. Gate!Speak(P, L, Q)
    BY <1>1, <1>6, <1>10, <1>11, <1>16, <1>17 DEF Gate!Speak
  <1>14. Gate!Next
    BY <1>18 DEF Gate!Next
  <1>15. LiveOK'
    BY <1>1, EndLive DEF Doing, IdleSession
  <1>. QED  BY <1>14, <1>15

--------------------------------------------------------------------------------
(***************************************************************************)
(* Dispatches at the gate                                                  *)
(***************************************************************************)
LEMMA OpenUnseen ==
  ASSUME MaxOverlap = 1, GateInv, NEW s \in Sessions, NEW p \in Plans, OpenDispatch(s, p)
  PROVE  LiveOK' /\ UNCHANGED Gate!gate
  <1>. DEFINE queue == {i \in ItemsOf(p) : item[i].status \in Runnable}
              base  == LoadingPlan("dispatch", p, plan[p], queue)
              ses   == [base EXCEPT !.left = queue]
  <1>1. plan[p] \in PlanStatus /\ TypeOK
    BY DEF GateInv, TypeInv, TypeOK
  <1>2. base \in Session /\ base.mine = Rows(queue) /\ base.live = {}
    BY <1>1, LoadingPlanTyped
  <1>3. Begin(s, ses) /\ UNCHANGED <<plan, item, effects, grants, faults>>
    BY DEF OpenDispatch
  <1>4. \A i \in Items : Rows(queue)[i].status \notin {"done", "failed"}
    BY DEF Rows, NewItem, Runnable
  <1>. HIDE DEF base
  <1>5. ses.mine = Rows(queue) /\ ses.live = {}
    BY <1>2 DEF Session
  <1>. HIDE DEF ses
  <1>6. UNCHANGED Gate!gate
    BY <1>3, <1>4, <1>5, BeginUnseen
  <1>7. LiveOK'
    BY <1>3, <1>5, BeginLive DEF Begin
  <1>. QED  BY <1>6, <1>7

\* An item that a dispatch has still to act on, or acts on, stands as its row alone says.
LEMMA ToCome ==
  ASSUME GateInv, NEW s \in Sessions, session[s].op = "dispatch",
         NEW i \in Items, i \in session[s].left \/ i = session[s].acting
  PROVE  /\ item[i].status = "approved" /\ session[s].loaded[i] = item[i]
         /\ plan[PlanOf[i]] # "draft"
         /\ Standing(i) = IF item[i] = Approved(TRUE) THEN "go" ELSE "silent"
  <1>1. DispatchOK(session[s], item, effects)
        /\ \A u \in Sessions \ {s} : session[u].op = "idle"
    BY OthersIdle DEF GateInv, SerialInv, SessionOK, Doing
  <1>2. session[s].mine[i].status \in {"approved", "dispatched"}
        /\ item[i].status = "approved" /\ session[s].loaded[i] = item[i]
    BY <1>1 DEF DispatchOK, Touched
  <1>3. Told(session, i) = {session[s].mine[i].status}
    BY <1>1, ToldByOne
  <1>4. Standing(i) = IF item[i] = Approved(TRUE) THEN "go" ELSE "silent"
    BY <1>2, <1>3, StandingRead DEF ReadAs
  <1>5. plan[PlanOf[i]] # "draft"
    BY DEF GateInv, GoInv, PlansApproved
  <1>. QED  BY <1>2, <1>4, <1>5

\* A dispatch moves item i on to status, and leaves the others as they were.
LEMMA MovesOn ==
  ASSUME GateInv, NEW s \in Sessions, session[s].op = "dispatch", NEW i \in Items, NEW status,
         \A u \in Sessions \ {s} : session'[u] = session[u], session'[s].op = "dispatch",
         session'[s].mine[i].status = status,
         \A k \in Items \ {i} : session'[s].mine[k].status = session[s].mine[k].status,
         item' = item
  PROVE  /\ Standing(i)' = ReadAs(item[i], {status})
         /\ \A k \in Items \ {i} : Standing(k)' = Standing(k)
  <1>1. \A u \in Sessions \ {s} : session[u].op = "idle" /\ session'[u].op = "idle"
    BY OthersIdle DEF GateInv, Doing
  <1>2. ASSUME NEW k \in Items
        PROVE  /\ Told(session, k) = {session[s].mine[k].status}
               /\ Told(session', k) = {session'[s].mine[k].status}
    <2>1. Told(session, k) = {session[s].mine[k].status}
      BY <1>1, ToldByOne
    <2>2. Told(session', k) = {session'[s].mine[k].status}
      BY <1>1, ToldByOne
    <2>. QED  BY <2>1, <2>2
  <1>3. Standing(i)' = ReadAs(item[i], {status})
    <2>1. Told(session', i) = {status}
      BY <1>2
    <2>. QED  BY <2>1, StandingRead
  <1>4. ASSUME NEW k \in Items \ {i}  PROVE Standing(k)' = Standing(k)
    <2>1. Told(session', k) = Told(session, k)
      BY <1>2
    <2>2. k \in Items
      OBVIOUS
    <2>. QED  BY <2>1, <2>2, StandingRead
  <1>. QED  BY <1>3, <1>4

\* What an attempt at the gate needs, for the steps that move an item on.
LEMMA AttemptAtGate ==
  ASSUME GateInv, NEW i \in Items, NEW outcome, NEW n \in Nat, NEW lost \in Nat,
         Standing(i) = "go", plan[PlanOf[i]] # "draft", KillSwitch => n = 0,
         Standing(i)' = outcome, \A k \in Items \ {i} : Standing(k)' = Standing(k),
         effects' = [effects EXCEPT ![i] = @ + n], faults' = faults + lost,
         UNCHANGED <<plan, grants>>
  PROVE  Gate!Attempt(i, outcome, n, lost)
  <1>1. [k \in Items |-> Standing(k)'] =
          [[k \in Items |-> Standing(k)] EXCEPT ![i] = outcome]
    OBVIOUS
  <1>2. PlanOf[i] \in {p \in Plans : plan[p] # "draft"}
    BY DispatchAssumption
  <1>. QED  BY <1>1, <1>2 DEF Gate!Attempt

\* A refusal uses the word up without a performance; a mark alone shows nothing.
LEMMA MarkAtGate ==
  ASSUME GateInv, NEW s \in Sessions, NEW i \in Items, Mark(s, i)
  PROVE  LiveOK' /\ [Gate!Next]_(Gate!gate)
  <1>. DEFINE old     == session[s]
              live    == GoesLive(old, i) /\ ~KillSwitch
              refused == KillSwitch \/ (live /\ ~InBudget(old, i))
              c       == IF live /\ Cost[i] > 0 THEN Resolved(old) ELSE old.cap
              a       == IF refused THEN NoItem ELSE i
              status  == IF refused THEN "failed" ELSE "dispatched"
              ses     == [old EXCEPT !.left = @ \ {i}, !.cap = c, !.acting = a,
                                     !.mine[i].status = status]
  <1>1. old \in Session /\ old.op = "dispatch" /\ i \in old.left
    BY DEF Mark, Doing, WantsItem, NextItem, GateInv, TypeInv, TypeOK
  <1>2. session' = [session EXCEPT ![s] = ses]
        /\ UNCHANGED <<plan, item, effects, grants, faults>>
    BY DEF Mark
  <1>3. status \in {"dispatched", "failed"}
    OBVIOUS
  <1>. HIDE DEF c, a, status
  <1>4. /\ ses.op = "dispatch" /\ ses.live = old.live
        /\ \A k \in Items : ses.mine[k].status = IF k = i THEN status ELSE old.mine[k].status
    BY <1>1 DEF Session, RowView
  <1>. HIDE DEF ses
  <1>5. old.live = {}
    BY <1>1 DEF GateInv, GoInv, SessionsChosen
  <1>6. LiveOK'
    BY <1>1, <1>2, <1>4, <1>5, EndLive DEF Doing
  <1>7. /\ Standing(i)' = ReadAs(item[i], {status})
        /\ \A k \in Items \ {i} : Standing(k)' = Standing(k)
    <2>1. session'[s] = ses /\ \A u \in Sessions \ {s} : session'[u] = session[u]
      BY <1>2 DEF GateInv, TypeInv, TypeOK
    <2>2. /\ session'[s].op = "dispatch" /\ session'[s].mine[i].status = status
          /\ \A k \in Items \ {i} : session'[s].mine[k].status = session[s].mine[k].status
      BY <2>1, <1>4
    <2>. QED  BY <1>1, <1>2, <2>1, <2>2, MovesOn
  <1>8. /\ item[i].status = "approved" /\ plan[PlanOf[i]] # "draft"
        /\ Standing(i) = IF item[i] = Approved(TRUE) THEN "go" ELSE "silent"
    BY <1>1, ToCome
  <1>9. CASE item[i] = Approved(TRUE) /\ status = "failed"
    <2>1. Standing(i)' = "missed" /\ Standing(i) = "go"
      BY <1>7, <1>8, <1>9 DEF ReadAs
    <2>2. effects' = [effects EXCEPT ![i] = @ + 0] /\ faults' = faults + 0 /\ 0 \in Nat
      BY <1>2 DEF GateInv, TypeInv, TypeOK
    <2>3. Gate!Attempt(i, "missed", 0, 0)
      BY <1>2, <1>7, <1>8, <2>1, <2>2, AttemptAtGate
    <2>4. 0 \in 0 .. MaxPosts
      BY DispatchAssumption
    <2>5. Gate!Miss(i)
      BY <2>3, <2>4 DEF Gate!Miss
    <2>. QED  BY <1>6, <2>5 DEF Gate!Next
  <1>10. CASE ~(item[i] = Approved(TRUE) /\ status = "failed")
    <2>1. Standing(i)' = Standing(i)
      BY <1>3, <1>7, <1>8, <1>10 DEF ReadAs
    <2>2. UNCHANGED Gate!gate
      BY <1>2, <1>7, <2>1, Unseen
    <2>. QED  BY <1>6, <2>2
  <1>. QED  BY <1>9, <1>10

\* A live action that ends uses the word up, and is performed as often as its answers were
\* lost, and once more if one arrived; a dry one shows nothing.
LEMMA EndsAtGate ==
  ASSUME GateInv, NEW s \in Sessions, NEW ok \in BOOLEAN, NEW landed \in Nat, NEW lost \in Nat,
         Ends(s, ok, landed, lost), session[s].acting \in Items
  PROVE  /\ LiveOK'
         /\ GoesLive(session[s], session[s].acting)
              => Gate!Attempt(session[s].acting, IF ok THEN "tried" ELSE "missed", landed, lost)
         /\ ~GoesLive(session[s], session[s].acting)
              => landed = 0 /\ (lost = 0 => UNCHANGED Gate!gate)
  <1>. DEFINE old    == session[s]
              status == IF ok THEN "done" ELSE "failed"
              spent  == IF ok /\ GoesLive(old, old.acting) THEN old.charged + Cost[old.acting]
                        ELSE old.charged
              ses    == [old EXCEPT !.acting = NoItem, !.mine[old.acting].status = status,
                                    !.charged = spent]
  <1>1. PICK i \in Items : i = old.acting
    OBVIOUS
  <1>2. old \in Session /\ old.op = "dispatch"
    BY DEF Ends, Doing, GateInv, TypeInv, TypeOK
  <1>3. /\ session' = [session EXCEPT ![s] = ses]
        /\ effects' = [effects EXCEPT ![i] = @ + landed] /\ faults' = faults + lost
        /\ GoesLive(old, i) \/ landed = 0
        /\ UNCHANGED <<plan, item, grants>>
    BY <1>1 DEF Ends, Fault
  <1>4. status = IF ok THEN "done" ELSE "failed"
    OBVIOUS
  <1>. HIDE DEF spent, status
  <1>5. /\ ses.op = "dispatch" /\ ses.live = old.live
        /\ \A k \in Items : ses.mine[k].status = IF k = i THEN status ELSE old.mine[k].status
    BY <1>1, <1>2 DEF Session, RowView
  <1>. HIDE DEF ses
  <1>6. old.live = {} /\ ~KillSwitch
    BY <1>1, <1>2, DispatchAssumption DEF GateInv, GoInv, SessionsChosen
  <1>7. LiveOK'
    BY <1>2, <1>3, <1>5, <1>6, EndLive DEF Doing
  <1>8. /\ Standing(i)' = ReadAs(item[i], {status})
        /\ \A k \in Items \ {i} : Standing(k)' = Standing(k)
    <2>1. session'[s] = ses /\ \A u \in Sessions \ {s} : session'[u] = session[u]
      BY <1>3 DEF GateInv, TypeInv, TypeOK
    <2>2. /\ session'[s].op = "dispatch" /\ session'[s].mine[i].status = status
          /\ \A k \in Items \ {i} : session'[s].mine[k].status = session[s].mine[k].status
      BY <2>1, <1>5
    <2>. QED  BY <1>2, <1>3, <2>1, <2>2, MovesOn
  <1>9. /\ item[i].status = "approved" /\ plan[PlanOf[i]] # "draft" /\ old.loaded[i] = item[i]
        /\ Standing(i) = IF item[i] = Approved(TRUE) THEN "go" ELSE "silent"
    BY <1>1, <1>2, ToCome
  <1>10. GoesLive(old, i) <=> item[i] = Approved(TRUE)
    <2>1. item[i] \in Row
      BY DEF GateInv, TypeInv, TypeOK
    <2>. QED  BY <1>9, <2>1 DEF GoesLive, Approved, Row
  <1>11. ASSUME GoesLive(old, i)
         PROVE  Gate!Attempt(i, IF ok THEN "tried" ELSE "missed", landed, lost)
    <2>1. Standing(i) = "go"
      BY <1>9, <1>10, <1>11
    <2>2. Standing(i)' = IF ok THEN "tried" ELSE "missed"
      BY <1>4, <1>8, <1>10, <1>11 DEF ReadAs
    <2>. QED  BY <1>3, <1>6, <1>8, <1>9, <2>1, <2>2, AttemptAtGate
  <1>12. ASSUME ~GoesLive(old, i), lost = 0  PROVE UNCHANGED Gate!gate
    <2>1. Standing(i)' = Standing(i)
      BY <1>8, <1>9, <1>10, <1>12 DEF ReadAs
    <2>2. UNCHANGED <<plan, effects, grants, faults>>
      BY <1>3, <1>12 DEF GateInv, TypeInv, TypeOK
    <2>. QED  BY <1>8, <2>1, <2>2, Unseen
  <1>. QED  BY <1>1, <1>3, <1>7, <1>11, <1>12

LEMMA OutcomeAtGate ==
  ASSUME GateInv, NEW s \in Sessions, Succeeds(s) \/ Fails(s)
  PROVE  LiveOK' /\ [Gate!Next]_(Gate!gate)
  <1>1. session[s].acting \in Items
    BY DEF Succeeds, Fails, Ends, GateInv, TypeInv, TypeOK, Session
  <1>2. PICK i \in Items : i = session[s].acting
    BY <1>1
  <1>3. CASE Ends(s, TRUE, 0, 0) /\ ~GoesLive(session[s], session[s].acting)
    <2>1. 0 \in Nat
      OBVIOUS
    <2>. QED  BY <1>1, <1>3, <2>1, EndsAtGate
  <1>4. ASSUME NEW lost \in 0 .. MaxPosts - 1, Ends(s, TRUE, lost + 1, lost)
        PROVE  LiveOK' /\ Gate!Perform(i)
    <2>1. lost \in Nat /\ lost + 1 \in Nat /\ lost + 1 # 0
      BY DispatchAssumption
    <2>2. LiveOK' /\ Gate!Attempt(i, "tried", lost + 1, lost)
      BY <1>1, <1>2, <1>4, <2>1, EndsAtGate
    <2>. QED  BY <2>2 DEF Gate!Perform
  <1>5. ASSUME NEW lost \in 0 .. MaxPosts, Ends(s, FALSE, lost, lost)
        PROVE  LiveOK' /\ (Gate!Miss(i) \/ UNCHANGED Gate!gate)
    <2>1. lost \in Nat
      BY DispatchAssumption
    <2>2. LiveOK'
      BY <1>1, <1>5, <2>1, EndsAtGate
    <2>3. CASE GoesLive(session[s], session[s].acting)
      <3>1. Gate!Attempt(i, "missed", lost, lost)
        BY <1>1, <1>2, <1>5, <2>1, <2>3, EndsAtGate
      <3>. QED  BY <2>2, <3>1 DEF Gate!Miss
    <2>4. CASE ~GoesLive(session[s], session[s].acting)
      BY <1>1, <1>5, <2>1, <2>2, <2>4, EndsAtGate
    <2>. QED  BY <2>3, <2>4
  <1>. QED  BY <1>2, <1>3, <1>4, <1>5 DEF Succeeds, Fails, Gate!Next

\* A dispatch that commits reports all its attempts at once.
LEMMA FinishAtGate ==
  ASSUME GateInv, NEW s \in Sessions, FinishDispatch(s)
  PROVE  LiveOK' /\ Gate!Next
  <1>. DEFINE ses == session[s]
  <1>1. /\ ses.op = "dispatch" /\ ses.acting = NoItem /\ item' = Written(ses)
        /\ session' = [session EXCEPT ![s] = IdleSession]
        /\ plan' = [plan EXCEPT ![ses.of] = Column(@, ses.old, "dispatched")]
        /\ UNCHANGED <<effects, grants, faults>>
    BY DEF FinishDispatch, Doing
  <1>2. DispatchOK(ses, item, effects) /\ \A u \in Sessions \ {s} : session[u].op = "idle"
    BY <1>1, OthersIdle DEF GateInv, SerialInv, SessionOK, Doing
  <1>3. \A u \in Sessions : session'[u].op = "idle"
    BY <1>1, <1>2 DEF GateInv, TypeInv, TypeOK, IdleSession
  <1>4. {p \in Plans : plan'[p] # "draft"} = {p \in Plans : plan[p] # "draft"}
    <2>1. ses.of \in Plans /\ plan[ses.of] # "draft"
      BY <1>1 DEF GateInv, TypeInv, OwnMark, GoInv, PlansApproved
    <2>. QED  BY <1>1, <2>1 DEF Column, GateInv, TypeInv, TypeOK
  <1>5. ASSUME NEW i \in Items
        PROVE  Standing(i)' = IF Standing(i) = "tried" THEN "done"
                              ELSE IF Standing(i) = "missed" THEN "silent" ELSE Standing(i)
    <2>1. Standing(i) = ReadAs(item[i], {ses.mine[i].status})
          /\ Standing(i)' = ReadAs(item'[i], {})
      <3>1. Told(session, i) = {ses.mine[i].status}
        BY <1>1, <1>2, ToldByOne
      <3>2. Told(session', i) = {}
        BY <1>3, ToldByOne
      <3>. QED  BY <3>1, <3>2, StandingRead
    <2>2. item[i] \in Row /\ ses.mine[i] \in RowView
      BY DEF GateInv, TypeInv, TypeOK, Session
    <2>3. CASE ses.mine[i].status \in Touched
      <3>1. /\ item'[i] = ses.mine[i] /\ ses.mine[i].status \in {"done", "failed"}
            /\ ses.loaded[i] = item[i] /\ item[i].status = "approved"
            /\ ses.mine[i].dry = ses.loaded[i].dry
        <4>1. ses.mine[i].status # "dispatched"
          BY <1>1, DispatchAssumption DEF GateInv, TypeInv, OwnMark
        <4>. QED  BY <1>1, <1>2, <2>3, <4>1, WrittenFresh DEF DispatchOK, Touched, GateInv
      <3>2. item[i] = Approved(TRUE) <=> ~ses.mine[i].dry
        BY <2>2, <3>1 DEF Approved, Row
      <3>3. item'[i] # Approved(TRUE)
        BY <3>1 DEF Approved
      <3>. QED  BY <2>1, <3>1, <3>2, <3>3 DEF ReadAs
    <2>4. CASE ses.mine[i].status \notin Touched
      <3>1. item'[i] = item[i]
        BY <1>1, <1>2, <2>4, WrittenFresh DEF DispatchOK, GateInv
      <3>. QED  BY <2>1, <2>4, <3>1 DEF ReadAs, Touched
    <2>. QED  BY <2>3, <2>4
  <1>6. Gate!Report
    BY <1>1, <1>4, <1>5 DEF Gate!Report
  <1>7. LiveOK'
    BY <1>1, EndLive DEF Doing, IdleSession
  <1>. QED  BY <1>6, <1>7 DEF Gate!Next

\* A transaction that ends without a commit: of a dispatch it loses the report.
LEMMA AbortAtGate ==
  ASSUME GateInv, NEW s \in Sessions, Abort(s)
  PROVE  LiveOK' /\ Gate!Next
  <1>1. /\ ~Doing(s, "idle") /\ session' = [session EXCEPT ![s] = IdleSession]
        /\ faults' = faults + 1 /\ UNCHANGED <<plan, item, effects, grants>>
    BY DEF Abort, Abandon, Fault
  <1>2. \A u \in Sessions \ {s} : session[u].op = "idle"
    BY <1>1, OthersIdle DEF GateInv
  <1>3. \A u \in Sessions : session'[u].op = "idle"
    BY <1>1, <1>2 DEF GateInv, TypeInv, TypeOK, IdleSession
  <1>4. ASSUME NEW i \in Items
        PROVE  Standing(i)' = IF Standing(i) \in {"tried", "missed"} THEN "go" ELSE Standing(i)
    <2>1. Standing(i) = ReadAs(item[i], Told(session, i)) /\ Standing(i)' = ReadAs(item[i], {})
      BY <1>1, <1>3, StandingRead, ToldByOne
    <2>. QED  BY <2>1 DEF ReadAs
  <1>5. Gate!Mishap
    BY <1>1, <1>4 DEF Gate!Mishap
  <1>6. LiveOK'
    BY <1>1, EndLive DEF IdleSession
  <1>. QED  BY <1>5, <1>6 DEF Gate!Next

LEMMA CallUnseen ==
  ASSUME MaxOverlap = 1, GateInv, NEW s \in Sessions, BeginCall(s) \/ EndCall(s)
  PROVE  LiveOK' /\ UNCHANGED Gate!gate
  <1>1. CASE BeginCall(s)
    <2>. DEFINE ses == [IdleSession EXCEPT !.op = "call"]
    <2>1. ses.op = "call" /\ ses.live = {}
      BY DEF IdleSession
    <2>2. Begin(s, ses) /\ UNCHANGED <<plan, item, effects, grants, faults>>
      BY <1>1 DEF BeginCall
    <2>. HIDE DEF ses
    <2>3. LiveOK'
      BY <2>1, <2>2, BeginLive DEF Begin
    <2>. QED  BY <2>1, <2>2, <2>3, BeginUnseen
  <1>2. CASE EndCall(s)
    <2>1. /\ session[s].op = "call" /\ session' = [session EXCEPT ![s] = IdleSession]
          /\ UNCHANGED <<plan, item, effects, grants, faults>>
      BY <1>2 DEF EndCall, Doing
    <2>2. \A u \in Sessions \ {s} : session[u].op = "idle"
      BY <2>1, OthersIdle DEF GateInv, Doing
    <2>3. \A u \in Sessions : session'[u].op = "idle"
      BY <2>1, <2>2 DEF GateInv, TypeInv, TypeOK, IdleSession
    <2>4. \A i \in Items : Told(session, i) = {} /\ Told(session', i) = {}
      BY <2>1, <2>2, <2>3, ToldByOne
    <2>5. \A i \in Items : Standing(i)' = Standing(i)
      BY <2>1, <2>4, StandingRead
    <2>6. LiveOK'
      BY <2>1, EndLive DEF Doing, IdleSession
    <2>. QED  BY <2>1, <2>5, <2>6, Unseen
  <1>. QED  BY <1>1, <1>2

LEMMA MidnightUnseen ==
  ASSUME GateInv, Midnight
  PROVE  LiveOK' /\ UNCHANGED Gate!gate
  <1>1. \A s \in Sessions :
          /\ session'[s].op = session[s].op /\ session'[s].loaded = session[s].loaded
          /\ session'[s].mine = session[s].mine /\ session'[s].live = session[s].live
    <2>. TAKE s \in Sessions
    <2>1. session[s] \in Session
      BY DEF GateInv, TypeInv, TypeOK
    <2>2. session'[s] = [session[s] EXCEPT !.charged = 0]
      BY DEF Midnight
    <2>. QED  BY <2>1, <2>2 DEF Session
  <1>2. UNCHANGED <<plan, item, effects, grants, faults>>
    BY DEF Midnight
  <1>3. LiveOK'
    BY <1>1, <1>2 DEF GateInv, LiveOK
  <1>4. \A i \in Items : Told(session', i) = Told(session, i)
    BY <1>1 DEF Told
  <1>5. \A i \in Items : Standing(i)' = Standing(i)
    BY <1>2, <1>4, StandingRead
  <1>. QED  BY <1>2, <1>3, <1>5, Unseen

--------------------------------------------------------------------------------
LEMMA GateStep ==
  ASSUME MaxOverlap = 1, GateInv, [Next]_vars
  PROVE  LiveOK' /\ [Gate!Next]_(Gate!gate)
  <1>1. ASSUME NEW s \in Sessions, HumanStep(s)  PROVE LiveOK' /\ [Gate!Next]_(Gate!gate)
    BY <1>1, WordUnseen, SaveWordAtGate
  <1>2. ASSUME NEW s \in Sessions, DispatchStep(s)  PROVE LiveOK' /\ [Gate!Next]_(Gate!gate)
    BY <1>2, OpenUnseen, MarkAtGate, OutcomeAtGate, FinishAtGate DEF DispatchStep
  <1>3. CASE SetCaps \/ UNCHANGED vars
    <2>1. UNCHANGED <<plan, item, session, effects, grants, faults>>
      BY <1>3 DEF SetCaps, vars
    <2>2. LiveOK'
      BY <2>1 DEF GateInv, LiveOK
    <2>3. \A i \in Items : Standing(i)' = Standing(i)
      BY <2>1, StandingRead
    <2>. QED  BY <2>1, <2>2, <2>3, Unseen
  <1>. QED  BY <1>1, <1>2, <1>3, CallUnseen, AbortAtGate, NoVictim, MidnightUnseen DEF Next, GateInv

LEMMA GateStart == Init => Gate!Init /\ LiveOK
  <1>. SUFFICES ASSUME Init PROVE Gate!Init /\ LiveOK
    OBVIOUS
  <1>1. \A s \in Sessions : session[s].op = "idle" /\ session[s].live = {}
    BY DEF Init, IdleSession
  <1>2. \A i \in Items : item[i] = NewItem
    BY DEF Init, NewItems
  <1>3. \A i \in Items : Standing(i) = "silent"
    BY <1>2, StandingRead DEF ReadAs, NewItem, Approved
  <1>. QED  BY <1>1, <1>3 DEF Init, Gate!Init, LiveOK

\* Serially, plans and their dispatches implement the abstract gate: a go-live is used up by
\* one attempt, whatever comes of it, and opened again only by a human or a mishap.
THEOREM DispatchImplementsGate == MaxOverlap = 1 => (Spec => ImplementsActionGate)
  <1>. SUFFICES ASSUME MaxOverlap = 1 PROVE Spec => ImplementsActionGate
    OBVIOUS
  <1>1. TypeInv /\ GoInv /\ SerialInv /\ LiveOK /\ [Next]_vars
          => LiveOK' /\ [Gate!Next]_(Gate!gate)
    BY GateStep DEF GateInv
  <1>2. Spec => [](TypeInv /\ SerialInv)
    BY SerialInvariant
  <1>3. Spec => []GoInv
    BY TypeInit, TypeStep, GoInit, GoStep, PTL DEF Spec
  <1>. QED  BY <1>1, <1>2, <1>3, GateStart, PTL DEF Spec, ImplementsActionGate, Gate!Spec

--------------------------------------------------------------------------------
(***************************************************************************)
(* What the gate is worth: any behaviour of it, however it comes about,    *)
(* performs at most once per go-live and mishap, and reports as done only  *)
(* what was performed.                                                     *)
(***************************************************************************)
GateKeeps ==
  /\ grants \in [Items -> Nat] /\ effects \in [Items -> Nat] /\ faults \in Nat
  /\ \A i \in Items :
       /\ effects[i] <= grants[i] + faults
       /\ Standing(i) = "go" => effects[i] < grants[i] + faults
       /\ Standing(i) \in {"tried", "done"} => effects[i] > 0

LEMMA GateBegins == Gate!Init => GateKeeps
  <1>. SUFFICES ASSUME Gate!Init PROVE GateKeeps
    OBVIOUS
  <1>1. \A i \in Items : Standing(i) = "silent"
    <2>1. ASSUME NEW i \in Items PROVE [k \in Items |-> Standing(k)][i] = "silent"
      BY DEF Gate!Init
    <2>. QED  BY <2>1
  <1>2. effects = [i \in Items |-> 0] /\ grants = [i \in Items |-> 0] /\ faults = 0
    BY DEF Gate!Init
  <1>. QED  BY <1>1, <1>2 DEF GateKeeps

\* An attempt uses up a word, whatever comes of it.
LEMMA AttemptKeeps ==
  ASSUME GateKeeps, NEW i \in Items, NEW outcome \in {"tried", "missed"},
         NEW n \in Nat, NEW lost \in Nat, Gate!Attempt(i, outcome, n, lost),
         n <= lost + 1, outcome = "tried" => n > 0, outcome = "missed" => n <= lost
  PROVE  GateKeeps'
  <1>1. /\ Standing(i) = "go"
        /\ effects' = [effects EXCEPT ![i] = @ + n] /\ faults' = faults + lost
        /\ grants' = grants
    BY DEF Gate!Attempt
  <1>2. ASSUME NEW k \in Items PROVE Standing(k)' = IF k = i THEN outcome ELSE Standing(k)
    <2>1. [j \in Items |-> Standing(j)'][k]
            = [[j \in Items |-> Standing(j)] EXCEPT ![i] = outcome][k]
      BY DEF Gate!Attempt
    <2>. QED  BY <2>1
  <1>3. ASSUME NEW k \in Items
        PROVE  /\ effects'[k] <= grants'[k] + faults'
               /\ Standing(k)' = "go" => effects'[k] < grants'[k] + faults'
               /\ Standing(k)' \in {"tried", "done"} => effects'[k] > 0
    BY <1>1, <1>2 DEF GateKeeps
  <1>4. grants' \in [Items -> Nat] /\ effects' \in [Items -> Nat] /\ faults' \in Nat
    BY <1>1 DEF GateKeeps
  <1>. QED  BY <1>3, <1>4 DEF GateKeeps

\* A word that is given, or not used after all, allows one performance more.
LEMMA WordKeeps ==
  ASSUME GateKeeps, effects' = effects, NEW more \in [Items -> Nat], NEW lost \in Nat,
         grants' = [i \in Items |-> grants[i] + more[i]], faults' = faults + lost,
         \A i \in Items : Standing(i)' = "go" => Standing(i) = "go" \/ more[i] + lost > 0,
         \A i \in Items : Standing(i)' \in {"tried", "done"} => Standing(i) \in {"tried", "done"}
  PROVE  GateKeeps'
  <1>1. ASSUME NEW i \in Items
        PROVE  /\ effects'[i] <= grants'[i] + faults'
               /\ Standing(i)' = "go" => effects'[i] < grants'[i] + faults'
               /\ Standing(i)' \in {"tried", "done"} => effects'[i] > 0
    <2>1. effects[i] \in Nat /\ grants[i] \in Nat /\ more[i] \in Nat /\ faults \in Nat
      BY DEF GateKeeps
    <2>2. grants'[i] = grants[i] + more[i]
      OBVIOUS
    <2>. QED  BY <2>1, <2>2 DEF GateKeeps
  <1>2. grants' \in [Items -> Nat] /\ effects' \in [Items -> Nat] /\ faults' \in Nat
    BY DEF GateKeeps
  <1>. QED  BY <1>1, <1>2 DEF GateKeeps

LEMMA GateStepKeeps == GateKeeps /\ [Gate!Next]_(Gate!gate) => GateKeeps'
  <1>. SUFFICES ASSUME GateKeeps, [Gate!Next]_(Gate!gate) PROVE GateKeeps'
    OBVIOUS
  <1>. DEFINE none == [i \in Items |-> 0]
  <1>1. ASSUME NEW P \in SUBSET Plans, NEW L \in SUBSET Items, NEW Q \in SUBSET Items,
               Gate!Speak(P, L, Q)
        PROVE  GateKeeps'
    <2>. DEFINE more == [i \in Items |-> IF i \in L THEN 1 ELSE 0]
    <2>1. ASSUME NEW i \in Items
          PROVE  Standing(i)' = IF i \in L THEN "go" ELSE IF i \in Q THEN "silent" ELSE Standing(i)
      <3>1. [j \in Items |-> Standing(j)'][i] = [j \in Items |->
              IF j \in L THEN "go" ELSE IF j \in Q THEN "silent" ELSE Standing(j)][i]
        BY <1>1 DEF Gate!Speak
      <3>. QED  BY <3>1
    <2>2. grants' = [i \in Items |-> grants[i] + more[i]]
      BY <1>1 DEF Gate!Speak, GateKeeps
    <2>3. effects' = effects /\ faults' = faults + 0
      BY <1>1 DEF Gate!Speak, GateKeeps
    <2>4. \A i \in Items : Standing(i)' = "go" => Standing(i) = "go" \/ more[i] + 0 > 0
      BY <2>1
    <2>5. \A i \in Items : Standing(i)' \in {"tried", "done"} => Standing(i) \in {"tried", "done"}
      BY <2>1
    <2>6. more \in [Items -> Nat]
      OBVIOUS
    <2>. HIDE DEF more
    <2>. QED  BY <2>2, <2>3, <2>4, <2>5, <2>6, WordKeeps
  <1>2. ASSUME NEW i \in Items, Gate!Perform(i) PROVE GateKeeps'
    <2>1. PICK lost \in 0 .. MaxPosts - 1 : Gate!Attempt(i, "tried", lost + 1, lost)
      BY <1>2 DEF Gate!Perform
    <2>2. lost \in Nat /\ lost + 1 \in Nat
      BY DispatchAssumption
    <2>. QED  BY <2>1, <2>2, AttemptKeeps
  <1>3. ASSUME NEW i \in Items, Gate!Miss(i) PROVE GateKeeps'
    <2>1. PICK lost \in 0 .. MaxPosts : Gate!Attempt(i, "missed", lost, lost)
      BY <1>3 DEF Gate!Miss
    <2>2. lost \in Nat
      BY DispatchAssumption
    <2>. QED  BY <2>1, <2>2, AttemptKeeps
  <1>4. CASE Gate!Report
    <2>1. ASSUME NEW i \in Items
          PROVE  Standing(i)' = IF Standing(i) = "tried" THEN "done"
                                ELSE IF Standing(i) = "missed" THEN "silent" ELSE Standing(i)
      <3>1. [j \in Items |-> Standing(j)'][i] = [j \in Items |->
              IF Standing(j) = "tried" THEN "done"
              ELSE IF Standing(j) = "missed" THEN "silent" ELSE Standing(j)][i]
        BY <1>4 DEF Gate!Report
      <3>. QED  BY <3>1
    <2>2. grants' = [i \in Items |-> grants[i] + none[i]] /\ effects' = effects
          /\ faults' = faults + 0
      BY <1>4 DEF Gate!Report, GateKeeps
    <2>3. none \in [Items -> Nat]
      OBVIOUS
    <2>. HIDE DEF none
    <2>. QED  BY <2>1, <2>2, <2>3, WordKeeps
  <1>5. CASE Gate!Mishap
    <2>1. ASSUME NEW i \in Items
          PROVE  Standing(i)' = IF Standing(i) \in {"tried", "missed"} THEN "go" ELSE Standing(i)
      <3>1. [j \in Items |-> Standing(j)'][i] = [j \in Items |->
              IF Standing(j) \in {"tried", "missed"} THEN "go" ELSE Standing(j)][i]
        BY <1>5 DEF Gate!Mishap
      <3>. QED  BY <3>1
    <2>2. grants' = [i \in Items |-> grants[i] + none[i]] /\ effects' = effects
          /\ faults' = faults + 1
      BY <1>5 DEF Gate!Mishap, GateKeeps
    <2>3. none \in [Items -> Nat] /\ \A i \in Items : none[i] + 1 > 0
      OBVIOUS
    <2>. HIDE DEF none
    <2>. QED  BY <2>1, <2>2, <2>3, WordKeeps
  <1>6. CASE UNCHANGED Gate!gate
    <2>1. ASSUME NEW i \in Items PROVE Standing(i)' = Standing(i)
      <3>1. [j \in Items |-> Standing(j)'][i] = [j \in Items |-> Standing(j)][i]
        BY <1>6 DEF Gate!gate
      <3>. QED  BY <3>1
    <2>. QED  BY <1>6, <2>1 DEF Gate!gate, GateKeeps
  <1>. QED  BY <1>1, <1>2, <1>3, <1>4, <1>5, <1>6 DEF Gate!Next

\* A dispatch that implements the gate, serial or not, performs an item at most once per
\* go-live and mishap, and what reads done and live was performed.
THEOREM GateKeepsItsWord == ImplementsActionGate => [](OneEffectPerGo /\ DoneMeansDone)
  <1>1. GateKeeps => OneEffectPerGo /\ DoneMeansDone
    <2>. SUFFICES ASSUME GateKeeps PROVE OneEffectPerGo /\ DoneMeansDone
      OBVIOUS
    <2>1. ASSUME NEW i \in Items, item[i].status = "done" /\ ~item[i].dry
          PROVE  Standing(i) = "done"
      BY <2>1 DEF Standing, Approved
    <2>. QED  BY <2>1 DEF GateKeeps, OneEffectPerGo, DoneMeansDone
  <1>. QED  BY <1>1, GateBegins, GateStepKeeps, PTL DEF ImplementsActionGate, Gate!Spec

================================================================================
