----------------------------- MODULE MCPlanDispatch -----------------------------
(* Small instances of PlanDispatch: plans, costs and caps for the .cfg files. *)
EXTENDS PlanDispatch

\* Two items of one plan.
OnePlan  == [i \in {1, 2} |-> "p"]

\* Actions that spend nothing metered.
Free == [i \in {1, 2} |-> 0]

\* The second item costs more: with the larger cap, only one of the two fits.
RisingCost == [i \in {1, 2} |-> i]

\* Two caps that bind differently, and caps switched off.
Caps == {[on |-> TRUE, day |-> 1], [on |-> TRUE, day |-> 2], [on |-> FALSE, day |-> 1]}

\* The caps stay as shipped.
Shipped == {[on |-> TRUE, day |-> 1]}
================================================================================
