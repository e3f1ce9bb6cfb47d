----------------------------- MODULE EditorialGate -----------------------------
(***************************************************************************)
(* What the content pipeline promises the editors, and nothing else: items *)
(* are only made under an approved request, an item is cleared only after  *)
(* it was made, and it leaves the house only after it was cleared.         *)
(* ContentPipeline implements this under every interleaving of its         *)
(* transactions, however stale the rows they hold.                         *)
(***************************************************************************)
CONSTANT Items

VARIABLES
  opened,   \* a human approved the request
  made,     \* items that exist
  cleared,  \* items a human approved a preview of
  out       \* items pushed to the CMS or handed off

gate == <<opened, made, cleared, out>>

Init == ~opened /\ made = {} /\ cleared = {} /\ out = {}

\* A human approves the request, which makes the items S.
Approve(S) ==
  /\ opened' = TRUE
  /\ made' = made \cup S
  /\ UNCHANGED <<cleared, out>>

\* A human approves the preview of an item.
Clear(i) ==
  /\ i \in made
  /\ cleared' = cleared \cup {i}
  /\ UNCHANGED <<opened, made, out>>

\* A human sends a cleared item out.
Release(i) ==
  /\ i \in cleared
  /\ out' = out \cup {i}
  /\ UNCHANGED <<opened, made, cleared>>

Next ==
  \/ \E S \in SUBSET Items : Approve(S)
  \/ \E i \in Items : Clear(i) \/ Release(i)

Spec == Init /\ [][Next]_gate
================================================================================
