------------------------------- MODULE ActionGate -------------------------------
(***************************************************************************)
(* What the dispatch of a plan promises the humans who approve its items.  *)
(* A go-live is good for one performance: it is used up by the attempt,    *)
(* whether that succeeds or not, and reported.  It is open again only if a *)
(* mishap swallows the report, and an action is repeated only within one   *)
(* attempt, for an answer that was lost.  PlanDispatch implements this as  *)
(* long as its transactions do not overlap.                                *)
(***************************************************************************)
EXTENDS Naturals

CONSTANTS
  Plans,
  Items,
  PlanOf,   \* the plan of an item
  Stopped,  \* nothing may be performed at all
  Tries     \* how often one attempt may send its request

VARIABLES
  allowed,    \* plans that a human approved
  word,       \* what stands for an item
  goes,       \* how often a human has set an item live
  performed,  \* how often it was performed outside
  mishaps     \* answers and reports that were lost

gate == <<allowed, word, goes, performed, mishaps>>

\* "go": a human's word that nothing has used yet.  "tried" and "missed": an attempt has used
\* it, and succeeded or not, but this is not reported.  "done": reported as performed.
Words == {"silent", "go", "tried", "missed", "done"}

Init ==
  /\ allowed = {}
  /\ word = [i \in Items |-> "silent"]
  /\ goes = [i \in Items |-> 0]
  /\ performed = [i \in Items |-> 0]
  /\ mishaps = 0

\* Humans approve the plans P, set the items L live, and call off or put back the items Q.
\* Nobody speaks between an attempt and its report.
Speak(P, L, Q) ==
  /\ \A i \in Items : word[i] \notin {"tried", "missed"}
  /\ allowed' = allowed \cup P
  /\ goes' = [i \in Items |-> IF i \in L THEN goes[i] + 1 ELSE goes[i]]
  /\ word' = [i \in Items |-> IF i \in L THEN "go" ELSE IF i \in Q THEN "silent" ELSE word[i]]
  /\ UNCHANGED <<performed, mishaps>>

\* An attempt at item i, performed outside n times, of which the answers to lost went astray.
Attempt(i, outcome, n, lost) ==
  /\ word[i] = "go" /\ PlanOf[i] \in allowed
  /\ Stopped => n = 0
  /\ word' = [word EXCEPT ![i] = outcome]
  /\ performed' = [performed EXCEPT ![i] = @ + n]
  /\ mishaps' = mishaps + lost
  /\ UNCHANGED <<allowed, goes>>

\* The last answer arrives.
Perform(i) == \E lost \in 0 .. Tries - 1 : Attempt(i, "tried", lost + 1, lost)

\* None does.
Miss(i) == \E lost \in 0 .. Tries : Attempt(i, "missed", lost, lost)

\* The attempts are reported: what was performed is done, what was not needs another word.
Report ==
  /\ word' = [i \in Items |-> IF word[i] = "tried" THEN "done"
                              ELSE IF word[i] = "missed" THEN "silent" ELSE word[i]]
  /\ UNCHANGED <<allowed, goes, performed, mishaps>>

\* The report is lost, and with it that the words were used.
Mishap ==
  /\ word' = [i \in Items |-> IF word[i] \in {"tried", "missed"} THEN "go" ELSE word[i]]
  /\ mishaps' = mishaps + 1
  /\ UNCHANGED <<allowed, goes, performed>>

Next ==
  \/ \E P \in SUBSET Plans, L, Q \in SUBSET Items : Speak(P, L, Q)
  \/ \E i \in Items : Perform(i) \/ Miss(i)
  \/ Report
  \/ Mishap

Spec == Init /\ [][Next]_gate
================================================================================
