-------------------------------- MODULE MCDesk --------------------------------
(* Small instances of the components around the pipeline.  They share no rows, so a   *)
(* behaviour exercises one of them: part says which.                                   *)
EXTENDS TrendScout, MemoryStore, ArtifactReview, TLC

CONSTANTS
  Parts,   \* the components that a run exercises
  Beside   \* drafts that only part "storage" touches, where requests only read and score

Interchangeable == Permutations(Writers) \cup Permutations(Topics) \cup Permutations(Reviewers)

VARIABLE part

deskVars == <<part, scoutVars, memoryVars, reviewVars>>

Init ==
  /\ part \in Parts
  /\ ScoutInit
  /\ MemoryInit
  /\ ReviewInit

Next ==
  /\ UNCHANGED part
  /\ \/ part = "scout"  /\ ScoutNext  /\ UNCHANGED <<memoryVars, reviewVars>>
     \/ part = "memory" /\ MemoryNext /\ UNCHANGED <<scoutVars, reviewVars>>
     \/ /\ part = "review" /\ ReviewNext /\ UNCHANGED <<scoutVars, memoryVars>>
        /\ \A j \in Beside : drafts'[j] = drafts[j]
     \/ /\ part = "storage" /\ ReviewNext /\ UNCHANGED <<scoutVars, memoryVars>>
        /\ \A r \in Reviewers : review'[r].op \in {"none", "view"}

Spec == Init /\ [][Next]_deskVars

\* Type invariant of the three components.
DeskTypeOK == ScoutTypeOK /\ MemoryTypeOK /\ ReviewTypeOK
================================================================================
