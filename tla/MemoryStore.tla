------------------------------ MODULE MemoryStore ------------------------------
(***************************************************************************)
(* Shared memory (memory/store.py), the only channel between the agents:   *)
(* what they observe, the scout's flags and dossier claims, the Research   *)
(* agent's fact gate, and the two sweeps.  Each writer is a session of its *)
(* own; a gate run holds one over all its web searches.                    *)
(*                                                                         *)
(* An entry is about a topic: a statement for a claim or a fact, a trend   *)
(* for a flag, and (brand, type, source_system, kind) for a snapshot, that *)
(* is a metric, context, report or distribution draft.  created_at is the  *)
(* start of the transaction that wrote it.                                 *)
(***************************************************************************)
EXTENDS Naturals, FiniteSets

CONSTANTS
  Writers,     \* sessions that write memory
  Topics,      \* statements, trends, snapshot groups
  MaxEntries,  \* bound: rows that may be inserted
  MaxStarts,   \* bound: transactions that may begin
  MaxVerify    \* _MAX_VERIFY_PER_RUN

ASSUME MemoryAssumption ==
  /\ MaxEntries \in Nat
  /\ MaxStarts \in Nat
  /\ MaxVerify \in Nat

VARIABLES
  entries,       \* the memory_entry rows
  writing,       \* the transaction each writer has open
  lapsed,        \* entries past their expires_at
  confirmed,     \* history: claims that a web search confirmed
  starts,        \* transactions begun: the clock behind created_at
  given,         \* the id sequence
  memOverlapped  \* history: two transactions have been open at once

memoryVars == <<entries, writing, lapsed, confirmed, starts, given, memOverlapped>>

EntryIds == 1 .. MaxEntries
NoEntry  == 0

EntryType   == {"claim", "fact", "flag", "snapshot"}
EntryStatus == {"active", "expired", "superseded"}

\* of: the claim that a fact was verified from.
Entry == [type : EntryType, about : Topics, verified : BOOLEAN, status : EntryStatus,
          at : 0 .. MaxStarts, of : EntryIds \cup {NoEntry}]

\* mine: rows inserted and not committed.  gone: rows superseded and not committed.
\* todo: pending claims that a gate run has loaded.
Writing == [open : BOOLEAN, at : 0 .. MaxStarts, mine : SUBSET (EntryIds \X Entry),
            gone : SUBSET EntryIds, todo : SUBSET EntryIds]

NotWriting == [open |-> FALSE, at |-> 0, mine |-> {}, gone |-> {}, todo |-> {}]

\* entries is a function from the ids of the committed rows.
MemoryInit ==
  /\ entries = [e \in {} |-> {}]
  /\ writing = [s \in Writers |-> NotWriting]
  /\ lapsed = {}
  /\ confirmed = {}
  /\ starts = 0
  /\ given = 0
  /\ memOverlapped = FALSE

--------------------------------------------------------------------------------
OpenWriters == {s \in Writers : writing[s].open}

StartWriting(s) ==
  /\ ~writing[s].open
  /\ starts < MaxStarts
  /\ starts' = starts + 1
  /\ writing' = [writing EXCEPT ![s] = [NotWriting EXCEPT !.open = TRUE, !.at = starts + 1]]
  /\ memOverlapped' = (memOverlapped \/ OpenWriters # {})
  /\ UNCHANGED <<entries, lapsed, confirmed, given>>

\* Rows that a session other than s has superseded and not committed are locked.
LockedFor(s) == UNION {writing[u].gone : u \in Writers \ {s}}

\* Active entries that a query of s returns, of a type and about a topic: committed ones
\* that it has not superseded, and its own.
ActiveFor(s, type, topics) ==
  {e \in DOMAIN entries \ writing[s].gone :
     entries[e].type = type /\ entries[e].about \in topics /\ entries[e].status = "active"}
  \cup {m[1] : m \in {m \in writing[s].mine : /\ m[2].type = type /\ m[2].about \in topics
                                              /\ m[1] \notin writing[s].gone}}

\* (mutant: whoever writes a fact is believed)
FactGateOpen(type, verified, ok) == [type |-> type, verified |-> verified]

\* (mutant: the downgraded fact gets a type that the enum lacks)
FactGateNewType(type, verified, ok) ==
  IF verified /\ ~ok THEN [type |-> "unverified", verified |-> FALSE]
  ELSE [type |-> type, verified |-> verified]

\* _apply_fact_gate: a verified entry is only taken from the gate; from anybody else it is
\* not verified, and a fact is a claim.
FactGate(type, verified, ok) ==
  IF verified /\ ~ok THEN [type |-> IF type = "fact" THEN "claim" ELSE type, verified |-> FALSE]
  ELSE [type |-> type, verified |-> verified]

\* MemoryStore.write, and supersede for the rows in old.
Write(s, type, topic, verified, ok, of, old) ==
  LET gate == FactGate(type, verified, ok)
      row  == [type |-> gate.type, about |-> topic, verified |-> gate.verified,
               status |-> "active", at |-> writing[s].at, of |-> of]
  IN  /\ writing[s].open
      /\ given + 1 \in EntryIds
      /\ old \cap LockedFor(s) = {}
      /\ given' = given + 1
      /\ writing' = [writing EXCEPT ![s].mine = @ \cup {<<given + 1, row>>},
                                    ![s].gone = @ \cup old]
      /\ UNCHANGED <<entries, lapsed, starts, memOverlapped>>

\* An adapter's drafts are persisted, a feeder writes its findings, the dossier its key facts
\* as claims: whatever they say, without the gate's authority.
Observe(s, type, topic, verified) ==
  /\ type \in {"claim", "fact", "snapshot"}
  /\ Write(s, type, topic, verified, FALSE, NoEntry, {})
  /\ UNCHANGED confirmed

\* TrendScout._write_flag: the trend's earlier flags are superseded.
FlagTrend(s, topic) ==
  /\ Write(s, "flag", topic, FALSE, FALSE, NoEntry, ActiveFor(s, "flag", {topic}))
  /\ UNCHANGED confirmed

\* The gate loads the newest pending claims.
LoadPending(s) ==
  LET C == ActiveFor(s, "claim", Topics)
      Born(e) == IF e \in DOMAIN entries THEN entries[e].at ELSE writing[s].at
  IN  /\ writing[s].open
      /\ writing[s].todo = {}
      /\ \E T \in SUBSET C :
           /\ T # {}
           /\ Cardinality(T) = IF Cardinality(C) < MaxVerify THEN Cardinality(C) ELSE MaxVerify
           /\ \A e \in T, f \in C \ T : Born(f) <= Born(e)
           /\ writing' = [writing EXCEPT ![s].todo = T]
      /\ UNCHANGED <<entries, lapsed, confirmed, starts, given, memOverlapped>>

AboutOf(s, e) ==
  IF e \in DOMAIN entries THEN entries[e].about
  ELSE (CHOOSE m \in writing[s].mine : m[1] = e)[2].about

\* (mutant: the claim is left pending beside its fact)
ConfirmKeepsClaim(s, e) ==
  /\ e \in writing[s].todo
  /\ Write(s, "fact", AboutOf(s, e), TRUE, TRUE, e, {})
  /\ confirmed' = confirmed \cup {e}

\* The search confirms a claim: a verified fact, and the claim is superseded, whatever has
\* become of it since it was loaded.
Confirm(s, e) ==
  /\ e \in writing[s].todo
  /\ Write(s, "fact", AboutOf(s, e), TRUE, TRUE, e, {e})
  /\ confirmed' = confirmed \cup {e}

\* The loop is done, or the search confirms no more of the claims: they stay claims.
EndGate(s) ==
  /\ writing[s].todo # {}
  /\ writing' = [writing EXCEPT ![s].todo = {}]
  /\ UNCHANGED <<entries, lapsed, confirmed, starts, given, memOverlapped>>

VerifyNext(s, e) == e \notin writing[s].gone /\ Confirm(s, e)

OwnRows(s) == {m[1] : m \in writing[s].mine}

CommitWriting(s) ==
  LET w == writing[s]
      row(e) == IF e \in OwnRows(s) THEN (CHOOSE m \in w.mine : m[1] = e)[2] ELSE entries[e]
  IN  /\ w.open
      /\ entries' = [e \in DOMAIN entries \cup OwnRows(s) |->
                       IF e \in w.gone THEN [row(e) EXCEPT !.status = "superseded"] ELSE row(e)]
      /\ writing' = [writing EXCEPT ![s] = NotWriting]
      /\ UNCHANGED <<lapsed, confirmed, starts, given, memOverlapped>>

RollbackWriting(s) ==
  /\ writing[s].open
  /\ writing' = [writing EXCEPT ![s] = NotWriting]
  /\ UNCHANGED <<entries, lapsed, confirmed, starts, given, memOverlapped>>

--------------------------------------------------------------------------------
\* The sweeps are an UPDATE and a commit each; they wait for rows that are locked.
UpdateStatus(E, status) ==
  /\ E # {}
  /\ E \cap UNION {writing[u].gone : u \in Writers} = {}
  /\ entries' = [e \in DOMAIN entries |->
                   IF e \in E THEN [entries[e] EXCEPT !.status = status] ELSE entries[e]]
  /\ UNCHANGED <<writing, lapsed, confirmed, starts, given, memOverlapped>>

Active == {e \in DOMAIN entries : entries[e].status = "active"}

\* expire_stale, hourly and at the start of each morning cycle.
SweepExpired == UpdateStatus(Active \cap lapsed, "expired")

Snapshots == {e \in Active : entries[e].type = "snapshot"}

\* (mutant: ORDER BY created_at without DESC)
KeepsOldest(K) ==
  /\ \A e \in Snapshots : \E k \in K : entries[k].about = entries[e].about
  /\ \A k \in K, e \in Snapshots :
       entries[e].about = entries[k].about => entries[k].at <= entries[e].at

\* DISTINCT ON a group, newest first: ties are broken either way.
KeepsNewest(K) ==
  /\ \A e \in Snapshots : \E k \in K : entries[k].about = entries[e].about
  /\ \A k \in K, e \in Snapshots :
       entries[e].about = entries[k].about => entries[e].at <= entries[k].at

\* supersede_duplicates, once a day.
SweepDuplicates ==
  \E K \in SUBSET Snapshots :
    /\ KeepsNewest(K)
    /\ \A k, l \in K : entries[k].about = entries[l].about => k = l
    /\ UpdateStatus(Snapshots \ K, "superseded")

\* Time: an entry passes its expires_at; a fact has none.
Lapse(e) ==
  /\ e \in DOMAIN entries \ lapsed
  /\ entries[e].type # "fact"
  /\ lapsed' = lapsed \cup {e}
  /\ UNCHANGED <<entries, writing, confirmed, starts, given, memOverlapped>>

WriterStep(s) ==
  \/ StartWriting(s)
  \/ \E type \in {"claim", "fact", "snapshot"}, topic \in Topics, verified \in BOOLEAN :
       Observe(s, type, topic, verified)
  \/ \E topic \in Topics : FlagTrend(s, topic)
  \/ LoadPending(s)
  \/ \E e \in EntryIds : VerifyNext(s, e)
  \/ EndGate(s)
  \/ CommitWriting(s) \/ RollbackWriting(s)

MemoryNext ==
  \/ \E s \in Writers : WriterStep(s)
  \/ SweepExpired \/ SweepDuplicates
  \/ \E e \in EntryIds : Lapse(e)

MemorySpec == MemoryInit /\ [][MemoryNext]_memoryVars

--------------------------------------------------------------------------------
\* Type invariant.
MemoryTypeOK ==
  /\ DOMAIN entries \subseteq EntryIds
  /\ \A e \in DOMAIN entries : entries[e] \in Entry
  /\ \A s \in Writers :
       /\ writing[s].open \in BOOLEAN /\ writing[s].at \in 0 .. MaxStarts
       /\ \A m \in writing[s].mine : m[1] \in EntryIds /\ m[2] \in Entry
       /\ writing[s].gone \subseteq EntryIds /\ writing[s].todo \subseteq EntryIds
  /\ lapsed \subseteq DOMAIN entries
  /\ confirmed \subseteq EntryIds
  /\ starts \in 0 .. MaxStarts /\ given \in 0 .. MaxEntries
  /\ memOverlapped \in BOOLEAN

\* "search-confirmed or it's a claim" (agents/research.py:7): however the writers overlap,
\* what is verified is a fact the gate took from a claim that a search confirmed, and that
\* claim is no longer pending.
FactsAreConfirmed ==
  \A e \in DOMAIN entries :
    entries[e].verified
      => /\ entries[e].type = "fact" /\ entries[e].of \in confirmed
         /\ entries[e].of \in DOMAIN entries
         /\ entries[entries[e].of].type = "claim"
         /\ entries[entries[e].of].about = entries[e].about
         /\ entries[entries[e].of].status = "superseded"

\* Writers that do not overlap promote a claim once, and keep one flag per trend ("so repeat
\* scans don't pile them up", scout.py:468).
NothingTwice ==
  ~memOverlapped =>
    \A e, f \in DOMAIN entries :
      e # f /\ entries[e].type = entries[f].type
        => /\ entries[e].verified /\ entries[f].verified => entries[e].of # entries[f].of
           /\ entries[e].type = "flag" /\ entries[e].about = entries[f].about
                => ~(entries[e].status = "active" /\ entries[f].status = "active")

\* latest() answers with the newest snapshot of a group until that one lapses: the sweep for
\* duplicates, run at any moment and with transactions that commit out of order, never leaves
\* an older one, or none, in its place.
NewestServed ==
  \A e \in DOMAIN entries :
    entries[e].type = "snapshot" =>
      \E n \in DOMAIN entries :
        /\ entries[n].type = "snapshot" /\ entries[n].about = entries[e].about
        /\ entries[n].at >= entries[e].at
        /\ entries[n].status = "active" \/ n \in lapsed

================================================================================
