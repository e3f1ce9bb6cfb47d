-------------------------- MODULE MemoryStore_proofs --------------------------
(***************************************************************************)
(* Theorems about MemoryStore, for any number of writers, topics and       *)
(* entries, however the writers' transactions overlap.                     *)
(***************************************************************************)
EXTENDS MemoryStore, TLAPS

TypeInv == MemoryTypeOK /\ writing \in [Writers -> Writing]

\* The row that Write inserts.
NewRow(s, type, topic, verified, ok, of) ==
  [type |-> FactGate(type, verified, ok).type, about |-> topic,
   verified |-> FactGate(type, verified, ok).verified,
   status |-> "active", at |-> writing[s].at, of |-> of]

\* What a session has written becomes this much more.
Adds(s, row, old) ==
  /\ given + 1 \in EntryIds /\ given' = given + 1
  /\ writing' = [writing EXCEPT ![s].mine = @ \cup {<<given + 1, row>>},
                                ![s].gone = @ \cup old]
  /\ UNCHANGED <<entries, lapsed, starts, memOverlapped>>

LEMMA GateTyped ==
  ASSUME NEW type \in EntryType, NEW verified \in BOOLEAN, NEW ok \in BOOLEAN
  PROVE  /\ FactGate(type, verified, ok).type \in EntryType
         /\ FactGate(type, verified, ok).verified \in BOOLEAN
         /\ ~ok => ~FactGate(type, verified, ok).verified
         /\ ~verified => FactGate(type, verified, ok).type = type
         /\ ok => FactGate(type, verified, ok).type = type
         /\ type # "fact" => FactGate(type, verified, ok).type = type
  BY DEF FactGate, EntryType

LEMMA WriteAdds ==
  ASSUME NEW s \in Writers, NEW type \in EntryType, NEW topic \in Topics,
         NEW verified \in BOOLEAN, NEW ok \in BOOLEAN, NEW of \in EntryIds \cup {NoEntry},
         NEW old, TypeInv, Write(s, type, topic, verified, ok, of, old)
  PROVE  /\ Adds(s, NewRow(s, type, topic, verified, ok, of), old)
         /\ NewRow(s, type, topic, verified, ok, of) \in Entry
  <1>1. Adds(s, NewRow(s, type, topic, verified, ok, of), old)
    BY DEF Write, Adds, NewRow, TypeInv, Writing
  <1>2. writing[s].at \in 0 .. MaxStarts
    BY DEF TypeInv, Writing
  <1>3. NewRow(s, type, topic, verified, ok, of) \in Entry
    BY <1>2, GateTyped DEF NewRow, Entry, EntryStatus
  <1>. QED  BY <1>1, <1>3

\* Session s sees a row e of a type and about a topic, committed or its own.
Knows(s, e, type, topic) ==
  \/ e \in DOMAIN entries /\ entries[e].type = type /\ entries[e].about = topic
  \/ \E m \in writing[s].mine : m[1] = e /\ m[2].type = type /\ m[2].about = topic

LEMMA ActiveForKnown ==
  ASSUME NEW s \in Writers, NEW type, NEW T \in SUBSET Topics, TypeInv, NEW e \in ActiveFor(s, type, T)
  PROVE  e \in EntryIds /\ \E topic \in T : Knows(s, e, type, topic)
  BY DEF ActiveFor, TypeInv, MemoryTypeOK, Knows

--------------------------------------------------------------------------------
(***************************************************************************)
(* Every step of a session is one of few kinds                             *)
(***************************************************************************)

LEMMA ObserveAdds ==
  ASSUME TypeInv, NEW s \in Writers, NEW type \in {"claim", "fact", "snapshot"},
         NEW topic \in Topics, NEW verified \in BOOLEAN, Observe(s, type, topic, verified)
  PROVE  \E row \in Entry : ~row.verified /\ row.status = "active" /\ Adds(s, row, {})
  <1>. DEFINE row == NewRow(s, type, topic, verified, FALSE, NoEntry)
  <1>1. type \in EntryType
    BY DEF EntryType
  <1>2. Adds(s, row, {}) /\ row \in Entry
    BY <1>1, WriteAdds DEF Observe
  <1>3. ~row.verified /\ row.status = "active"
    BY <1>1, GateTyped DEF NewRow
  <1>. QED  BY <1>2, <1>3

LEMMA FlagAdds ==
  ASSUME TypeInv, NEW s \in Writers, NEW topic \in Topics, FlagTrend(s, topic)
  PROVE  \E row \in Entry : /\ ~row.verified /\ row.status = "active"
                           /\ Adds(s, row, ActiveFor(s, "flag", {topic}))
  <1>. DEFINE row == NewRow(s, "flag", topic, FALSE, FALSE, NoEntry)
  <1>1. "flag" \in EntryType
    BY DEF EntryType
  <1>2. Adds(s, row, ActiveFor(s, "flag", {topic})) /\ row \in Entry
    BY <1>1, WriteAdds DEF FlagTrend
  <1>3. ~row.verified /\ row.status = "active"
    BY <1>1, GateTyped DEF NewRow
  <1>. QED  BY <1>2, <1>3

LEMMA AddsFields ==
  ASSUME TypeInv, NEW s \in Writers, NEW row, NEW old, Adds(s, row, old)
  PROVE  /\ writing'[s].mine = writing[s].mine \cup {<<given + 1, row>>}
         /\ writing'[s].gone = writing[s].gone \cup old
         /\ writing'[s].todo = writing[s].todo /\ writing'[s].open = writing[s].open
         /\ writing'[s].at = writing[s].at
         /\ \A u \in Writers \ {s} : writing'[u] = writing[u]
  BY DEF Adds, TypeInv, Writing

LEMMA AddsTyped ==
  ASSUME TypeInv, NEW s \in Writers, NEW row \in Entry, NEW old \in SUBSET EntryIds,
         Adds(s, row, old), confirmed' \subseteq EntryIds
  PROVE  TypeInv'
  <1>1. writing' \in [Writers -> Writing]
    <2>. DEFINE M == writing[s].mine \cup {<<given + 1, row>>}
                G == writing[s].gone \cup old
    <2>1. M \in SUBSET (EntryIds \X Entry) /\ G \in SUBSET EntryIds
      BY DEF TypeInv, Adds, Writing
    <2>2. writing' = [writing EXCEPT ![s].mine = M, ![s].gone = G]
      BY DEF Adds
    <2>. HIDE DEF M, G
    <2>3. [writing[s] EXCEPT !.mine = M, !.gone = G] \in Writing
      BY <2>1 DEF TypeInv, Writing
    <2>4. writing' = [writing EXCEPT ![s] = [writing[s] EXCEPT !.mine = M, !.gone = G]]
      BY <2>2 DEF TypeInv
    <2>. QED  BY <2>3, <2>4 DEF TypeInv
  <1>2. \A u \in Writers :
          /\ writing'[u].open \in BOOLEAN /\ writing'[u].at \in 0 .. MaxStarts
          /\ \A m \in writing'[u].mine : m[1] \in EntryIds /\ m[2] \in Entry
          /\ writing'[u].gone \subseteq EntryIds /\ writing'[u].todo \subseteq EntryIds
    BY <1>1 DEF Writing
  <1>3. given' \in 0 .. MaxEntries
    BY MemoryAssumption DEF Adds, EntryIds
  <1>. QED  BY <1>1, <1>2, <1>3 DEF TypeInv, MemoryTypeOK, Adds

\* A session that changes and inserts nothing.
LEMMA SessionTyped ==
  ASSUME TypeInv, NEW s \in Writers, NEW w \in Writing, writing' = [writing EXCEPT ![s] = w],
         UNCHANGED <<entries, lapsed, confirmed, given>>, starts' \in 0 .. MaxStarts,
         memOverlapped' \in BOOLEAN
  PROVE  TypeInv'
  <1>1. writing' \in [Writers -> Writing]
    BY DEF TypeInv
  <1>2. \A u \in Writers :
          /\ writing'[u].open \in BOOLEAN /\ writing'[u].at \in 0 .. MaxStarts
          /\ \A m \in writing'[u].mine : m[1] \in EntryIds /\ m[2] \in Entry
          /\ writing'[u].gone \subseteq EntryIds /\ writing'[u].todo \subseteq EntryIds
    BY <1>1 DEF Writing
  <1>. QED  BY <1>1, <1>2 DEF TypeInv, MemoryTypeOK

\* What a step of a session does, told by what it leaves.
StartsSession(s) ==
  /\ writing' = [writing EXCEPT ![s] = [NotWriting EXCEPT !.open = TRUE, !.at = starts + 1]]
  /\ UNCHANGED <<entries, lapsed, confirmed, given>>

\* The todo of a session changes to claims it can see.
Loads(s) ==
  \E T \in SUBSET ActiveFor(s, "claim", Topics) :
    /\ writing' = [writing EXCEPT ![s].todo = T]
    /\ UNCHANGED <<entries, lapsed, confirmed, starts, given, memOverlapped>>

LEMMA StartTyped ==
  ASSUME TypeInv, NEW s \in Writers, StartWriting(s) PROVE TypeInv' /\ StartsSession(s)
  <1>1. starts + 1 \in 0 .. MaxStarts
    BY MemoryAssumption DEF StartWriting, TypeInv, MemoryTypeOK
  <1>2. [NotWriting EXCEPT !.open = TRUE, !.at = starts + 1] \in Writing
    BY <1>1, MemoryAssumption DEF NotWriting, Writing
  <1>3. memOverlapped' \in BOOLEAN
    BY DEF StartWriting, TypeInv, MemoryTypeOK
  <1>4. StartsSession(s) /\ starts' = starts + 1
    BY DEF StartWriting, StartsSession
  <1>. QED  BY <1>1, <1>2, <1>3, <1>4, SessionTyped DEF StartsSession

LEMMA LoadsTyped ==
  ASSUME TypeInv, NEW s \in Writers, Loads(s) PROVE TypeInv'
  <1>1. PICK T \in SUBSET ActiveFor(s, "claim", Topics) :
          /\ writing' = [writing EXCEPT ![s].todo = T]
          /\ UNCHANGED <<entries, lapsed, confirmed, starts, given, memOverlapped>>
    BY DEF Loads
  <1>2. T \subseteq EntryIds
    BY ActiveForKnown
  <1>3. [writing[s] EXCEPT !.todo = T] \in Writing
    BY <1>2 DEF TypeInv, Writing
  <1>4. writing' = [writing EXCEPT ![s] = [writing[s] EXCEPT !.todo = T]]
    BY <1>1
  <1>. QED  BY <1>1, <1>3, <1>4, SessionTyped DEF TypeInv, MemoryTypeOK

LEMMA EndLoads ==
  ASSUME NEW s \in Writers, LoadPending(s) \/ EndGate(s) PROVE Loads(s)
  <1>1. {} \in SUBSET ActiveFor(s, "claim", Topics)
    OBVIOUS
  <1>. QED  BY <1>1 DEF LoadPending, EndGate, Loads

LEMMA RollbackTyped ==
  ASSUME TypeInv, NEW s \in Writers, RollbackWriting(s) PROVE TypeInv'
  <1>1. NotWriting \in Writing
    BY MemoryAssumption DEF NotWriting, Writing
  <1>. QED  BY <1>1, SessionTyped DEF RollbackWriting, TypeInv, MemoryTypeOK

--------------------------------------------------------------------------------
(***************************************************************************)
(* What a commit and a sweep make of the rows                              *)
(***************************************************************************)

\* Ids are given out once: those of rows that are not committed are new, and one session's.
FreshIds ==
  /\ \A e \in DOMAIN entries : e <= given
  /\ \A s \in Writers : \A m \in writing[s].mine : m[1] <= given /\ m[1] \notin DOMAIN entries
  /\ \A s, u \in Writers : \A m \in writing[s].mine, n \in writing[u].mine :
       m[1] = n[1] => s = u /\ m = n

\* A row is as it was but for its status.
Alike(row, old) ==
  /\ row \in Entry /\ row.type = old.type /\ row.about = old.about
  /\ row.verified = old.verified /\ row.at = old.at /\ row.of = old.of

LEMMA StatusOnly ==
  ASSUME NEW old \in Entry, NEW st \in EntryStatus
  PROVE  /\ Alike([old EXCEPT !.status = st], old) /\ [old EXCEPT !.status = st].status = st
         /\ Alike(old, old)
  BY DEF Alike, Entry

LEMMA CommitRows ==
  ASSUME TypeInv, FreshIds, NEW s \in Writers, CommitWriting(s)
  PROVE  /\ DOMAIN entries' = DOMAIN entries \cup OwnRows(s)
         /\ \A e \in DOMAIN entries :
              /\ Alike(entries'[e], entries[e])
              /\ entries'[e].status = IF e \in writing[s].gone THEN "superseded" ELSE entries[e].status
         /\ \A m \in writing[s].mine :
              /\ m[1] \in OwnRows(s) /\ Alike(entries'[m[1]], m[2])
              /\ entries'[m[1]].status = IF m[1] \in writing[s].gone THEN "superseded" ELSE m[2].status
  <1>. DEFINE row(e) == IF e \in OwnRows(s) THEN (CHOOSE m \in writing[s].mine : m[1] = e)[2] ELSE entries[e]
  <1>1. entries' = [e \in DOMAIN entries \cup OwnRows(s) |->
                     IF e \in writing[s].gone THEN [row(e) EXCEPT !.status = "superseded"] ELSE row(e)]
    BY DEF CommitWriting
  <1>2. \A e \in DOMAIN entries : row(e) = entries[e] /\ entries[e] \in Entry
    BY DEF FreshIds, OwnRows, TypeInv, MemoryTypeOK
  <1>3. \A m \in writing[s].mine : m[1] \in OwnRows(s) /\ row(m[1]) = m[2] /\ m[2] \in Entry
    <2>. TAKE m \in writing[s].mine
    <2>. DEFINE n == CHOOSE n \in writing[s].mine : n[1] = m[1]
    <2>1. n \in writing[s].mine /\ n[1] = m[1]
      OBVIOUS
    <2>2. n = m
      BY <2>1 DEF FreshIds
    <2>. QED  BY <2>2 DEF OwnRows, TypeInv, MemoryTypeOK
  <1>4. "superseded" \in EntryStatus
    BY DEF EntryStatus
  <1>. HIDE DEF row
  <1>5. ASSUME NEW e \in DOMAIN entries \cup OwnRows(s), row(e) \in Entry
        PROVE  /\ Alike(entries'[e], row(e))
               /\ entries'[e].status = IF e \in writing[s].gone THEN "superseded" ELSE row(e).status
    BY <1>1, <1>4, <1>5, StatusOnly
  <1>6. DOMAIN entries' = DOMAIN entries \cup OwnRows(s)
    BY <1>1
  <1>7. ASSUME NEW e \in DOMAIN entries
        PROVE  /\ Alike(entries'[e], entries[e])
               /\ entries'[e].status = IF e \in writing[s].gone THEN "superseded" ELSE entries[e].status
    BY <1>2, <1>5
  <1>8. ASSUME NEW m \in writing[s].mine
        PROVE  /\ m[1] \in OwnRows(s) /\ Alike(entries'[m[1]], m[2])
               /\ entries'[m[1]].status = IF m[1] \in writing[s].gone THEN "superseded" ELSE m[2].status
    BY <1>3, <1>5
  <1>. QED  BY <1>6, <1>7, <1>8

LEMMA CommitTyped ==
  ASSUME TypeInv, FreshIds, NEW s \in Writers, CommitWriting(s)
  PROVE  /\ TypeInv' /\ writing'[s] = NotWriting
         /\ \A u \in Writers \ {s} : writing'[u] = writing[u]
  <1>1. NotWriting \in Writing
    BY MemoryAssumption DEF NotWriting, Writing
  <1>2. writing' \in [Writers -> Writing]
    BY <1>1 DEF CommitWriting, TypeInv
  <1>3. \A u \in Writers :
          /\ writing'[u].open \in BOOLEAN /\ writing'[u].at \in 0 .. MaxStarts
          /\ \A m \in writing'[u].mine : m[1] \in EntryIds /\ m[2] \in Entry
          /\ writing'[u].gone \subseteq EntryIds /\ writing'[u].todo \subseteq EntryIds
    BY <1>2 DEF Writing
  <1>4. DOMAIN entries' \subseteq EntryIds /\ lapsed \subseteq DOMAIN entries'
    <2>1. OwnRows(s) \subseteq EntryIds
      BY DEF OwnRows, TypeInv, MemoryTypeOK
    <2>2. DOMAIN entries' = DOMAIN entries \cup OwnRows(s)
      BY CommitRows
    <2>. QED  BY <2>1, <2>2 DEF TypeInv, MemoryTypeOK
  <1>5. \A e \in DOMAIN entries' : entries'[e] \in Entry
    <2>. TAKE e \in DOMAIN entries'
    <2>1. CASE e \in DOMAIN entries
      BY <2>1, CommitRows DEF Alike
    <2>2. CASE e \in OwnRows(s)
      <3>1. PICK m \in writing[s].mine : m[1] = e
        BY <2>2 DEF OwnRows
      <3>. QED  BY <3>1, CommitRows DEF Alike
    <2>. QED  BY <2>1, <2>2, CommitRows
  <1>. QED  BY <1>2, <1>3, <1>4, <1>5 DEF CommitWriting, TypeInv, MemoryTypeOK

\* A sweep changes the status of active rows E.
Sweeps(E, st) ==
  /\ E \subseteq Active
  /\ DOMAIN entries' = DOMAIN entries
  /\ \A e \in DOMAIN entries :
       /\ Alike(entries'[e], entries[e])
       /\ entries'[e].status = IF e \in E THEN st ELSE entries[e].status
  /\ UNCHANGED <<writing, lapsed, confirmed, starts, given, memOverlapped>>

LEMMA UpdateSweeps ==
  ASSUME TypeInv, NEW E \in SUBSET Active, NEW st \in EntryStatus, UpdateStatus(E, st)
  PROVE  Sweeps(E, st) /\ TypeInv'
  <1>1. entries' = [e \in DOMAIN entries |->
                     IF e \in E THEN [entries[e] EXCEPT !.status = st] ELSE entries[e]]
    BY DEF UpdateStatus
  <1>2. ASSUME NEW e \in DOMAIN entries
        PROVE  /\ Alike(entries'[e], entries[e])
               /\ entries'[e].status = IF e \in E THEN st ELSE entries[e].status
    <2>1. entries[e] \in Entry
      BY DEF TypeInv, MemoryTypeOK
    <2>. QED  BY <1>1, <2>1, StatusOnly
  <1>3. DOMAIN entries' = DOMAIN entries
    BY <1>1
  <1>4. Sweeps(E, st)
    BY <1>2, <1>3 DEF Sweeps, UpdateStatus
  <1>5. TypeInv'
    BY <1>2, <1>3 DEF UpdateStatus, TypeInv, MemoryTypeOK, Alike
  <1>. QED  BY <1>4, <1>5

LEMMA SweepsSweep ==
  ASSUME TypeInv, SweepExpired \/ SweepDuplicates
  PROVE  \E E, st : st \in {"expired", "superseded"} /\ Sweeps(E, st) /\ TypeInv'
  <1>1. CASE SweepExpired
    <2>1. Active \cap lapsed \in SUBSET Active /\ "expired" \in EntryStatus
      BY DEF EntryStatus
    <2>. QED  BY <1>1, <2>1, UpdateSweeps DEF SweepExpired
  <1>2. CASE SweepDuplicates
    <2>1. PICK K \in SUBSET Snapshots : UpdateStatus(Snapshots \ K, "superseded")
      BY <1>2 DEF SweepDuplicates
    <2>2. Snapshots \ K \in SUBSET Active /\ "superseded" \in EntryStatus
      BY DEF EntryStatus, Snapshots
    <2>. QED  BY <2>1, <2>2, UpdateSweeps
  <1>. QED  BY <1>1, <1>2

--------------------------------------------------------------------------------
(***************************************************************************)
(* The invariant                                                           *)
(***************************************************************************)

\* What a gate run has loaded are claims.
TodoClaims ==
  \A s \in Writers : \A e \in writing[s].todo : \E topic \in Topics : Knows(s, e, "claim", topic)

\* Only claims and flags are superseded by a session.
GoneKnown ==
  \A s \in Writers : \A e \in writing[s].gone :
    \E type \in {"claim", "flag"}, topic \in Topics : Knows(s, e, type, topic)

\* A verified row that is not committed goes back to a claim that its session supersedes.
MineConfirmed ==
  \A s \in Writers : \A m \in writing[s].mine :
    /\ m[2].status = "active"
    /\ m[2].verified =>
         /\ m[2].type = "fact" /\ m[2].of \in confirmed /\ m[2].of \in writing[s].gone
         /\ Knows(s, m[2].of, "claim", m[2].about)

GateInv == FreshIds /\ TodoClaims /\ GoneKnown /\ MineConfirmed /\ FactsAreConfirmed

LEMMA MemoryInitially == MemoryInit => TypeInv /\ GateInv /\ NewestServed
  <1>. SUFFICES ASSUME MemoryInit PROVE TypeInv /\ GateInv /\ NewestServed
    OBVIOUS
  <1>1. DOMAIN entries = {}
    BY DEF MemoryInit
  <1>2. NotWriting \in Writing
    BY MemoryAssumption DEF NotWriting, Writing
  <1>3. \A s \in Writers : writing[s] = NotWriting
    BY DEF MemoryInit
  <1>4. TypeInv
    <2>1. writing \in [Writers -> Writing]
      BY <1>2 DEF MemoryInit
    <2>2. \A u \in Writers :
          /\ writing[u].open \in BOOLEAN /\ writing[u].at \in 0 .. MaxStarts
          /\ \A m \in writing[u].mine : m[1] \in EntryIds /\ m[2] \in Entry
          /\ writing[u].gone \subseteq EntryIds /\ writing[u].todo \subseteq EntryIds
      BY <2>1 DEF Writing
    <2>3. starts \in 0 .. MaxStarts /\ given \in 0 .. MaxEntries
      BY MemoryAssumption DEF MemoryInit
    <2>. QED  BY <1>1, <2>1, <2>2, <2>3 DEF MemoryInit, TypeInv, MemoryTypeOK
  <1>5. GateInv
    BY <1>1, <1>3 DEF NotWriting, GateInv, FreshIds, TodoClaims, GoneKnown, MineConfirmed,
                      FactsAreConfirmed
  <1>. QED  BY <1>1, <1>4, <1>5 DEF NewestServed

\* What a session sees stays, while committed rows are alike and its own stay.
LEMMA KnowsStays ==
  ASSUME NEW s, NEW e, NEW type, NEW topic, Knows(s, e, type, topic),
         \A f \in DOMAIN entries : f \in DOMAIN entries' /\ Alike(entries'[f], entries[f]),
         writing[s].mine \subseteq writing'[s].mine
  PROVE  Knows(s, e, type, topic)'
  BY DEF Knows, Alike

\* A session inserts a row: one that is not verified, or one that it took from a claim.
LEMMA AddsGate ==
  ASSUME TypeInv, GateInv, NEW s \in Writers, NEW row \in Entry, NEW old, Adds(s, row, old),
         confirmed \subseteq confirmed', row.status = "active",
         \A e \in old : \E type \in {"claim", "flag"}, topic \in Topics : Knows(s, e, type, topic),
         row.verified => /\ row.type = "fact" /\ row.of \in confirmed' /\ row.of \in old
                         /\ Knows(s, row.of, "claim", row.about)
  PROVE  GateInv'
  <1>1. \A f \in DOMAIN entries : f \in DOMAIN entries' /\ Alike(entries'[f], entries[f])
    BY DEF Adds, Alike, TypeInv, MemoryTypeOK
  <1>2. \A u \in Writers : writing[u].mine \subseteq writing'[u].mine
    BY AddsFields
  <1>3. \A u \in Writers : \A e, type, topic : Knows(u, e, type, topic) => Knows(u, e, type, topic)'
    BY <1>1, <1>2, KnowsStays
  <1>4. \A u \in Writers : \A m \in writing'[u].mine :
          m \in writing[u].mine \/ (u = s /\ m = <<given + 1, row>>)
    BY AddsFields
  <1>5. given \in Nat /\ given' = given + 1 /\ entries' = entries
    BY DEF Adds, TypeInv, MemoryTypeOK
  <1>6. FreshIds'
    <2>1. \A e \in DOMAIN entries : e <= given /\ e \in Nat
      BY DEF GateInv, FreshIds, TypeInv, MemoryTypeOK, EntryIds
    <2>2. \A u \in Writers : \A m \in writing[u].mine : m[1] <= given /\ m[1] \in Nat
      BY DEF GateInv, FreshIds, TypeInv, MemoryTypeOK, EntryIds
    <2>3. \A u, v \in Writers : \A m \in writing'[u].mine, n \in writing'[v].mine :
            m[1] = n[1] => u = v /\ m = n
      BY <1>4, <1>5, <2>2 DEF GateInv, FreshIds
    <2>4. \A u \in Writers : \A m \in writing'[u].mine : m[1] <= given' /\ m[1] \notin DOMAIN entries
      BY <1>4, <1>5, <2>1, <2>2 DEF GateInv, FreshIds
    <2>5. \A e \in DOMAIN entries : e <= given'
      BY <1>5, <2>1
    <2>. QED  BY <1>5, <2>3, <2>4, <2>5 DEF FreshIds
  <1>7. TodoClaims'
    BY <1>3, AddsFields DEF GateInv, TodoClaims
  <1>8. GoneKnown'
    <2>1. \A u \in Writers : \A e \in writing'[u].gone : e \in writing[u].gone \/ (u = s /\ e \in old)
      BY AddsFields
    <2>. QED  BY <1>3, <2>1 DEF GateInv, GoneKnown
  <1>9. MineConfirmed'
    <2>1. \A u \in Writers : writing[u].gone \subseteq writing'[u].gone
      BY AddsFields
    <2>2. old \subseteq writing'[s].gone
      BY AddsFields
    <2>3. ASSUME NEW u \in Writers, NEW m \in writing'[u].mine
          PROVE  /\ m[2].status = "active"
                 /\ m[2].verified =>
                      /\ m[2].type = "fact" /\ m[2].of \in confirmed' /\ m[2].of \in writing'[u].gone
                      /\ Knows(u, m[2].of, "claim", m[2].about)'
      <3>1. CASE m \in writing[u].mine
        BY <1>3, <2>1, <3>1 DEF GateInv, MineConfirmed
      <3>2. CASE u = s /\ m = <<given + 1, row>>
        BY <1>3, <2>2, <3>2
      <3>. QED  BY <1>4, <3>1, <3>2
    <2>. QED  BY <2>3 DEF MineConfirmed
  <1>10. FactsAreConfirmed'
    BY <1>5 DEF GateInv, FactsAreConfirmed
  <1>. QED  BY <1>6, <1>7, <1>8, <1>9, <1>10 DEF GateInv

\* Sessions change no row: one of them loads claims, or starts, or is given up.
LEMMA SessionGate ==
  ASSUME GateInv, UNCHANGED <<entries, confirmed, given>>,
         \A u \in Writers :
           \/ /\ writing'[u].mine = writing[u].mine /\ writing'[u].gone = writing[u].gone
              /\ \A e \in writing'[u].todo : \/ e \in writing[u].todo
                                              \/ \E topic \in Topics : Knows(u, e, "claim", topic)
           \/ writing'[u].mine = {} /\ writing'[u].gone = {} /\ writing'[u].todo = {}
  PROVE  GateInv'
  <1>1. FreshIds'
    <2>1. \A u \in Writers : writing'[u].mine \subseteq writing[u].mine
      OBVIOUS
    <2>. QED  BY <2>1 DEF GateInv, FreshIds
  <1>2. \A u \in Writers : \A e, type, topic :
          writing'[u].mine = writing[u].mine /\ Knows(u, e, type, topic) => Knows(u, e, type, topic)'
    BY DEF Knows
  <1>3. TodoClaims' /\ GoneKnown' /\ MineConfirmed'
    BY <1>2 DEF GateInv, TodoClaims, GoneKnown, MineConfirmed
  <1>4. FactsAreConfirmed'
    BY DEF GateInv, FactsAreConfirmed
  <1>. QED  BY <1>1, <1>3, <1>4 DEF GateInv

LEMMA SweepGate ==
  ASSUME TypeInv, GateInv, NEW E, NEW st \in {"expired", "superseded"}, Sweeps(E, st)
  PROVE  GateInv'
  <1>1. \A f \in DOMAIN entries : f \in DOMAIN entries' /\ Alike(entries'[f], entries[f])
    BY DEF Sweeps
  <1>2. \A u \in Writers : \A e, type, topic : Knows(u, e, type, topic) => Knows(u, e, type, topic)'
    BY <1>1, KnowsStays DEF Sweeps
  <1>3. FreshIds'
    BY DEF Sweeps, GateInv, FreshIds
  <1>4. TodoClaims' /\ GoneKnown' /\ MineConfirmed'
    BY <1>2 DEF Sweeps, GateInv, TodoClaims, GoneKnown, MineConfirmed
  <1>5. \A e \in DOMAIN entries : entries[e].status = "superseded" => entries'[e].status = "superseded"
    BY DEF Sweeps, Active
  <1>6. FactsAreConfirmed'
    BY <1>1, <1>5 DEF Sweeps, GateInv, FactsAreConfirmed, Alike
  <1>. QED  BY <1>3, <1>4, <1>6 DEF GateInv

\* A commit: what the session took from claims now reads so, and the claims are superseded.
LEMMA CommitGate ==
  ASSUME TypeInv, GateInv, NEW s \in Writers, CommitWriting(s)
  PROVE  GateInv'
  <1>1. FreshIds
    BY DEF GateInv
  <1>2. /\ writing'[s].mine = {} /\ writing'[s].gone = {} /\ writing'[s].todo = {}
        /\ \A u \in Writers \ {s} : writing'[u] = writing[u]
        /\ UNCHANGED <<lapsed, confirmed, given>>
    <2>1. writing'[s] = NotWriting /\ \A u \in Writers \ {s} : writing'[u] = writing[u]
      BY <1>1, CommitTyped
    <2>2. UNCHANGED <<lapsed, confirmed, given>>
      BY DEF CommitWriting
    <2>. QED  BY <2>1, <2>2 DEF NotWriting
  <1>3. \A f \in DOMAIN entries : f \in DOMAIN entries' /\ Alike(entries'[f], entries[f])
    BY <1>1, CommitRows
  <1>4. \A u \in Writers \ {s} : \A e, type, topic : Knows(u, e, type, topic) => Knows(u, e, type, topic)'
    BY <1>2, <1>3, KnowsStays
  <1>5. FreshIds'
    <2>1. \A u \in Writers : writing'[u].mine \subseteq writing[u].mine
      BY <1>2
    <2>2. DOMAIN entries' = DOMAIN entries \cup {m[1] : m \in writing[s].mine}
      BY <1>1, CommitRows DEF OwnRows
    <2>3. \A e \in DOMAIN entries' : e <= given'
      BY <1>1, <1>2, <2>2 DEF FreshIds
    <2>4. \A u \in Writers : \A m \in writing'[u].mine : m[1] <= given' /\ m[1] \notin DOMAIN entries'
      BY <1>1, <1>2, <2>1, <2>2 DEF FreshIds
    <2>5. \A u, v \in Writers : \A m \in writing'[u].mine, n \in writing'[v].mine :
            m[1] = n[1] => u = v /\ m = n
      BY <1>1, <2>1 DEF FreshIds
    <2>. QED  BY <2>3, <2>4, <2>5 DEF FreshIds
  <1>6. TodoClaims' /\ GoneKnown' /\ MineConfirmed'
    BY <1>2, <1>4 DEF GateInv, TodoClaims, GoneKnown, MineConfirmed
  <1>7. FactsAreConfirmed'
    <2>. SUFFICES ASSUME NEW e \in DOMAIN entries', entries'[e].verified
                  PROVE  /\ entries'[e].type = "fact" /\ entries'[e].of \in confirmed
                         /\ entries'[e].of \in DOMAIN entries'
                         /\ entries'[entries'[e].of].type = "claim"
                         /\ entries'[entries'[e].of].about = entries'[e].about
                         /\ entries'[entries'[e].of].status = "superseded"
      BY <1>2 DEF FactsAreConfirmed
    <2>1. CASE e \in DOMAIN entries
      <3>1. Alike(entries'[e], entries[e])
        BY <2>1, <1>3
      <3>2. /\ entries[e].type = "fact" /\ entries[e].of \in confirmed
            /\ entries[e].of \in DOMAIN entries
            /\ entries[entries[e].of].type = "claim"
            /\ entries[entries[e].of].about = entries[e].about
            /\ entries[entries[e].of].status = "superseded"
        BY <2>1, <3>1 DEF GateInv, FactsAreConfirmed, Alike
      <3>3. /\ Alike(entries'[entries[e].of], entries[entries[e].of])
            /\ entries'[entries[e].of].status = "superseded"
        BY <1>1, <3>2, CommitRows
      <3>. QED  BY <1>3, <3>1, <3>2, <3>3 DEF Alike
    <2>2. CASE e \in OwnRows(s)
      <3>1. PICK m \in writing[s].mine : m[1] = e
        BY <2>2 DEF OwnRows
      <3>2. Alike(entries'[e], m[2])
        BY <1>1, <3>1, CommitRows
      <3>. DEFINE c == m[2].of
      <3>3. /\ m[2].type = "fact" /\ c \in confirmed /\ c \in writing[s].gone
            /\ Knows(s, c, "claim", m[2].about)
        BY <3>1, <3>2 DEF GateInv, MineConfirmed, Alike
      <3>4. /\ c \in DOMAIN entries' /\ entries'[c].type = "claim"
            /\ entries'[c].about = m[2].about /\ entries'[c].status = "superseded"
        <4>. HIDE DEF c
        <4>1. CASE c \in DOMAIN entries /\ entries[c].type = "claim" /\ entries[c].about = m[2].about
          BY <1>1, <3>3, <4>1, CommitRows DEF Alike
        <4>2. CASE \E n \in writing[s].mine : n[1] = c /\ n[2].type = "claim" /\ n[2].about = m[2].about
          <5>1. PICK n \in writing[s].mine :
                  n[1] = c /\ n[2].type = "claim" /\ n[2].about = m[2].about
            BY <4>2
          <5>2. /\ c \in OwnRows(s) /\ Alike(entries'[c], n[2])
                /\ entries'[c].status = "superseded"
            BY <1>1, <3>3, <5>1, CommitRows
          <5>3. c \in DOMAIN entries'
            BY <1>1, <5>2, CommitRows
          <5>. QED  BY <5>1, <5>2, <5>3 DEF Alike
        <4>. QED  BY <3>3, <4>1, <4>2 DEF Knows
      <3>. QED  BY <3>2, <3>3, <3>4 DEF Alike
    <2>. QED  BY <1>1, <2>1, <2>2, CommitRows
  <1>. QED  BY <1>5, <1>6, <1>7 DEF GateInv

\* The search confirms a claim.
LEMMA VerifyGate ==
  ASSUME TypeInv, GateInv, NEW s \in Writers, NEW e \in EntryIds, VerifyNext(s, e)
  PROVE  TypeInv' /\ GateInv'
  <1>. DEFINE topic == AboutOf(s, e)
              row   == NewRow(s, "fact", topic, TRUE, TRUE, e)
  <1>1. /\ e \in writing[s].todo /\ confirmed' = confirmed \cup {e}
        /\ Write(s, "fact", topic, TRUE, TRUE, e, {e})
    BY DEF VerifyNext, Confirm
  <1>2. topic \in Topics /\ Knows(s, e, "claim", topic)
    <2>1. PICK t \in Topics : Knows(s, e, "claim", t)
      BY <1>1 DEF GateInv, TodoClaims
    <2>2. CASE e \in DOMAIN entries
      <3>1. entries[e].type = "claim" /\ entries[e].about = t
        BY <2>1, <2>2 DEF Knows, GateInv, FreshIds
      <3>. QED  BY <2>2, <3>1 DEF AboutOf, Knows
    <2>3. CASE e \notin DOMAIN entries
      <3>1. PICK m \in writing[s].mine : m[1] = e /\ m[2].type = "claim" /\ m[2].about = t
        BY <2>1, <2>3 DEF Knows
      <3>. DEFINE n == CHOOSE n \in writing[s].mine : n[1] = e
      <3>2. n \in writing[s].mine /\ n[1] = e
        BY <3>1
      <3>3. n = m
        BY <3>1, <3>2 DEF GateInv, FreshIds
      <3>4. topic = t
        BY <2>3, <3>1, <3>3 DEF AboutOf
      <3>. QED  BY <2>1, <3>4
    <2>. QED  BY <2>2, <2>3
  <1>. HIDE DEF topic
  <1>3. row \in Entry /\ Adds(s, row, {e})
    <2>1. "fact" \in EntryType
      BY DEF EntryType
    <2>. QED  BY <1>1, <1>2, <2>1, WriteAdds
  <1>4. row.status = "active" /\ row.type = "fact" /\ row.of = e /\ row.about = topic
    BY DEF NewRow, FactGate
  <1>. HIDE DEF row
  <1>5. TypeInv'
    <2>1. confirmed' \subseteq EntryIds
      BY <1>1 DEF TypeInv, MemoryTypeOK
    <2>. QED  BY <1>3, <2>1, AddsTyped
  <1>6. GateInv'
    <2>1. \A f \in {e} : \E type \in {"claim", "flag"}, t \in Topics : Knows(s, f, type, t)
      BY <1>2
    <2>2. confirmed \subseteq confirmed' /\ e \in confirmed'
      BY <1>1
    <2>. QED  BY <1>2, <1>3, <1>4, <2>1, <2>2, AddsGate
  <1>. QED  BY <1>5, <1>6

\* One step of a writer's session.
LEMMA WriterGate ==
  ASSUME TypeInv, GateInv, NEW s \in Writers, WriterStep(s)
  PROVE  TypeInv' /\ GateInv'
  <1>1. CASE StartWriting(s)
    <2>1. TypeInv' /\ StartsSession(s)
      BY <1>1, StartTyped
    <2>2. /\ writing'[s].mine = {} /\ writing'[s].gone = {} /\ writing'[s].todo = {}
          /\ \A u \in Writers \ {s} : writing'[u] = writing[u]
      BY <2>1 DEF StartsSession, NotWriting, TypeInv
    <2>3. UNCHANGED <<entries, confirmed, given>>
      BY <2>1 DEF StartsSession
    <2>. QED  BY <2>1, <2>2, <2>3, SessionGate
  <1>2. ASSUME NEW type \in {"claim", "fact", "snapshot"}, NEW topic \in Topics,
               NEW verified \in BOOLEAN, Observe(s, type, topic, verified)
        PROVE  TypeInv' /\ GateInv'
    <2>1. PICK row \in Entry : ~row.verified /\ row.status = "active" /\ Adds(s, row, {})
      BY <1>2, ObserveAdds
    <2>2. confirmed' = confirmed
      BY <1>2 DEF Observe
    <2>3. {} \in SUBSET EntryIds /\ confirmed' \subseteq EntryIds
      BY <2>2 DEF TypeInv, MemoryTypeOK
    <2>4. TypeInv'
      BY <2>1, <2>3, AddsTyped
    <2>5. GateInv'
      BY <2>1, <2>2, AddsGate
    <2>. QED  BY <2>4, <2>5
  <1>3. ASSUME NEW topic \in Topics, FlagTrend(s, topic)
        PROVE  TypeInv' /\ GateInv'
    <2>. DEFINE old == ActiveFor(s, "flag", {topic})
    <2>1. PICK row \in Entry : ~row.verified /\ row.status = "active" /\ Adds(s, row, old)
      BY <1>3, FlagAdds
    <2>2. confirmed' = confirmed
      BY <1>3 DEF FlagTrend
    <2>3. \A e \in old : e \in EntryIds /\ \E t \in {topic} : Knows(s, e, "flag", t)
      BY ActiveForKnown
    <2>. HIDE DEF old
    <2>4. old \in SUBSET EntryIds /\ confirmed' \subseteq EntryIds
      BY <2>2, <2>3 DEF TypeInv, MemoryTypeOK
    <2>5. \A e \in old : \E type \in {"claim", "flag"}, t \in Topics : Knows(s, e, type, t)
      BY <2>3
    <2>6. TypeInv'
      BY <2>1, <2>4, AddsTyped
    <2>7. GateInv'
      BY <2>1, <2>2, <2>5, AddsGate
    <2>. QED  BY <2>6, <2>7
  <1>4. CASE LoadPending(s) \/ EndGate(s)
    <2>1. Loads(s)
      BY <1>4, EndLoads
    <2>2. PICK T \in SUBSET ActiveFor(s, "claim", Topics) :
            /\ writing' = [writing EXCEPT ![s].todo = T]
            /\ UNCHANGED <<entries, lapsed, confirmed, starts, given, memOverlapped>>
      BY <2>1 DEF Loads
    <2>3. \A e \in T : \E topic \in Topics : Knows(s, e, "claim", topic)
      BY ActiveForKnown
    <2>4. /\ writing'[s].mine = writing[s].mine /\ writing'[s].gone = writing[s].gone
          /\ writing'[s].todo = T
          /\ \A u \in Writers \ {s} : writing'[u] = writing[u]
      BY <2>2 DEF TypeInv, Writing
    <2>5. GateInv'
      BY <2>2, <2>3, <2>4, SessionGate
    <2>. QED  BY <2>1, <2>5, LoadsTyped
  <1>5. ASSUME NEW e \in EntryIds, VerifyNext(s, e) PROVE TypeInv' /\ GateInv'
    BY <1>5, VerifyGate
  <1>6. CASE CommitWriting(s)
    BY <1>6, CommitGate, CommitTyped DEF GateInv
  <1>7. CASE RollbackWriting(s)
    <2>1. /\ writing'[s] = NotWriting /\ \A u \in Writers \ {s} : writing'[u] = writing[u]
          /\ UNCHANGED <<entries, confirmed, given>>
      BY <1>7 DEF RollbackWriting, TypeInv
    <2>2. GateInv'
      BY <2>1, SessionGate DEF NotWriting
    <2>. QED  BY <1>7, <2>2, RollbackTyped
  <1>. QED  BY <1>1, <1>2, <1>3, <1>4, <1>5, <1>6, <1>7 DEF WriterStep

LEMMA LapseGate ==
  ASSUME TypeInv, GateInv, NEW e \in EntryIds, Lapse(e)
  PROVE  TypeInv' /\ GateInv'
  <1>1. TypeInv'
    BY DEF Lapse, TypeInv, MemoryTypeOK
  <1>2. GateInv'
    BY SessionGate DEF Lapse
  <1>. QED  BY <1>1, <1>2

LEMMA MemoryStep == TypeInv /\ GateInv /\ [MemoryNext]_memoryVars => TypeInv' /\ GateInv'
  <1>. SUFFICES ASSUME TypeInv, GateInv, [MemoryNext]_memoryVars PROVE TypeInv' /\ GateInv'
    OBVIOUS
  <1>1. ASSUME NEW s \in Writers, WriterStep(s) PROVE TypeInv' /\ GateInv'
    BY <1>1, WriterGate
  <1>2. CASE SweepExpired \/ SweepDuplicates
    BY <1>2, SweepsSweep, SweepGate
  <1>3. ASSUME NEW e \in EntryIds, Lapse(e) PROVE TypeInv' /\ GateInv'
    BY <1>3, LapseGate
  <1>4. CASE UNCHANGED memoryVars
    <2>1. TypeInv'
      BY <1>4 DEF memoryVars, TypeInv, MemoryTypeOK
    <2>2. GateInv'
      BY <1>4, SessionGate DEF memoryVars
    <2>. QED  BY <2>1, <2>2
  <1>. QED  BY <1>1, <1>2, <1>3, <1>4 DEF MemoryNext

\* Entries, ids and sessions are of their types.
THEOREM MemoryTypeCorrect == MemorySpec => []MemoryTypeOK
  <1>1. MemoryInit => TypeInv /\ GateInv
    BY MemoryInitially
  <1>2. TypeInv => MemoryTypeOK
    BY DEF TypeInv
  <1>. QED  BY <1>1, <1>2, MemoryStep, PTL DEF MemorySpec

\* What is verified in shared memory is a fact that the research agent took from a claim that
\* a search confirmed, and the claim is pending no more, however the sessions overlap.
THEOREM FactsHold == MemorySpec => []FactsAreConfirmed
  <1>1. MemoryInit => TypeInv /\ GateInv
    BY MemoryInitially
  <1>2. GateInv => FactsAreConfirmed
    BY DEF GateInv
  <1>. QED  BY <1>1, <1>2, MemoryStep, PTL DEF MemorySpec

--------------------------------------------------------------------------------
(***************************************************************************)
(* The newest snapshot                                                     *)
(***************************************************************************)

\* Row n answers for row e of a group.
Serves(n, e) ==
  /\ n \in DOMAIN entries
  /\ entries[n].type = "snapshot" /\ entries[n].about = entries[e].about
  /\ entries[n].at >= entries[e].at
  /\ entries[n].status = "active" \/ n \in lapsed

LEMMA ServesNewest ==
  NewestServed <=> \A e \in DOMAIN entries : entries[e].type = "snapshot" => \E n : Serves(n, e)
  BY DEF NewestServed, Serves

LEMMA TimesAreNatural == TypeInv => \A e \in DOMAIN entries : entries[e].at \in Nat
  BY DEF TypeInv, MemoryTypeOK, Entry

\* A sweep leaves a row to answer, if of the rows it takes each is past its time or has a newer
\* one of its group that is left.
LEMMA SweepNewest ==
  ASSUME TypeInv, NewestServed, NEW E, NEW st, Sweeps(E, st),
         \A e \in E : \/ e \in lapsed
                       \/ /\ entries[e].type = "snapshot"
                          /\ \E k \in DOMAIN entries \ E : Serves(k, e)
  PROVE  NewestServed'
  <1>1. DOMAIN entries' = DOMAIN entries /\ lapsed' = lapsed
    BY DEF Sweeps
  <1>2. \A e \in DOMAIN entries :
          /\ entries'[e].type = entries[e].type /\ entries'[e].about = entries[e].about
          /\ entries'[e].at = entries[e].at
          /\ e \notin E => entries'[e].status = entries[e].status
    BY DEF Sweeps, Alike
  <1>3. ASSUME NEW e \in DOMAIN entries', entries'[e].type = "snapshot"
        PROVE  \E n : Serves(n, e)'
    <2>1. PICK n : Serves(n, e)
      BY <1>1, <1>2, <1>3, ServesNewest
    <2>2. CASE n \notin E \/ n \in lapsed
      BY <1>1, <1>2, <2>1, <2>2 DEF Serves
    <2>3. CASE n \in E /\ n \notin lapsed
      <3>1. PICK k \in DOMAIN entries \ E : Serves(k, n)
        BY <2>3
      <3>2. entries[k].at >= entries[e].at
        BY <1>1, <2>1, <3>1, TimesAreNatural DEF Serves
      <3>. QED  BY <1>1, <1>2, <2>1, <3>1, <3>2 DEF Serves
    <2>. QED  BY <2>2, <2>3
  <1>. QED  BY <1>3, ServesNewest DEF NewestServed, Serves

LEMMA DuplicatesNewest ==
  ASSUME TypeInv, NewestServed, SweepDuplicates
  PROVE  NewestServed'
  <1>1. PICK K \in SUBSET Snapshots : KeepsNewest(K) /\ UpdateStatus(Snapshots \ K, "superseded")
    BY DEF SweepDuplicates
  <1>2. Snapshots \ K \in SUBSET Active /\ "superseded" \in EntryStatus
    BY DEF EntryStatus, Snapshots
  <1>3. Sweeps(Snapshots \ K, "superseded")
    BY <1>1, <1>2, UpdateSweeps
  <1>4. ASSUME NEW e \in Snapshots \ K
        PROVE  entries[e].type = "snapshot" /\ \E k \in DOMAIN entries \ (Snapshots \ K) : Serves(k, e)
    <2>1. PICK k \in K : entries[k].about = entries[e].about
      BY <1>1 DEF KeepsNewest
    <2>2. entries[k].at >= entries[e].at
      BY <1>1, <2>1, TimesAreNatural DEF KeepsNewest, Snapshots, Active
    <2>. QED  BY <2>1, <2>2 DEF Serves, Snapshots, Active
  <1>. QED  BY <1>3, <1>4, SweepNewest

LEMMA ExpiredNewest ==
  ASSUME TypeInv, NewestServed, SweepExpired
  PROVE  NewestServed'
  <1>1. Active \cap lapsed \in SUBSET Active /\ "expired" \in EntryStatus
    BY DEF EntryStatus
  <1>2. Sweeps(Active \cap lapsed, "expired")
    BY <1>1, UpdateSweeps DEF SweepExpired
  <1>. QED  BY <1>2, SweepNewest

\* A session supersedes no snapshot, and the one it inserts answers for itself.
LEMMA CommitNewest ==
  ASSUME TypeInv, GateInv, NewestServed, NEW s \in Writers, CommitWriting(s)
  PROVE  NewestServed'
  <1>1. FreshIds
    BY DEF GateInv
  <1>2. \A e \in DOMAIN entries : entries[e].type = "snapshot" => e \notin writing[s].gone
    BY <1>1 DEF GateInv, GoneKnown, FreshIds, Knows
  <1>3. \A m \in writing[s].mine : m[2].type = "snapshot" => m[1] \notin writing[s].gone
    BY <1>1 DEF GateInv, GoneKnown, FreshIds, Knows
  <1>4. lapsed' = lapsed
    BY DEF CommitWriting
  <1>5. \A e \in DOMAIN entries :
          /\ e \in DOMAIN entries' /\ entries'[e].type = entries[e].type
          /\ entries'[e].about = entries[e].about /\ entries'[e].at = entries[e].at
          /\ entries[e].type = "snapshot" => entries'[e].status = entries[e].status
    BY <1>1, <1>2, CommitRows DEF Alike
  <1>6. ASSUME NEW e \in DOMAIN entries', entries'[e].type = "snapshot"
        PROVE  \E n : Serves(n, e)'
    <2>1. CASE e \in DOMAIN entries
      <3>1. PICK n : Serves(n, e)
        BY <1>5, <1>6, <2>1, ServesNewest
      <3>. QED  BY <1>4, <1>5, <2>1, <3>1 DEF Serves
    <2>2. CASE e \in OwnRows(s)
      <3>1. PICK m \in writing[s].mine : m[1] = e
        BY <2>2 DEF OwnRows
      <3>2. Alike(entries'[e], m[2])
            /\ entries'[e].status = IF e \in writing[s].gone THEN "superseded" ELSE m[2].status
        BY <1>1, <3>1, CommitRows
      <3>3. entries'[e].status = "active"
        BY <1>3, <1>6, <3>1, <3>2 DEF Alike, GateInv, MineConfirmed
      <3>4. entries'[e].at \in Nat
        BY <3>2 DEF Alike, Entry
      <3>5. entries'[e].at >= entries'[e].at
        BY <3>4
      <3>. QED  BY <1>6, <3>3, <3>5 DEF Serves
    <2>. QED  BY <1>1, <2>1, <2>2, CommitRows
  <1>. QED  BY <1>6, ServesNewest DEF NewestServed, Serves

LEMMA NewestStep == TypeInv /\ GateInv /\ NewestServed /\ [MemoryNext]_memoryVars => NewestServed'
  <1>. SUFFICES ASSUME TypeInv, GateInv, NewestServed, [MemoryNext]_memoryVars PROVE NewestServed'
    OBVIOUS
  <1>1. CASE UNCHANGED <<entries, lapsed>>
    BY <1>1 DEF NewestServed
  <1>2. ASSUME NEW s \in Writers, WriterStep(s) PROVE NewestServed'
    <2>1. CASE CommitWriting(s)
      BY <2>1, CommitNewest
    <2>2. CASE ~CommitWriting(s)
      <3>1. UNCHANGED <<entries, lapsed>>
        BY <1>2, <2>2 DEF WriterStep, StartWriting, Observe, FlagTrend, LoadPending, EndGate,
                          VerifyNext, Confirm, Write, RollbackWriting
      <3>. QED  BY <1>1, <3>1
    <2>. QED  BY <2>1, <2>2
  <1>3. ASSUME NEW e \in EntryIds, Lapse(e) PROVE NewestServed'
    BY <1>3 DEF Lapse, NewestServed
  <1>. QED  BY <1>1, <1>2, <1>3, DuplicatesNewest, ExpiredNewest DEF MemoryNext, memoryVars

\* Whatever the daily sweep for duplicates supersedes, and in whatever order transactions
\* commit, the newest snapshot of a group is served until its time is over.
THEOREM NewestHolds == MemorySpec => []NewestServed
  <1>1. MemoryInit => TypeInv /\ GateInv /\ NewestServed
    BY MemoryInitially
  <1>. QED  BY <1>1, MemoryStep, NewestStep, PTL DEF MemorySpec

--------------------------------------------------------------------------------
(***************************************************************************)
(* Without overlap: a claim is promoted once, a trend keeps one flag       *)
(***************************************************************************)

\* A session that is not open holds nothing, and one that is holds the only one.
Closed ==
  \A s \in Writers :
    ~writing[s].open => writing[s].mine = {} /\ writing[s].gone = {} /\ writing[s].todo = {}

Alone == \A s, u \in Writers : writing[s].open /\ writing[u].open => s = u

\* Of the rows that a session sees, committed and its own, no two were verified from the same
\* claim, nor was one from a claim that its gate run has still to look up.
PromotedOnce ==
  /\ \A e, f \in DOMAIN entries :
       e # f /\ entries[e].verified /\ entries[f].verified => entries[e].of # entries[f].of
  /\ \A s \in Writers : \A m, n \in writing[s].mine :
       m # n /\ m[2].verified /\ n[2].verified => m[2].of # n[2].of
  /\ \A s \in Writers : \A m \in writing[s].mine, f \in DOMAIN entries :
       m[2].verified /\ entries[f].verified => m[2].of # entries[f].of
  /\ \A s \in Writers : \A e \in writing[s].todo \ writing[s].gone, f \in DOMAIN entries :
       entries[f].verified => entries[f].of # e

\* Nor are two of the flags that it has not superseded about the same trend.
LiveFlag(row) == row.type = "flag" /\ row.status = "active"

FlaggedOnce ==
  /\ \A e, f \in DOMAIN entries :
       e # f /\ LiveFlag(entries[e]) /\ LiveFlag(entries[f]) => entries[e].about # entries[f].about
  /\ \A s \in Writers : \A m, n \in writing[s].mine :
       /\ m # n /\ m[1] \notin writing[s].gone /\ n[1] \notin writing[s].gone
       /\ m[2].type = "flag" /\ n[2].type = "flag"
       => m[2].about # n[2].about
  /\ \A s \in Writers : \A m \in writing[s].mine, f \in DOMAIN entries \ writing[s].gone :
       m[1] \notin writing[s].gone /\ m[2].type = "flag" /\ LiveFlag(entries[f])
       => m[2].about # entries[f].about

OnceInv == Closed /\ (~memOverlapped => Alone /\ PromotedOnce /\ FlaggedOnce)

LEMMA OnceInitially == MemoryInit => OnceInv
  <1>. SUFFICES ASSUME MemoryInit PROVE OnceInv
    OBVIOUS
  <1>1. DOMAIN entries = {} /\ \A s \in Writers : writing[s] = NotWriting
    BY DEF MemoryInit
  <1>. QED  BY <1>1 DEF OnceInv, Closed, Alone, PromotedOnce, FlaggedOnce, NotWriting

\* A session inserts a row: what it was verified from is looked up for the first time, and
\* earlier flags of its trend are superseded with it.
LEMMA AddsOnce ==
  ASSUME TypeInv, GateInv, OnceInv, NEW s \in Writers, NEW row \in Entry, NEW old,
         Adds(s, row, old), writing[s].open,
         row.verified => row.of \in writing[s].todo \ writing[s].gone /\ row.of \in old,
         \A f \in DOMAIN entries \ (writing[s].gone \cup old) :
           row.type = "flag" /\ LiveFlag(entries[f]) => row.about # entries[f].about,
         \A m \in writing[s].mine :
           m[1] \notin writing[s].gone \cup old /\ row.type = "flag" /\ m[2].type = "flag"
             => row.about # m[2].about
  PROVE  OnceInv'
  <1>. DEFINE new == <<given + 1, row>>
  <1>1. /\ UNCHANGED <<entries, memOverlapped>>
        /\ \A u \in Writers : writing'[u].open = writing[u].open
        /\ writing'[s].mine = writing[s].mine \cup {new}
        /\ writing'[s].gone = writing[s].gone \cup old
        /\ writing'[s].todo = writing[s].todo
        /\ \A u \in Writers \ {s} : writing'[u] = writing[u]
    BY AddsFields DEF Adds
  <1>2. new[2] = row
    OBVIOUS
  <1>. HIDE DEF new
  <1>3. Closed'
    BY <1>1 DEF OnceInv, Closed
  <1>. SUFFICES ASSUME ~memOverlapped PROVE (Alone /\ PromotedOnce /\ FlaggedOnce)'
    BY <1>1, <1>3 DEF OnceInv
  <1>4. Alone /\ PromotedOnce /\ FlaggedOnce
    BY DEF OnceInv
  <1>5. Alone'
    BY <1>1, <1>4 DEF Alone
  <1>6. PromotedOnce'
    <2>1. \A m \in writing[s].mine : m[2].verified => m[2].of \in writing[s].gone
      BY DEF GateInv, MineConfirmed
    <2>2. \A u \in Writers : \A m, n \in writing'[u].mine :
            m # n /\ m[2].verified /\ n[2].verified => m[2].of # n[2].of
      BY <1>1, <1>2, <1>4, <2>1 DEF PromotedOnce
    <2>3. \A u \in Writers : \A m \in writing'[u].mine, f \in DOMAIN entries :
            m[2].verified /\ entries[f].verified => m[2].of # entries[f].of
      BY <1>1, <1>2, <1>4 DEF PromotedOnce
    <2>4. \A u \in Writers : \A e \in writing'[u].todo \ writing'[u].gone, f \in DOMAIN entries :
            entries[f].verified => entries[f].of # e
      BY <1>1, <1>4 DEF PromotedOnce
    <2>. QED  BY <1>1, <1>4, <2>2, <2>3, <2>4 DEF PromotedOnce
  <1>7. FlaggedOnce'
    <2>1. \A u \in Writers : \A m, n \in writing'[u].mine :
            /\ m # n /\ m[1] \notin writing'[u].gone /\ n[1] \notin writing'[u].gone
            /\ m[2].type = "flag" /\ n[2].type = "flag"
            => m[2].about # n[2].about
      BY <1>1, <1>2, <1>4 DEF FlaggedOnce
    <2>2. \A u \in Writers : \A m \in writing'[u].mine, f \in DOMAIN entries \ writing'[u].gone :
            m[1] \notin writing'[u].gone /\ m[2].type = "flag" /\ LiveFlag(entries[f])
              => m[2].about # entries[f].about
      BY <1>1, <1>2, <1>4 DEF FlaggedOnce
    <2>3. \A e, f \in DOMAIN entries :
            e # f /\ LiveFlag(entries[e]) /\ LiveFlag(entries[f]) => entries[e].about # entries[f].about
      BY <1>4 DEF FlaggedOnce
    <2>. QED  BY <1>1, <2>1, <2>2, <2>3 DEF FlaggedOnce, LiveFlag
  <1>. QED  BY <1>5, <1>6, <1>7

\* Rows change their status at most, to none that is active, and sessions stay as they are.
LEMMA SweepOnce ==
  ASSUME TypeInv, OnceInv, UNCHANGED <<writing, memOverlapped>>,
         DOMAIN entries' = DOMAIN entries,
         \A e \in DOMAIN entries :
           /\ Alike(entries'[e], entries[e])
           /\ entries'[e].status = "active" => entries[e].status = "active"
  PROVE  OnceInv'
  <1>1. \A e \in DOMAIN entries :
          /\ entries'[e].verified = entries[e].verified /\ entries'[e].of = entries[e].of
          /\ entries'[e].about = entries[e].about
          /\ LiveFlag(entries'[e]) => LiveFlag(entries[e])
    BY DEF Alike, LiveFlag
  <1>2. Closed'
    BY DEF OnceInv, Closed
  <1>3. ~memOverlapped => Alone' /\ PromotedOnce'
    BY <1>1 DEF OnceInv, Alone, PromotedOnce
  <1>4. ~memOverlapped => FlaggedOnce'
    <2>1. UNCHANGED <<writing, DOMAIN entries>>
      OBVIOUS
    <2>2. \A e \in DOMAIN entries : LiveFlag(entries[e])' => LiveFlag(entries[e])
      BY <1>1 DEF LiveFlag
    <2>. QED  BY <1>1, <2>1, <2>2 DEF OnceInv, FlaggedOnce
  <1>. QED  BY <1>2, <1>3, <1>4 DEF OnceInv

\* A session starts, ends or loads claims that are still pending.
LEMMA SessionOnce ==
  ASSUME OnceInv, NEW s \in Writers, UNCHANGED entries, ~memOverlapped' => ~memOverlapped,
         \A u \in Writers \ {s} : writing'[u] = writing[u],
         writing'[s].open /\ ~writing[s].open /\ ~memOverlapped' => \A u \in Writers : ~writing[u].open,
         \/ writing'[s].mine = {} /\ writing'[s].gone = {} /\ writing'[s].todo = {}
         \/ /\ writing[s].open /\ writing'[s].open
            /\ writing'[s].mine = writing[s].mine /\ writing'[s].gone = writing[s].gone
            /\ \A e \in writing'[s].todo, f \in DOMAIN entries :
                 entries[f].verified => entries[f].of # e
  PROVE  OnceInv'
  <1>1. Closed'
    BY DEF OnceInv, Closed
  <1>. SUFFICES ASSUME ~memOverlapped' PROVE (Alone /\ PromotedOnce /\ FlaggedOnce)'
    BY <1>1 DEF OnceInv
  <1>2. Alone /\ PromotedOnce /\ FlaggedOnce
    BY DEF OnceInv
  <1>3. Alone'
    BY <1>2 DEF Alone
  <1>4. \A u \in Writers : \/ writing'[u].mine = {} /\ writing'[u].gone = {} /\ writing'[u].todo = {}
                           \/ writing'[u].mine = writing[u].mine /\ writing'[u].gone = writing[u].gone
    OBVIOUS
  <1>5. \A u \in Writers : \A e \in writing'[u].todo \ writing'[u].gone, f \in DOMAIN entries :
          entries[f].verified => entries[f].of # e
    BY <1>2 DEF PromotedOnce
  <1>6. PromotedOnce'
    BY <1>2, <1>4, <1>5 DEF PromotedOnce
  <1>7. FlaggedOnce'
    BY <1>2, <1>4 DEF FlaggedOnce, LiveFlag
  <1>. QED  BY <1>3, <1>6, <1>7

\* A commit: the session's own rows join the others, without those that it superseded.
LEMMA CommitOnce ==
  ASSUME TypeInv, GateInv, OnceInv, NEW s \in Writers, CommitWriting(s)
  PROVE  OnceInv'
  <1>1. FreshIds
    BY DEF GateInv
  <1>2. /\ writing'[s] = NotWriting /\ \A u \in Writers \ {s} : writing'[u] = writing[u]
        /\ writing[s].open /\ memOverlapped' = memOverlapped
    BY <1>1, CommitTyped DEF CommitWriting
  <1>3. Closed'
    BY <1>2 DEF OnceInv, Closed, NotWriting
  <1>. SUFFICES ASSUME ~memOverlapped PROVE (Alone /\ PromotedOnce /\ FlaggedOnce)'
    BY <1>2, <1>3 DEF OnceInv
  <1>4. Alone /\ PromotedOnce /\ FlaggedOnce
    BY DEF OnceInv
  <1>5. \A u \in Writers : /\ ~writing'[u].open /\ writing'[u].mine = {}
                           /\ writing'[u].gone = {} /\ writing'[u].todo = {}
    <2>1. \A u \in Writers \ {s} : ~writing[u].open
      BY <1>2, <1>4 DEF Alone
    <2>. QED  BY <1>2, <2>1 DEF OnceInv, Closed, NotWriting
  <1>6. Alone'
    BY <1>5 DEF Alone
  <1>7. ASSUME NEW g \in DOMAIN entries'
        PROVE  \/ /\ g \in DOMAIN entries /\ Alike(entries'[g], entries[g])
                  /\ entries'[g].status = "active" => entries[g].status = "active" /\ g \notin writing[s].gone
               \/ \E m \in writing[s].mine :
                    /\ m[1] = g /\ Alike(entries'[g], m[2])
                    /\ entries'[g].status = "active" => g \notin writing[s].gone
    <2>1. CASE g \in DOMAIN entries
      BY <1>1, <2>1, CommitRows
    <2>2. CASE g \in OwnRows(s)
      <3>1. PICK m \in writing[s].mine : m[1] = g
        BY <2>2 DEF OwnRows
      <3>2. /\ Alike(entries'[g], m[2])
            /\ entries'[g].status = IF g \in writing[s].gone THEN "superseded" ELSE m[2].status
        BY <1>1, <3>1, CommitRows
      <3>. QED  BY <3>1, <3>2
    <2>. QED  BY <1>1, <2>1, <2>2, CommitRows
  <1>8. ASSUME NEW e \in DOMAIN entries', NEW f \in DOMAIN entries', e # f
        PROVE  /\ entries'[e].verified /\ entries'[f].verified => entries'[e].of # entries'[f].of
               /\ LiveFlag(entries'[e]) /\ LiveFlag(entries'[f]) => entries'[e].about # entries'[f].about
    <2>. DEFINE Old(g) == /\ g \in DOMAIN entries /\ Alike(entries'[g], entries[g])
                          /\ entries'[g].status = "active"
                               => entries[g].status = "active" /\ g \notin writing[s].gone
                Own(g, m) == /\ m \in writing[s].mine /\ m[1] = g /\ Alike(entries'[g], m[2])
                             /\ entries'[g].status = "active" => g \notin writing[s].gone
    <2>1. CASE Old(e) /\ Old(f)
      BY <1>4, <1>8, <2>1 DEF PromotedOnce, FlaggedOnce, Alike, LiveFlag
    <2>2. ASSUME NEW m, Own(e, m), Old(f)
          PROVE  /\ entries'[e].verified /\ entries'[f].verified => entries'[e].of # entries'[f].of
                 /\ LiveFlag(entries'[e]) /\ LiveFlag(entries'[f]) => entries'[e].about # entries'[f].about
      BY <1>4, <2>2 DEF PromotedOnce, FlaggedOnce, Alike, LiveFlag
    <2>3. ASSUME NEW m, Old(e), Own(f, m)
          PROVE  /\ entries'[e].verified /\ entries'[f].verified => entries'[e].of # entries'[f].of
                 /\ LiveFlag(entries'[e]) /\ LiveFlag(entries'[f]) => entries'[e].about # entries'[f].about
      BY <1>4, <2>3 DEF PromotedOnce, FlaggedOnce, Alike, LiveFlag
    <2>4. ASSUME NEW m, NEW n, Own(e, m), Own(f, n)
          PROVE  /\ entries'[e].verified /\ entries'[f].verified => entries'[e].of # entries'[f].of
                 /\ LiveFlag(entries'[e]) /\ LiveFlag(entries'[f]) => entries'[e].about # entries'[f].about
      <3>1. m # n
        BY <1>8, <2>4
      <3>. QED  BY <1>4, <2>4, <3>1 DEF PromotedOnce, FlaggedOnce, Alike, LiveFlag
    <2>5. /\ Old(e) \/ \E m : Own(e, m)
          /\ Old(f) \/ \E m : Own(f, m)
      BY <1>7
    <2>. HIDE DEF Old, Own
    <2>. QED  BY <2>1, <2>2, <2>3, <2>4, <2>5
  <1>9. PromotedOnce'
    BY <1>5, <1>8 DEF PromotedOnce
  <1>10. FlaggedOnce'
    BY <1>5, <1>8 DEF FlaggedOnce, LiveFlag
  <1>. QED  BY <1>6, <1>9, <1>10

\* What a claim is about, found as AboutOf finds it.
LEMMA AboutTyped ==
  ASSUME TypeInv, GateInv, NEW s \in Writers, NEW e \in writing[s].todo
  PROVE  AboutOf(s, e) \in Topics
  <1>1. PICK t \in Topics : Knows(s, e, "claim", t)
    BY DEF GateInv, TodoClaims
  <1>2. CASE e \in DOMAIN entries
    BY <1>2 DEF AboutOf, TypeInv, MemoryTypeOK, Entry
  <1>3. CASE e \notin DOMAIN entries
    <2>1. \E m \in writing[s].mine : m[1] = e
      BY <1>1, <1>3 DEF Knows
    <2>. DEFINE n == CHOOSE n \in writing[s].mine : n[1] = e
    <2>2. n \in writing[s].mine
      BY <2>1
    <2>3. n[2] \in Entry
      BY <2>2 DEF TypeInv, MemoryTypeOK
    <2>4. AboutOf(s, e) = n[2].about
      BY <1>3 DEF AboutOf
    <2>. HIDE DEF n
    <2>. QED  BY <2>3, <2>4 DEF Entry
  <1>. QED  BY <1>2, <1>3

LEMMA WriterOnce ==
  ASSUME TypeInv, GateInv, OnceInv, NEW s \in Writers, WriterStep(s)
  PROVE  OnceInv'
  <1>1. CASE StartWriting(s)
    <2>1. StartsSession(s) /\ writing \in [Writers -> Writing]
      BY <1>1, StartTyped DEF TypeInv
    <2>2. /\ writing'[s].mine = {} /\ writing'[s].gone = {} /\ writing'[s].todo = {}
          /\ entries' = entries /\ \A u \in Writers \ {s} : writing'[u] = writing[u]
      BY <2>1 DEF StartsSession, NotWriting
    <2>3. /\ ~memOverlapped' => ~memOverlapped
          /\ ~memOverlapped' => \A u \in Writers : ~writing[u].open
      BY <1>1 DEF StartWriting, OpenWriters
    <2>. QED  BY <2>2, <2>3, SessionOnce
  <1>2. ASSUME NEW type \in {"claim", "fact", "snapshot"}, NEW topic \in Topics,
               NEW verified \in BOOLEAN, Observe(s, type, topic, verified)
        PROVE  OnceInv'
    <2>. DEFINE row == NewRow(s, type, topic, verified, FALSE, NoEntry)
    <2>1. type \in EntryType
      BY DEF EntryType
    <2>2. Adds(s, row, {}) /\ row \in Entry /\ writing[s].open
      BY <1>2, <2>1, WriteAdds DEF Observe, Write
    <2>3. ~row.verified /\ row.type # "flag"
      BY <2>1, GateTyped DEF NewRow, FactGate
    <2>. HIDE DEF row
    <2>. QED  BY <2>2, <2>3, AddsOnce
  <1>3. ASSUME NEW topic \in Topics, FlagTrend(s, topic)
        PROVE  OnceInv'
    <2>. DEFINE row == NewRow(s, "flag", topic, FALSE, FALSE, NoEntry)
                old == ActiveFor(s, "flag", {topic})
    <2>1. "flag" \in EntryType
      BY DEF EntryType
    <2>2. Adds(s, row, old) /\ row \in Entry /\ writing[s].open
      BY <1>3, <2>1, WriteAdds DEF FlagTrend, Write
    <2>3. ~row.verified /\ row.about = topic
      BY <2>1, GateTyped DEF NewRow
    <2>4. \A f \in DOMAIN entries \ (writing[s].gone \cup old) :
            LiveFlag(entries[f]) => entries[f].about # topic
      BY DEF ActiveFor, LiveFlag
    <2>5. \A m \in writing[s].mine :
            m[1] \notin writing[s].gone \cup old /\ m[2].type = "flag" => m[2].about # topic
      BY DEF ActiveFor
    <2>. HIDE DEF row, old
    <2>. QED  BY <2>2, <2>3, <2>4, <2>5, AddsOnce
  <1>4. CASE LoadPending(s) \/ EndGate(s)
    <2>1. PICK T \in SUBSET ActiveFor(s, "claim", Topics) :
            /\ writing' = [writing EXCEPT ![s].todo = T]
            /\ UNCHANGED <<entries, lapsed, confirmed, starts, given, memOverlapped>>
      BY <1>4, EndLoads DEF Loads
    <2>2. /\ writing'[s].mine = writing[s].mine /\ writing'[s].gone = writing[s].gone
          /\ writing'[s].todo = T /\ writing'[s].open = writing[s].open
          /\ \A u \in Writers \ {s} : writing'[u] = writing[u]
      BY <2>1 DEF TypeInv, Writing
    <2>3. writing[s].open
      BY <1>4 DEF LoadPending, EndGate, OnceInv, Closed
    <2>4. ASSUME NEW e \in T, NEW f \in DOMAIN entries, entries[f].verified
          PROVE  entries[f].of # e
      <3>1. /\ entries[f].of \in DOMAIN entries
            /\ entries[entries[f].of].status = "superseded"
        BY <2>4 DEF GateInv, FactsAreConfirmed
      <3>2. \/ e \in DOMAIN entries /\ entries[e].status = "active"
            \/ \E m \in writing[s].mine : m[1] = e
        BY DEF ActiveFor
      <3>. QED  BY <3>1, <3>2 DEF GateInv, FreshIds
    <2>. QED  BY <2>1, <2>2, <2>3, <2>4, SessionOnce
  <1>5. ASSUME NEW e \in EntryIds, VerifyNext(s, e) PROVE OnceInv'
    <2>. DEFINE topic == AboutOf(s, e)
                row   == NewRow(s, "fact", topic, TRUE, TRUE, e)
    <2>1. /\ e \in writing[s].todo \ writing[s].gone /\ writing[s].open
          /\ Write(s, "fact", topic, TRUE, TRUE, e, {e})
      BY <1>5 DEF VerifyNext, Confirm, Write
    <2>2. topic \in Topics
      BY <1>5, <2>1, AboutTyped
    <2>. HIDE DEF topic
    <2>3. row \in Entry /\ Adds(s, row, {e})
      <3>1. "fact" \in EntryType
        BY DEF EntryType
      <3>. QED  BY <2>1, <2>2, <3>1, WriteAdds
    <2>4. row.type # "flag" /\ row.of = e
      BY DEF NewRow, FactGate
    <2>. HIDE DEF row
    <2>. QED  BY <2>1, <2>3, <2>4, AddsOnce
  <1>6. CASE CommitWriting(s)
    BY <1>6, CommitOnce
  <1>7. CASE RollbackWriting(s)
    <2>1. /\ writing'[s] = NotWriting /\ \A u \in Writers \ {s} : writing'[u] = writing[u]
          /\ UNCHANGED <<entries, memOverlapped>>
      BY <1>7 DEF RollbackWriting, TypeInv
    <2>. QED  BY <2>1, SessionOnce DEF NotWriting
  <1>. QED  BY <1>1, <1>2, <1>3, <1>4, <1>5, <1>6, <1>7 DEF WriterStep

LEMMA OnceStep == TypeInv /\ GateInv /\ OnceInv /\ [MemoryNext]_memoryVars => OnceInv'
  <1>. SUFFICES ASSUME TypeInv, GateInv, OnceInv, [MemoryNext]_memoryVars PROVE OnceInv'
    OBVIOUS
  <1>1. ASSUME NEW s \in Writers, WriterStep(s) PROVE OnceInv'
    BY <1>1, WriterOnce
  <1>2. CASE SweepExpired \/ SweepDuplicates
    <2>1. PICK E, st : st \in {"expired", "superseded"} /\ Sweeps(E, st)
      BY <1>2, SweepsSweep
    <2>2. \A e \in DOMAIN entries :
            /\ Alike(entries'[e], entries[e])
            /\ entries'[e].status = "active" => entries[e].status = "active"
      BY <2>1 DEF Sweeps
    <2>. QED  BY <2>1, <2>2, SweepOnce DEF Sweeps
  <1>3. ASSUME UNCHANGED <<entries, writing, memOverlapped>> PROVE OnceInv'
    BY <1>3 DEF OnceInv, Closed, Alone, PromotedOnce, FlaggedOnce
  <1>. QED  BY <1>1, <1>2, <1>3 DEF MemoryNext, memoryVars, Lapse

\* Without overlap a claim is promoted once, whatever the gate runs load and confirm, and
\* repeated scans leave a trend one active flag.
THEOREM NothingTwiceCorrect == MemorySpec => []NothingTwice
  <1>1. MemoryInit => TypeInv /\ GateInv /\ OnceInv
    BY MemoryInitially, OnceInitially
  <1>2. OnceInv => NothingTwice
    BY DEF OnceInv, PromotedOnce, FlaggedOnce, LiveFlag, NothingTwice
  <1>. QED  BY <1>1, <1>2, MemoryStep, OnceStep, PTL DEF MemorySpec

==============================================================================
