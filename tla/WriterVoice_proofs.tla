-------------------------- MODULE WriterVoice_proofs --------------------------
(***************************************************************************)
(* Theorems about WriterVoice, for any number of desks, personas and       *)
(* versions.                                                               *)
(***************************************************************************)
EXTENDS WriterVoice, FiniteSetTheorems, TLAPS

Fields == {"op", "asked", "persona", "version", "seen", "off", "made"}

\* A desk has the fields of a desk (what persona it picked is nobody's business here).
Shaped == DOMAIN desk = Desks /\ \A d \in Desks : DOMAIN desk[d] = Fields

\* Versions are numbered without gaps, whatever overlaps: a version that is set exists, one
\* that is inserted is the next, and no two desks hold the same.
Numbered ==
  /\ profiles \in Seq(BOOLEAN) /\ chosen \in Nat
  /\ \A d \in Desks : desk[d].op \in {"lock", "own"} =>
       /\ desk[d].version \in Nat
       /\ ~desk[d].made => desk[d].version \in DOMAIN profiles
       /\ desk[d].op = "own" /\ desk[d].made => desk[d].version = Len(profiles) + 1
  /\ \A d, e \in Desks :
       desk[d].op = "own" /\ desk[e].op = "own" /\ desk[d].version = desk[e].version => d = e

\* A desk by itself has cleared, or has yet to clear, exactly what is active.
Single ==
  ~jostled =>
    /\ \A d, e \in Desks : desk[d].op # "none" /\ desk[e].op # "none" => d = e
    /\ profiles # <<>> => ActiveProfiles = {chosen}
    /\ \A d \in Desks :
         /\ desk[d].op = "lock" => desk[d].seen \cup desk[d].off = ActiveProfiles
         /\ desk[d].op = "own"  => desk[d].off = ActiveProfiles

VoiceInv == Shaped /\ Numbered /\ Single /\ VoiceServed

LEMMA NoDeskShaped == DOMAIN NoDesk = Fields /\ NoDesk.op = "none"
  BY DEF NoDesk, Fields

LEMMA VoiceInitially == VoiceInit => VoiceInv
  <1>. SUFFICES ASSUME VoiceInit PROVE VoiceInv
    OBVIOUS
  <1>1. \A d \in Desks : desk[d] = NoDesk
    BY DEF VoiceInit
  <1>2. DOMAIN desk = Desks
    BY DEF VoiceInit
  <1>. QED  BY <1>1, <1>2, NoDeskShaped
            DEF VoiceInit, VoiceInv, Shaped, Numbered, Single, VoiceServed

\* A desk sits down, moves on or leaves, and no profile changes.
LEMMA DeskMoves ==
  ASSUME VoiceInv, NEW d \in Desks, NEW ses, desk' = [desk EXCEPT ![d] = ses],
         UNCHANGED <<profiles, chosen>>, DOMAIN ses = Fields, jostled => jostled',
         ses.op \in {"lock", "own"} =>
           /\ ses.version \in Nat
           /\ ~ses.made => ses.version \in DOMAIN profiles
           /\ ses.op = "own" /\ ses.made => ses.version = Len(profiles) + 1,
         ses.op = "own" => \A e \in Desks \ {d} : desk[e].op = "own" => desk[e].version # ses.version,
         ~jostled' /\ ses.op # "none" => \A e \in Desks \ {d} : desk[e].op = "none",
         ~jostled' /\ ses.op = "lock" => ses.seen \cup ses.off = ActiveProfiles,
         ~jostled' /\ ses.op = "own"  => ses.off = ActiveProfiles
  PROVE  VoiceInv'
  <1>1. DOMAIN desk' = Desks /\ desk'[d] = ses /\ \A e \in Desks \ {d} : desk'[e] = desk[e]
    BY DEF VoiceInv, Shaped
  <1>2. Shaped'
    BY <1>1 DEF VoiceInv, Shaped
  <1>3. Numbered'
    BY <1>1 DEF VoiceInv, Numbered
  <1>4. ActiveProfiles' = ActiveProfiles
    BY DEF ActiveProfiles
  <1>5. Single'
    BY <1>1, <1>4 DEF VoiceInv, Single
  <1>6. VoiceServed'
    BY <1>4 DEF VoiceInv, VoiceServed
  <1>. QED  BY <1>2, <1>3, <1>5, <1>6 DEF VoiceInv

\* Nobody is at a desk, or the move is jostled.
LEMMA Sits ==
  ASSUME NEW d \in Desks, NEW ses, SitDown(d, ses)
  PROVE  /\ desk' = [desk EXCEPT ![d] = ses]
         /\ jostled => jostled'
         /\ ~jostled' => \A e \in Desks : desk[e].op = "none"
  BY DEF SitDown, AtDesks

LEMMA LeaveMoves ==
  ASSUME VoiceInv, NEW d \in Desks, Leave(d), UNCHANGED <<profiles, chosen>>, jostled => jostled'
  PROVE  VoiceInv'
  BY DeskMoves, NoDeskShaped DEF Leave

LEMMA ActivateStarts ==
  ASSUME VoiceInv, NEW d \in Desks, NEW v \in Versions, StartActivate(d, v)
  PROVE  VoiceInv'
  <1>. DEFINE ses == Replacing(v, FALSE)
  <1>1. v \in Nat /\ v \in DOMAIN profiles
    BY VoiceAssumption DEF StartActivate, Versions
  <1>2. SitDown(d, ses) /\ UNCHANGED <<profiles, chosen>>
    BY DEF StartActivate
  <1>3. /\ DOMAIN ses = Fields /\ ses.op = "lock" /\ ses.version = v /\ ses.made = FALSE
        /\ ses.seen = ActiveProfiles /\ ses.off = {}
    BY DEF Replacing, NoDesk, Fields
  <1>. HIDE DEF ses
  <1>4. /\ desk' = [desk EXCEPT ![d] = ses]
        /\ jostled => jostled'
        /\ ~jostled' => \A e \in Desks : desk[e].op = "none"
    BY <1>2, Sits
  <1>. QED  BY <1>1, <1>2, <1>3, <1>4, DeskMoves

LEMMA DistillStarts ==
  ASSUME VoiceInv, NEW d \in Desks, StartDistill(d)
  PROVE  VoiceInv'
  <1>. DEFINE ses == [NoDesk EXCEPT !.op = "distill"]
  <1>1. DOMAIN ses = Fields /\ ses.op = "distill"
    BY DEF NoDesk, Fields
  <1>2. SitDown(d, ses) /\ UNCHANGED <<profiles, chosen>>
    BY DEF StartDistill
  <1>. HIDE DEF ses
  <1>3. /\ desk' = [desk EXCEPT ![d] = ses]
        /\ jostled => jostled'
        /\ ~jostled' => \A e \in Desks : desk[e].op = "none"
    BY <1>2, Sits
  <1>. QED  BY <1>1, <1>2, <1>3, DeskMoves

LEMMA ReplaceStarts ==
  ASSUME VoiceInv, NEW d \in Desks, StartReplace(d)
  PROVE  VoiceInv'
  <1>. DEFINE v   == Len(profiles) + 1
              ses == Replacing(v, TRUE)
  <1>1. v \in Nat
    BY DEF VoiceInv, Numbered
  <1>2. desk' = [desk EXCEPT ![d] = ses] /\ UNCHANGED <<profiles, chosen, jostled>>
    BY DEF StartReplace
  <1>3. ~jostled => \A e \in Desks \ {d} : desk[e].op = "none"
    BY DEF StartReplace, VoiceInv, Single
  <1>4. /\ DOMAIN ses = Fields /\ ses.op = "lock" /\ ses.version = v /\ ses.made = TRUE
        /\ ses.seen = ActiveProfiles /\ ses.off = {}
    BY DEF Replacing, NoDesk, Fields
  <1>. HIDE DEF v, ses
  <1>. QED  BY <1>1, <1>2, <1>3, <1>4, DeskMoves

LEMMA ClearMoves ==
  ASSUME VoiceInv, NEW d \in Desks, NEW w \in Versions, ClearRow(d, w)
  PROVE  VoiceInv'
  <1>. DEFINE off == IF profiles[w] THEN desk[d].off \cup {w} ELSE desk[d].off
              ses == [desk[d] EXCEPT !.seen = @ \ {w}, !.off = off]
  <1>1. desk' = [desk EXCEPT ![d] = ses] /\ UNCHANGED <<profiles, chosen, jostled>>
    BY DEF ClearRow, VoiceInv, Shaped
  <1>2. /\ DOMAIN ses = Fields /\ ses.op = desk[d].op /\ ses.version = desk[d].version
        /\ ses.made = desk[d].made /\ ses.seen = desk[d].seen \ {w} /\ ses.off = off
    BY DEF VoiceInv, Shaped, Fields
  <1>3. desk[d].op = "lock" /\ w \in desk[d].seen
    BY DEF ClearRow
  <1>4. ~jostled => /\ ses.seen \cup ses.off = ActiveProfiles
                    /\ \A e \in Desks \ {d} : desk[e].op = "none"
    BY <1>2, <1>3 DEF VoiceInv, Single, ActiveProfiles
  <1>. HIDE DEF ses
  <1>. QED  BY <1>1, <1>2, <1>3, <1>4, DeskMoves DEF VoiceInv, Numbered

LEMMA OwnMoves ==
  ASSUME VoiceInv, NEW d \in Desks, SetOwn(d)
  PROVE  VoiceInv'
  <1>. DEFINE ses == [desk[d] EXCEPT !.op = "own"]
  <1>1. desk' = [desk EXCEPT ![d] = ses] /\ UNCHANGED <<profiles, chosen, jostled>>
    BY DEF SetOwn, VoiceInv, Shaped
  <1>2. /\ DOMAIN ses = Fields /\ ses.op = "own" /\ ses.version = desk[d].version
        /\ ses.made = desk[d].made /\ ses.seen = desk[d].seen /\ ses.off = desk[d].off
    BY DEF VoiceInv, Shaped, Fields
  <1>3. desk[d].op = "lock" /\ desk[d].seen = {} /\ (desk[d].made => desk[d].version = Len(profiles) + 1)
    BY DEF SetOwn
  <1>4. \A e \in Desks \ {d} : desk[e].op = "own" => desk[e].version # desk[d].version
    BY DEF SetOwn, Taken, HeldBy
  <1>5. ~jostled => /\ ses.off = ActiveProfiles
                    /\ \A e \in Desks \ {d} : desk[e].op = "none"
    BY <1>2, <1>3 DEF VoiceInv, Single
  <1>. HIDE DEF ses
  <1>. QED  BY <1>1, <1>2, <1>3, <1>4, <1>5, DeskMoves DEF VoiceInv, Numbered

\* The desk that clears what is active makes its version active, and nothing else.
LEMMA CommitMoves ==
  ASSUME VoiceInv, NEW d \in Desks, CommitProfile(d)
  PROVE  VoiceInv'
  <1>. DEFINE v == desk[d].version
  <1>1. /\ desk[d].op = "own" /\ chosen' = v /\ jostled' = jostled
        /\ profiles' = [u \in DOMAIN profiles \cup {v} |-> u = v \/ (u \notin desk[d].off /\ profiles[u])]
    BY DEF CommitProfile
  <1>2. DOMAIN desk' = Desks /\ desk'[d] = NoDesk /\ \A e \in Desks \ {d} : desk'[e] = desk[e]
    BY DEF CommitProfile, Leave, VoiceInv, Shaped
  <1>3. /\ v \in Nat /\ chosen' = v
        /\ v \in DOMAIN profiles \/ (desk[d].made /\ v = Len(profiles) + 1)
        /\ Len(profiles) \in Nat /\ DOMAIN profiles = 1 .. Len(profiles)
    BY <1>1 DEF VoiceInv, Numbered
  <1>. HIDE DEF v
  <1>4. DOMAIN profiles' = DOMAIN profiles \cup {v} /\ v \in ActiveProfiles'
    BY <1>1 DEF ActiveProfiles
  <1>5. Shaped'
    BY <1>2, NoDeskShaped DEF VoiceInv, Shaped
  <1>6. /\ profiles' \in Seq(BOOLEAN)
        /\ Len(profiles') = IF v \in DOMAIN profiles THEN Len(profiles) ELSE Len(profiles) + 1
    <2>. DEFINE n == IF v \in DOMAIN profiles THEN Len(profiles) ELSE Len(profiles) + 1
    <2>1. n \in Nat /\ 1 .. n = DOMAIN profiles \cup {v}
      BY <1>3
    <2>2. profiles' = [u \in 1 .. n |-> u = v \/ (u \notin desk[d].off /\ profiles[u])]
      BY <1>1, <2>1
    <2>3. \A u \in 1 .. n : (u = v \/ (u \notin desk[d].off /\ profiles[u])) \in BOOLEAN
      OBVIOUS
    <2>. HIDE DEF n
    <2>. QED  BY <2>1, <2>2, <2>3 DEF n
  <1>7. Numbered'
    <2>1. \A e \in Desks : desk'[e].op \in {"lock", "own"} =>
            /\ e # d /\ desk'[e] = desk[e] /\ desk[e].version \in Nat
            /\ ~desk[e].made => desk[e].version \in DOMAIN profiles'
      BY <1>2, <1>4, NoDeskShaped DEF VoiceInv, Numbered
    <2>2. \A e \in Desks : desk'[e].op = "own" /\ desk[e].made => desk[e].version = Len(profiles') + 1
      <3>1. \A e \in Desks : desk'[e].op = "own" /\ desk[e].made
              => desk[e].version = Len(profiles) + 1 /\ desk[e].version # v
        BY <1>1, <2>1 DEF v, VoiceInv, Numbered
      <3>. QED  BY <1>3, <1>6, <3>1
    <2>3. \A e, f \in Desks :
            desk'[e].op = "own" /\ desk'[f].op = "own" /\ desk'[e].version = desk'[f].version => e = f
      BY <2>1 DEF VoiceInv, Numbered
    <2>. QED  BY <1>3, <1>6, <2>1, <2>2, <2>3 DEF Numbered
  <1>8. Single'
    <2>1. CASE ~jostled
      <3>1. desk[d].off = ActiveProfiles /\ \A e \in Desks : desk'[e].op = "none"
        BY <1>1, <1>2, <2>1, NoDeskShaped DEF VoiceInv, Single
      <3>2. ActiveProfiles' = {v}
        BY <1>1, <3>1 DEF ActiveProfiles
      <3>. QED  BY <1>3, <3>1, <3>2 DEF Single
    <2>2. CASE jostled
      BY <1>1, <2>2 DEF Single
    <2>. QED  BY <2>1, <2>2
  <1>9. VoiceServed'
    BY <1>4 DEF VoiceServed
  <1>. QED  BY <1>5, <1>7, <1>8, <1>9 DEF VoiceInv

\* Approvals hold a desk like the others; persona edits and time leave the profiles alone.
LEMMA ApprovalMoves ==
  ASSUME VoiceInv, NEW d \in Desks,
         (\E asked \in Asked : BeginApproval(d, asked)) \/ CommitApproval(d) \/ LeaveEmpty(d)
  PROVE  VoiceInv'
  <1>1. ASSUME NEW asked \in Asked, BeginApproval(d, asked) PROVE VoiceInv'
    <2>. DEFINE ses == [NoDesk EXCEPT !.op = "approve", !.asked = asked, !.persona = Pick(asked)]
    <2>1. DOMAIN ses = Fields /\ ses.op = "approve"
      BY DEF NoDesk, Fields
    <2>2. SitDown(d, ses) /\ UNCHANGED <<profiles, chosen>>
      BY <1>1 DEF BeginApproval
    <2>. HIDE DEF ses
    <2>3. /\ desk' = [desk EXCEPT ![d] = ses]
          /\ jostled => jostled'
          /\ ~jostled' => \A e \in Desks : desk[e].op = "none"
      BY <2>2, Sits
    <2>. QED  BY <2>1, <2>2, <2>3, DeskMoves
  <1>2. CASE CommitApproval(d) \/ LeaveEmpty(d)
    BY <1>2, LeaveMoves DEF CommitApproval, LeaveEmpty
  <1>. QED  BY <1>1, <1>2

LEMMA NoDeskMoves ==
  ASSUME VoiceInv, UNCHANGED <<profiles, chosen, desk>>, jostled => jostled'
  PROVE  VoiceInv'
  BY DEF VoiceInv, Shaped, Numbered, Single, VoiceServed, ActiveProfiles

LEMMA VoiceStep == VoiceInv /\ [VoiceNext]_voiceVars => VoiceInv'
  <1>. SUFFICES ASSUME VoiceInv, [VoiceNext]_voiceVars PROVE VoiceInv'
    OBVIOUS
  <1>1. CASE RotationNext
    <2>1. CASE \E d \in Desks : (\E asked \in Asked : BeginApproval(d, asked)) \/ CommitApproval(d) \/ LeaveEmpty(d)
      BY <2>1, ApprovalMoves
    <2>2. ASSUME NEW name \in PersonaNames, CreateHouse(name) \/ CreateStudio(name) \/ DistillWriter(name)
          PROVE  VoiceInv'
      BY <2>2, NoDeskMoves DEF CreateHouse, CreateStudio, DistillWriter, NewPersona, Renew
    <2>3. ASSUME NEW i \in PersonaIds, NEW enabled \in BOOLEAN, SetEnabled(i, enabled)
          PROVE  VoiceInv'
      BY <2>3, NoDeskMoves DEF SetEnabled
    <2>. QED  BY <1>1, <2>1, <2>2, <2>3 DEF RotationNext
  <1>2. CASE ProfileNext
    <2>1. ASSUME NEW d \in Desks, NEW v \in Versions, StartActivate(d, v) \/ ClearRow(d, v)
          PROVE  VoiceInv'
      BY <2>1, ActivateStarts, ClearMoves
    <2>2. ASSUME NEW d \in Desks, \/ StartDistill(d) \/ StartReplace(d) \/ SetOwn(d)
                                  \/ CommitProfile(d) \/ LeaveEmpty(d)
          PROVE  VoiceInv'
      BY <2>2, DistillStarts, ReplaceStarts, OwnMoves, CommitMoves, ApprovalMoves
    <2>3. CASE Age
      BY <2>3, NoDeskMoves DEF Age
    <2>. QED  BY <1>2, <2>1, <2>2, <2>3 DEF ProfileNext
  <1>3. CASE UNCHANGED voiceVars
    BY <1>3, NoDeskMoves DEF voiceVars
  <1>. QED  BY <1>1, <1>2, <1>3 DEF VoiceNext

\* Once a brand has a profile one is active, whatever overlaps and whatever fails.
THEOREM VoicesServed == VoiceSpec => []VoiceServed
  <1>1. VoiceInv => VoiceServed
    BY DEF VoiceInv
  <1>. QED  BY <1>1, VoiceInitially, VoiceStep, PTL DEF VoiceSpec

\* While requests do not overlap, the profile activated or distilled last is the only active
\* one and the one that drafts are written in.
THEOREM ChosenSpeaks == VoiceSpec => []ChosenVoiceSpeaks
  <1>1. VoiceInv => ChosenVoiceSpeaks
    <2>. SUFFICES ASSUME VoiceInv, ~jostled, profiles # <<>>
                  PROVE  ActiveProfiles = {chosen} /\ ServedVersion = chosen
      BY DEF ChosenVoiceSpeaks
    <2>1. ActiveProfiles = {chosen} /\ chosen \in Nat
      BY DEF VoiceInv, Single, Numbered
    <2>2. (CHOOSE v \in {chosen} : \A w \in {chosen} : w <= v) = chosen
      BY <2>1
    <2>. QED  BY <2>1, <2>2 DEF ServedVersion
  <1>. QED  BY <1>1, VoiceInitially, VoiceStep, PTL DEF VoiceSpec

--------------------------------------------------------------------------------
(***************************************************************************)
(* Types                                                                   *)
(***************************************************************************)

LEMMA ModRange ==
  ASSUME NEW u \in Nat, NEW n \in Nat \ {0} PROVE u % n \in 0 .. n - 1
  OBVIOUS

LEMMA ModUnique ==
  ASSUME NEW q \in Int, NEW n \in Nat \ {0}, NEW r \in 0 .. n - 1 PROVE (n * q + r) % n = r
  OBVIOUS

LEMMA ModDivides ==
  ASSUME NEW u \in Nat, NEW n \in Nat \ {0}
  PROVE  u = n * (u \div n) + (u % n) /\ u \div n \in Int
  OBVIOUS

\* Counting on: the next remainder.
LEMMA ModNext ==
  ASSUME NEW u \in Nat, NEW n \in Nat \ {0}
  PROVE  (u + 1) % n = IF (u % n) + 1 = n THEN 0 ELSE (u % n) + 1
  <1>. DEFINE q == u \div n
              r == u % n
  <1>1. u = n * q + r /\ q \in Int /\ r \in 0 .. n - 1
    BY ModDivides, ModRange
  <1>. HIDE DEF q, r
  <1>2. CASE r + 1 = n
    <2>1. u + 1 = n * (q + 1) + 0 /\ q + 1 \in Int /\ 0 \in 0 .. n - 1
      BY <1>1, <1>2
    <2>2. (n * (q + 1) + 0) % n = 0
      BY <2>1, ModUnique
    <2>. QED  BY <1>2, <2>1, <2>2 DEF r
  <1>3. CASE r + 1 # n
    <2>1. u + 1 = n * q + (r + 1) /\ r + 1 \in 0 .. n - 1
      BY <1>1, <1>3
    <2>2. (n * q + (r + 1)) % n = r + 1
      BY <1>1, <2>1, ModUnique
    <2>. QED  BY <1>3, <2>1, <2>2 DEF r
  <1>. QED  BY <1>2, <1>3 DEF r

LEMMA NoDeskTyped == NoDesk \in Desk
  BY VoiceAssumption DEF NoDesk, Desk, DeskOps, Asked, InTurn

LEMMA PoolTyped ==
  ASSUME VoiceTypeOK
  PROVE  /\ DOMAIN personas = 1 .. Len(personas) /\ DOMAIN personas \subseteq PersonaIds
         /\ Pool \subseteq PersonaIds /\ IsFiniteSet(Pool)
         /\ Cardinality(Pool) \in Nat /\ (Pool # {} => Cardinality(Pool) \in Nat \ {0})
  <1>1. /\ DOMAIN personas = 1 .. Len(personas) /\ Len(personas) \in Nat
        /\ DOMAIN personas \subseteq PersonaIds
    BY VoiceAssumption DEF VoiceTypeOK, PersonaIds
  <1>2. Pool \subseteq DOMAIN personas
    BY DEF Pool
  <1>3. IsFiniteSet(Pool)
    <2>1. IsFiniteSet(1 .. Len(personas))
      BY <1>1, FS_Interval
    <2>. QED  BY <1>1, <1>2, <2>1, FS_Subset
  <1>. QED  BY <1>1, <1>2, <1>3, FS_CardinalityType, FS_EmptySet

\* The enabled personas are counted off, from the first to the last.
LEMMA PoolRanked ==
  ASSUME VoiceTypeOK, Pool # {}
  PROVE  /\ \A i \in Pool : Before(i) \in 0 .. Cardinality(Pool) - 1
         /\ \A i, j \in Pool : Before(i) = Before(j) => i = j
         /\ \A p \in 0 .. Cardinality(Pool) - 1 : \E i \in Pool : Before(i) = p
  <1>. DEFINE n == Cardinality(Pool)
              B(i) == {j \in Pool : j < i}
  <1>1. n \in Nat \ {0} /\ IsFiniteSet(Pool) /\ \A i \in Pool : i \in Nat
    BY PoolTyped DEF PersonaIds
  <1>. HIDE DEF n
  <1>2. ASSUME NEW i \in Pool
        PROVE  IsFiniteSet(B(i)) /\ Before(i) \in Nat /\ Before(i) < n
    <2>1. B(i) \in SUBSET Pool /\ B(i) # Pool
      BY <1>1
    <2>2. /\ IsFiniteSet(B(i)) /\ Cardinality(B(i)) <= n
          /\ n = Cardinality(B(i)) => Pool = B(i)
      BY <1>1, <2>1, FS_Subset DEF n
    <2>3. Cardinality(B(i)) \in Nat
      BY <2>2, FS_CardinalityType
    <2>. QED  BY <1>1, <2>1, <2>2, <2>3 DEF Before, n
  <1>3. ASSUME NEW i \in Pool, NEW j \in Pool, i < j
        PROVE  Before(i) < Before(j)
    <2>1. B(i) \in SUBSET B(j) /\ i \in B(j) /\ i \notin B(i)
      BY <1>1, <1>3
    <2>2. /\ Cardinality(B(i)) <= Cardinality(B(j))
          /\ Cardinality(B(j)) = Cardinality(B(i)) => B(j) = B(i)
      BY <1>2, <2>1, FS_Subset
    <2>3. Before(i) = Cardinality(B(i)) /\ Before(j) = Cardinality(B(j))
      BY DEF Before
    <2>. QED  BY <1>2, <2>1, <2>2, <2>3
  <1>. HIDE DEF B
  <1>4. \A i, j \in Pool : Before(i) = Before(j) => i = j
    <2>. SUFFICES ASSUME NEW i \in Pool, NEW j \in Pool, Before(i) = Before(j), i # j PROVE FALSE
      OBVIOUS
    <2>1. i < j \/ j < i
      BY <1>1
    <2>2. Before(i) \in Nat /\ Before(j) \in Nat
      BY <1>2
    <2>. QED  BY <1>3, <2>1, <2>2
  <1>5. \A i \in Pool : Before(i) \in 0 .. n - 1
    BY <1>1, <1>2
  <1>6. \A p \in 0 .. n - 1 : \E i \in Pool : Before(i) = p
    <2>. DEFINE f == [i \in Pool |-> Before(i)]
    <2>1. f \in Injection(Pool, 0 .. n - 1)
      BY <1>4, <1>5 DEF Injection, IsInjective
    <2>2. IsFiniteSet(0 .. n - 1) /\ Cardinality(0 .. n - 1) = n
      BY <1>1, FS_Interval
    <2>3. f \in Surjection(Pool, 0 .. n - 1)
      BY <2>1, <2>2, FS_Injection DEF n
    <2>. QED  BY <2>3 DEF Surjection
  <1>. QED  BY <1>4, <1>5, <1>6 DEF n

LEMMA UsedCounts ==
  ASSUME VoiceTypeOK
  PROVE  Used \in Nat /\ IsFiniteSet({n \in DOMAIN voiced : voiced[n].persona # NoPersona})
  <1>1. DOMAIN voiced = 1 .. Len(voiced) /\ Len(voiced) \in Nat
    BY DEF VoiceTypeOK
  <1>2. {n \in DOMAIN voiced : voiced[n].persona # NoPersona} \in SUBSET (1 .. Len(voiced))
    BY <1>1
  <1>3. IsFiniteSet(1 .. Len(voiced))
    BY <1>1, FS_Interval
  <1>4. IsFiniteSet({n \in DOMAIN voiced : voiced[n].persona # NoPersona})
    BY <1>2, <1>3, FS_Subset
  <1>. QED  BY <1>4, FS_CardinalityType DEF Used

LEMMA UsedGrows ==
  ASSUME VoiceTypeOK, NEW p \in Pipeline, voiced' = Append(voiced, p)
  PROVE  Used' = IF p.persona # NoPersona THEN Used + 1 ELSE Used
  <1>. DEFINE U == {n \in DOMAIN voiced : voiced[n].persona # NoPersona}
              V == {n \in DOMAIN voiced' : voiced'[n].persona # NoPersona}
              k == Len(voiced) + 1
  <1>1. /\ voiced \in Seq(Pipeline) /\ Len(voiced) \in Nat /\ DOMAIN voiced = 1 .. Len(voiced)
        /\ DOMAIN voiced' = 1 .. k /\ voiced'[k] = p
        /\ \A n \in DOMAIN voiced : voiced'[n] = voiced[n]
    BY DEF VoiceTypeOK
  <1>2. k \notin U /\ V = IF p.persona # NoPersona THEN U \cup {k} ELSE U
    BY <1>1
  <1>3. IsFiniteSet(U) /\ Used = Cardinality(U) /\ Used' = Cardinality(V)
    BY UsedCounts DEF Used
  <1>. HIDE DEF U, V, k
  <1>. QED  BY <1>2, <1>3, FS_AddElement

LEMMA PickIs ==
  ASSUME VoiceTypeOK
  PROVE  /\ \A asked \in Asked : Pick(asked) \in PersonaIds \cup {NoPersona}
         /\ Pool = {} => Pick(InTurn) = NoPersona
         /\ Pool # {} => /\ Pick(InTurn) \in Pool
                         /\ Before(Pick(InTurn)) = Used % Cardinality(Pool)
  <1>1. InTurn \notin DOMAIN personas
    BY PoolTyped DEF InTurn, PersonaIds
  <1>2. Pool = {} => Pick(InTurn) = NoPersona
    BY <1>1 DEF Pick
  <1>3. ASSUME Pool # {}
        PROVE  Pick(InTurn) \in Pool /\ Before(Pick(InTurn)) = Used % Cardinality(Pool)
    <2>1. Used % Cardinality(Pool) \in 0 .. Cardinality(Pool) - 1
      BY <1>3, UsedCounts, PoolTyped, ModRange
    <2>2. \E i \in Pool : Before(i) = Used % Cardinality(Pool)
      BY <1>3, <2>1, PoolRanked
    <2>3. Pick(InTurn) = CHOOSE i \in Pool : Before(i) = Used % Cardinality(Pool)
      BY <1>1, <1>3 DEF Pick
    <2>. QED  BY <2>2, <2>3
  <1>4. ASSUME NEW asked \in Asked
        PROVE  Pick(asked) \in PersonaIds \cup {NoPersona}
    <2>1. CASE asked = InTurn
      BY <1>2, <1>3, <2>1, PoolTyped
    <2>2. CASE asked # InTurn
      BY <2>2, PoolTyped DEF Pick
    <2>. QED  BY <2>1, <2>2
  <1>. QED  BY <1>2, <1>3, <1>4

\* A desk sits down, moves on or leaves; no more.
LEMMA DeskTyped ==
  ASSUME VoiceTypeOK, NEW d \in Desks, NEW ses \in Desk, desk' = [desk EXCEPT ![d] = ses],
         UNCHANGED <<profiles, young, personas, voiced, chosen, muted, turns>>,
         jostled' \in BOOLEAN
  PROVE  VoiceTypeOK'
  BY DEF VoiceTypeOK

LEMMA VoiceTypeStep ==
  ASSUME VoiceTypeOK, VoiceInv, [VoiceNext]_voiceVars
  PROVE  VoiceTypeOK'
  <1>. DEFINE Sat == (jostled \/ AtDesks # {}) \in BOOLEAN
  <1>1. Sat
    BY Zenon DEF VoiceTypeOK
  <1>2. ASSUME NEW d \in Desks, NEW asked \in Asked, BeginApproval(d, asked)
        PROVE  VoiceTypeOK'
    <2>. DEFINE ses == [NoDesk EXCEPT !.op = "approve", !.asked = asked, !.persona = Pick(asked)]
    <2>1. Pick(asked) \in PersonaIds \cup {NoPersona}
      BY PickIs
    <2>2. ses \in Desk
      BY <2>1, NoDeskTyped DEF Desk, DeskOps
    <2>. QED  BY <1>1, <1>2, <2>2, DeskTyped DEF BeginApproval, SitDown
  <1>3. ASSUME NEW d \in Desks, CommitApproval(d)
        PROVE  VoiceTypeOK'
    <2>1. PICK n \in JobCounts : voiced' = Append(voiced, [persona |-> desk[d].persona, jobs |-> n])
      BY <1>3 DEF CommitApproval
    <2>2. desk[d].persona \in PersonaIds \cup {NoPersona}
      BY DEF VoiceTypeOK, Desk
    <2>3. [persona |-> desk[d].persona, jobs |-> n] \in Pipeline
      BY <2>2 DEF Pipeline
    <2>4. voiced' \in Seq(Pipeline) /\ Len(voiced') <= MaxApprovals
      BY <1>3, <2>1, <2>3, VoiceAssumption DEF VoiceTypeOK, CommitApproval
    <2>5. turns' \in [PersonaIds -> Nat]
      <3>1. NoTurns \in [PersonaIds -> Nat]
        BY DEF NoTurns
      <3>2. \A i \in PersonaIds : turns[i] + (IF i = desk[d].persona THEN 1 ELSE 0) \in Nat
        BY DEF VoiceTypeOK
      <3>. QED  BY <1>3, <3>1, <3>2 DEF CommitApproval
    <2>6. desk' \in [Desks -> Desk]
      BY <1>3, NoDeskTyped DEF CommitApproval, Leave, VoiceTypeOK
    <2>. QED  BY <1>3, <2>4, <2>5, <2>6 DEF CommitApproval, VoiceTypeOK
  <1>4. ASSUME NEW d \in Desks, LeaveEmpty(d)
        PROVE  VoiceTypeOK'
    <2>1. jostled' \in BOOLEAN
      BY <1>4 DEF LeaveEmpty, VoiceTypeOK
    <2>. QED  BY <1>4, <2>1, NoDeskTyped, DeskTyped DEF LeaveEmpty, Leave
  <1>5. ASSUME NEW kind \in Kinds, NEW name \in PersonaNames, NewPersona(kind, name)
        PROVE  VoiceTypeOK'
    <2>1. [kind |-> kind, name |-> name, enabled |-> TRUE] \in Persona
      BY DEF Persona
    <2>2. personas' \in Seq(Persona) /\ Len(personas') <= MaxPersonas
          /\ DOMAIN personas \subseteq DOMAIN personas'
      BY <1>5, <2>1, VoiceAssumption DEF NewPersona, VoiceTypeOK
    <2>3. turns' \in [PersonaIds -> Nat]
      BY <1>5 DEF NewPersona, NoTurns
    <2>. QED  BY <1>1, <1>5, <2>2, <2>3 DEF NewPersona, VoiceTypeOK
  <1>6. ASSUME NEW i \in DOMAIN personas, Renew(i)
        PROVE  VoiceTypeOK'
    BY <1>1, <1>6 DEF Renew, VoiceTypeOK
  <1>7. ASSUME NEW i \in PersonaIds, NEW enabled \in BOOLEAN, SetEnabled(i, enabled)
        PROVE  VoiceTypeOK'
    <2>1. i \in DOMAIN personas /\ personas' = [personas EXCEPT ![i].enabled = enabled]
      BY <1>7 DEF SetEnabled
    <2>2. [personas[i] EXCEPT !.enabled = enabled] \in Persona
      <3>1. personas[i] \in Persona
        BY <2>1 DEF VoiceTypeOK
      <3>. QED  BY <3>1 DEF Persona
    <2>3. personas' = [personas EXCEPT ![i] = [personas[i] EXCEPT !.enabled = enabled]]
      BY <2>1
    <2>4. /\ personas' \in Seq(Persona) /\ Len(personas') = Len(personas)
          /\ DOMAIN personas' = DOMAIN personas
      BY <2>1, <2>2, <2>3 DEF VoiceTypeOK
    <2>5. turns' \in [PersonaIds -> Nat] /\ muted' \subseteq DOMAIN personas
      BY <1>7, <2>1 DEF SetEnabled, NoTurns, VoiceTypeOK
    <2>. QED  BY <1>1, <1>7, <2>4, <2>5 DEF SetEnabled, VoiceTypeOK
  <1>8. ASSUME NEW d \in Desks, NEW v \in Versions, StartActivate(d, v)
        PROVE  VoiceTypeOK'
    <2>1. ActiveProfiles \subseteq Versions
      BY VoiceAssumption DEF ActiveProfiles, VoiceTypeOK, Versions
    <2>2. v \in 0 .. MaxVersions
      BY VoiceAssumption DEF Versions
    <2>3. Replacing(v, FALSE) \in Desk
      BY <2>1, <2>2, NoDeskTyped DEF Replacing, Desk, DeskOps
    <2>. QED  BY <1>1, <1>8, <2>3, DeskTyped DEF StartActivate, SitDown
  <1>9. ASSUME NEW d \in Desks, StartDistill(d)
        PROVE  VoiceTypeOK'
    <2>1. [NoDesk EXCEPT !.op = "distill"] \in Desk
      BY NoDeskTyped DEF Desk, DeskOps
    <2>. QED  BY <1>1, <1>9, <2>1, DeskTyped DEF StartDistill, SitDown
  <1>10. ASSUME NEW d \in Desks, StartReplace(d)
         PROVE  VoiceTypeOK'
    <2>1. ActiveProfiles \subseteq Versions
      BY VoiceAssumption DEF ActiveProfiles, VoiceTypeOK, Versions
    <2>2. Len(profiles) + 1 \in 0 .. MaxVersions
      BY <1>10, VoiceAssumption DEF StartReplace, VoiceTypeOK
    <2>3. Replacing(Len(profiles) + 1, TRUE) \in Desk
      BY <2>1, <2>2, NoDeskTyped DEF Replacing, Desk, DeskOps
    <2>4. jostled' \in BOOLEAN
      BY <1>10 DEF StartReplace, VoiceTypeOK
    <2>. QED  BY <1>10, <2>3, <2>4, DeskTyped DEF StartReplace
  <1>11. ASSUME NEW d \in Desks, NEW w, ClearRow(d, w)
         PROVE  VoiceTypeOK'
    <2>. DEFINE S == desk[d].seen \ {w}
                O == IF profiles[w] THEN desk[d].off \cup {w} ELSE desk[d].off
    <2>1. desk[d] \in Desk /\ w \in desk[d].seen
      BY <1>11 DEF VoiceTypeOK, ClearRow
    <2>2. S \in SUBSET Versions /\ O \in SUBSET Versions
      BY <2>1 DEF Desk
    <2>3. desk' = [desk EXCEPT ![d].seen = S, ![d].off = O]
      BY <1>11 DEF ClearRow
    <2>. HIDE DEF S, O
    <2>4. [desk[d] EXCEPT !.seen = S, !.off = O] \in Desk
      BY <2>1, <2>2 DEF Desk
    <2>5. desk' = [desk EXCEPT ![d] = [desk[d] EXCEPT !.seen = S, !.off = O]]
      BY <2>3 DEF VoiceTypeOK
    <2>6. jostled' \in BOOLEAN
      BY <1>11 DEF ClearRow, VoiceTypeOK
    <2>. QED  BY <1>11, <2>4, <2>5, <2>6, DeskTyped DEF ClearRow
  <1>12. ASSUME NEW d \in Desks, SetOwn(d)
         PROVE  VoiceTypeOK'
    <2>1. [desk[d] EXCEPT !.op = "own"] \in Desk
      BY DEF VoiceTypeOK, Desk, DeskOps
    <2>2. desk' = [desk EXCEPT ![d] = [desk[d] EXCEPT !.op = "own"]]
      BY <1>12 DEF SetOwn, VoiceTypeOK
    <2>3. jostled' \in BOOLEAN
      BY <1>12 DEF SetOwn, VoiceTypeOK
    <2>. QED  BY <1>12, <2>1, <2>2, <2>3, DeskTyped DEF SetOwn
  <1>13. ASSUME NEW d \in Desks, CommitProfile(d)
         PROVE  VoiceTypeOK'
    <2>. DEFINE v == desk[d].version
    <2>1. VoiceInv'
      BY <1>13, CommitMoves
    <2>2. profiles' \in Seq(BOOLEAN) /\ DOMAIN profiles' = 1 .. Len(profiles') /\ Len(profiles') \in Nat
      BY <2>1 DEF VoiceInv, Numbered
    <2>3. DOMAIN profiles' = DOMAIN profiles \cup {v} /\ v \in 0 .. MaxVersions
      BY <1>13 DEF CommitProfile, VoiceTypeOK, Desk
    <2>4. Len(profiles') <= MaxVersions
      <3>1. \A u \in DOMAIN profiles' : u <= MaxVersions
        BY <2>3, VoiceAssumption DEF VoiceTypeOK
      <3>2. CASE Len(profiles') = 0
        BY <3>2, VoiceAssumption
      <3>3. CASE Len(profiles') # 0
        <4>1. Len(profiles') \in DOMAIN profiles'
          BY <2>2, <3>3
        <4>. QED  BY <3>1, <4>1
      <3>. QED  BY <3>2, <3>3
    <2>5. young' \subseteq DOMAIN profiles'
      BY <1>13, <2>3 DEF CommitProfile, VoiceTypeOK
    <2>6. desk' \in [Desks -> Desk] /\ chosen' \in 0 .. MaxVersions
      BY <1>13, <2>3, NoDeskTyped DEF CommitProfile, Leave, VoiceTypeOK
    <2>. QED  BY <1>13, <2>2, <2>4, <2>5, <2>6 DEF CommitProfile, VoiceTypeOK
  <1>14. ASSUME Age \/ UNCHANGED voiceVars PROVE VoiceTypeOK'
    BY <1>14 DEF Age, voiceVars, VoiceTypeOK
  <1>15. CASE RotationNext
    <2>1. "house" \in Kinds /\ "writer" \in Kinds
      BY DEF Kinds
    <2>. QED  BY <1>2, <1>3, <1>4, <1>5, <1>6, <1>7, <1>15, <2>1
              DEF RotationNext, CreateHouse, CreateStudio, DistillWriter
  <1>16. CASE ProfileNext
    BY <1>4, <1>8, <1>9, <1>10, <1>11, <1>12, <1>13, <1>14, <1>16 DEF ProfileNext
  <1>. QED  BY <1>14, <1>15, <1>16 DEF VoiceNext

LEMMA VoiceInvariant == VoiceSpec => [](VoiceInv /\ VoiceTypeOK)
  <1>1. VoiceInit => VoiceTypeOK
    <2>. SUFFICES ASSUME VoiceInit PROVE VoiceTypeOK
      OBVIOUS
    <2>1. profiles \in Seq(BOOLEAN) /\ personas \in Seq(Persona) /\ voiced \in Seq(Pipeline)
          /\ Len(profiles) = 0 /\ Len(personas) = 0 /\ Len(voiced) = 0
      BY DEF VoiceInit
    <2>2. desk \in [Desks -> Desk] /\ turns \in [PersonaIds -> Nat]
      BY NoDeskTyped DEF VoiceInit
    <2>3. young \subseteq DOMAIN profiles /\ muted \subseteq DOMAIN personas
      BY DEF VoiceInit
    <2>4. chosen \in 0 .. MaxVersions
      BY VoiceAssumption DEF VoiceInit
    <2>5. jostled \in BOOLEAN
      BY DEF VoiceInit
    <2>. QED  BY <2>1, <2>2, <2>3, <2>4, <2>5, VoiceAssumption DEF VoiceTypeOK
  <1>. QED  BY <1>1, VoiceInitially, VoiceStep, VoiceTypeStep, PTL DEF VoiceSpec

\* The rows, the desks and the counts keep their types.
THEOREM VoiceTypeCorrect == VoiceSpec => []VoiceTypeOK
  BY VoiceInvariant, PTL

--------------------------------------------------------------------------------
(***************************************************************************)
(* The rotation.  Since turns were last counted from nothing, the personas *)
(* have spoken in a circle: from the place where the counting began to the *)
(* one whose turn it is next, each has spoken once more than the others.   *)
(***************************************************************************)

\* Place p lies in the circle from place a on and before place u.
From(a, p, u) == IF a <= u THEN a <= p /\ p < u ELSE a <= p \/ p < u

InCircle ==
  Pool # {} =>
    \E a \in 0 .. Cardinality(Pool) - 1, laps \in Nat :
      \A i \in Pool :
        turns[i] = laps + IF From(a, Before(i), Used % Cardinality(Pool)) THEN 1 ELSE 0

Silent == \A i \in PersonaIds \ Pool : turns[i] = 0

\* What an approval has resolved is what it would resolve now.
FreshPick == \A d \in Desks : desk[d].op = "approve" => desk[d].persona = Pick(desk[d].asked)

Rotation ==
  /\ muted = DOMAIN personas \ Pool
  /\ ~jostled => InCircle /\ Silent /\ FreshPick

\* Counting starts from nothing.
LEMMA CircleStarts ==
  ASSUME VoiceTypeOK, turns = NoTurns
  PROVE  InCircle /\ Silent
  <1>1. \A i \in PersonaIds : turns[i] = 0
    BY DEF NoTurns
  <1>2. Silent
    BY <1>1 DEF Silent
  <1>3. InCircle
    <2>. SUFFICES ASSUME Pool # {}
                  PROVE  \E a \in 0 .. Cardinality(Pool) - 1, laps \in Nat : \A i \in Pool :
                           turns[i] = laps + IF From(a, Before(i), Used % Cardinality(Pool)) THEN 1 ELSE 0
      BY DEF InCircle
    <2>. DEFINE a == Used % Cardinality(Pool)
    <2>1. a \in 0 .. Cardinality(Pool) - 1 /\ a \in Int
      <3>1. Used \in Nat /\ Cardinality(Pool) \in Nat \ {0}
        BY UsedCounts, PoolTyped
      <3>. QED  BY <3>1, ModRange
    <2>2. \A i \in Pool : Before(i) \in Int
      BY PoolRanked
    <2>. HIDE DEF a
    <2>3. \A i \in Pool : ~From(a, Before(i), a)
      BY <2>1, <2>2 DEF From
    <2>4. \A i \in Pool : turns[i] = 0 + IF From(a, Before(i), a) THEN 1 ELSE 0
      BY <1>1, <2>3, PoolTyped
    <2>. QED  BY <2>1, <2>4 DEF a
  <1>. QED  BY <1>2, <1>3

\* Counts after that many laps, when the one at place u has spoken and it is v's turn, are
\* those after some number of laps.
Grows(n, laps, a, u, v) ==
  \E more \in Nat : \A p \in 0 .. n - 1 :
    (laps + IF From(a, p, u) THEN 1 ELSE 0) + (IF p = u THEN 1 ELSE 0)
      = more + IF From(a, p, v) THEN 1 ELSE 0

\* Where everybody has spoken once more a new lap begins; otherwise the circle grows by one.
LEMMA CircleGrows ==
  ASSUME NEW n \in Nat \ {0}, NEW a \in 0 .. n - 1, NEW u \in 0 .. n - 1, NEW laps \in Nat,
         NEW v, v = IF u + 1 = n THEN 0 ELSE u + 1
  PROVE  Grows(n, laps, a, u, v)
  <1>1. CASE v = a
    <2>1. \A p \in 0 .. n - 1 :
            (laps + IF From(a, p, u) THEN 1 ELSE 0) + (IF p = u THEN 1 ELSE 0)
             = (laps + 1) + IF From(a, p, v) THEN 1 ELSE 0
      BY <1>1 DEF From
    <2>. QED  BY <2>1 DEF Grows
  <1>2. CASE v # a
    <2>1. \A p \in 0 .. n - 1 :
            (laps + IF From(a, p, u) THEN 1 ELSE 0) + (IF p = u THEN 1 ELSE 0)
             = laps + IF From(a, p, v) THEN 1 ELSE 0
      BY <1>2 DEF From
    <2>. QED  BY <2>1 DEF Grows
  <1>. QED  BY <1>1, <1>2

LEMMA Steady ==
  ASSUME VoiceTypeOK, UNCHANGED <<personas, voiced>>
  PROVE  /\ Pool' = Pool /\ Used' = Used /\ \A i : Before(i)' = Before(i)
         /\ \A asked \in Asked : Pick(asked)' = Pick(asked)
  <1>1. Pool' = Pool /\ Used' = Used
    BY DEF Pool, Used
  <1>2. \A i : Before(i)' = Before(i)
    BY <1>1 DEF Before
  <1>. QED  BY <1>1, <1>2 DEF Pick

\* Desks come and go, and nobody is voiced.
LEMMA NobodyVoiced ==
  ASSUME VoiceTypeOK, Rotation, UNCHANGED <<personas, voiced, muted, turns>>,
         jostled => jostled',
         ~jostled' => \A d \in Desks : desk'[d].op = "approve" =>
           \/ desk[d].op = "approve" /\ desk'[d].asked = desk[d].asked
              /\ desk'[d].persona = desk[d].persona /\ desk[d].asked \in Asked
           \/ desk'[d].asked \in Asked /\ desk'[d].persona = Pick(desk'[d].asked)
  PROVE  Rotation'
  <1>1. Pool' = Pool /\ Used' = Used /\ \A i : Before(i)' = Before(i)
    BY Steady
  <1>2. \A asked \in Asked : Pick(asked)' = Pick(asked)
    BY Steady
  <1>3. muted' = DOMAIN personas' \ Pool'
    BY <1>1 DEF Rotation
  <1>4. ASSUME ~jostled' PROVE InCircle' /\ Silent' /\ FreshPick'
    <2>1. InCircle /\ Silent /\ FreshPick
      BY <1>4 DEF Rotation
    <2>2. InCircle'
      BY <1>1, <2>1 DEF InCircle
    <2>3. Silent'
      BY <1>1, <2>1 DEF Silent
    <2>4. FreshPick'
      BY <1>2, <1>4, <2>1 DEF FreshPick
    <2>. QED  BY <2>2, <2>3, <2>4
  <1>. QED  BY <1>3, <1>4 DEF Rotation

LEMMA ApprovalTurns ==
  ASSUME VoiceTypeOK, VoiceTypeOK', VoiceInv, Rotation, NEW d \in Desks, CommitApproval(d)
  PROVE  Rotation'
  <1>. DEFINE i == desk[d].persona
  <1>1. /\ UNCHANGED <<personas, muted, jostled>> /\ desk' = [desk EXCEPT ![d] = NoDesk]
        /\ desk[d].op = "approve" /\ desk[d].asked \in Asked /\ i \in PersonaIds \cup {NoPersona}
    BY DEF CommitApproval, Leave, VoiceTypeOK, Desk
  <1>2. Pool' = Pool /\ \A j : Before(j)' = Before(j)
    BY <1>1 DEF Pool, Before
  <1>3. muted' = DOMAIN personas' \ Pool'
    BY <1>1, <1>2 DEF Rotation
  <1>. SUFFICES ASSUME ~jostled PROVE InCircle' /\ Silent' /\ FreshPick'
    BY <1>1, <1>3 DEF Rotation
  <1>4. InCircle /\ Silent /\ i = Pick(desk[d].asked)
    BY <1>1 DEF Rotation, FreshPick
  <1>5. FreshPick'
    <2>1. \A e \in Desks \ {d} : desk[e].op = "none"
      BY <1>1 DEF VoiceInv, Single
    <2>2. \A e \in Desks : desk'[e].op # "approve"
      BY <1>1, <2>1, NoDeskShaped DEF VoiceTypeOK
    <2>. QED  BY <2>2 DEF FreshPick
  <1>6. CASE desk[d].asked # InTurn
    <2>1. turns' = NoTurns
      BY <1>6 DEF CommitApproval
    <2>2. (VoiceTypeOK /\ turns = NoTurns => InCircle /\ Silent)'
      BY CircleStarts, PTL
    <2>. QED  BY <1>5, <2>1, <2>2 DEF NoTurns
  <1>7. CASE desk[d].asked = InTurn
    <2>1. \A j \in PersonaIds : turns'[j] = turns[j] + IF j = i THEN 1 ELSE 0
      BY <1>7 DEF CommitApproval
    <2>2. Used' = IF i # NoPersona THEN Used + 1 ELSE Used
      <3>1. PICK k \in JobCounts : voiced' = Append(voiced, [persona |-> i, jobs |-> k])
        BY DEF CommitApproval
      <3>2. [persona |-> i, jobs |-> k] \in Pipeline
        BY <1>1 DEF Pipeline
      <3>. HIDE DEF i
      <3>. QED  BY <3>1, <3>2, UsedGrows
    <2>. HIDE DEF i
    <2>3. Silent'
      <3>1. i \in Pool \/ i = NoPersona
        BY <1>4, <1>7, PickIs
      <3>2. NoPersona \notin PersonaIds
        BY DEF NoPersona, PersonaIds
      <3>. QED  BY <1>2, <1>4, <2>1, <3>1, <3>2, PoolTyped DEF Silent, VoiceTypeOK
    <2>4. InCircle'
      <3>. SUFFICES ASSUME Pool # {}
                    PROVE  \E a \in 0 .. Cardinality(Pool) - 1, laps \in Nat : \A j \in Pool :
                             turns'[j] = laps + IF From(a, Before(j), Used' % Cardinality(Pool)) THEN 1 ELSE 0
        BY <1>2 DEF InCircle
      <3>. DEFINE n == Cardinality(Pool)
                  u == Used % n
                  v == Used' % n
      <3>1. n \in Nat \ {0} /\ Used \in Nat /\ u \in 0 .. n - 1
        BY PoolTyped, UsedCounts, ModRange
      <3>2. i \in Pool /\ i \in PersonaIds /\ Before(i) = u /\ i # NoPersona
        BY <1>4, <1>7, PickIs, PoolTyped DEF NoPersona, PersonaIds
      <3>3. v = IF u + 1 = n THEN 0 ELSE u + 1
        BY <2>2, <3>1, <3>2, ModNext
      <3>4. PICK a \in 0 .. n - 1, laps \in Nat :
              \A j \in Pool : turns[j] = laps + IF From(a, Before(j), u) THEN 1 ELSE 0
        BY <1>4 DEF InCircle
      <3>5. \A j \in Pool : Before(j) \in 0 .. n - 1 /\ (j = i <=> Before(j) = u) /\ j \in PersonaIds
        BY <3>2, PoolRanked, PoolTyped
      <3>. HIDE DEF n, u, v
      <3>6. Grows(n, laps, a, u, v)
        BY <3>1, <3>3, <3>4, CircleGrows
      <3>7. PICK more \in Nat : \A p \in 0 .. n - 1 :
              (laps + IF From(a, p, u) THEN 1 ELSE 0) + (IF p = u THEN 1 ELSE 0)
                = more + IF From(a, p, v) THEN 1 ELSE 0
        BY <3>6 DEF Grows
      <3>8. \A j \in Pool : turns'[j] = more + IF From(a, Before(j), v) THEN 1 ELSE 0
        BY <2>1, <3>4, <3>5, <3>7
      <3>. QED  BY <3>8 DEF n, v
    <2>. QED  BY <1>5, <2>3, <2>4
  <1>. QED  BY <1>6, <1>7

\* The rotation is touched: turns are counted anew.
LEMMA RotationTouched ==
  ASSUME VoiceTypeOK', muted' = DOMAIN personas' \ Pool', turns' = NoTurns, UNCHANGED desk,
         ~jostled' => \A d \in Desks : desk[d].op = "none"
  PROVE  Rotation'
  <1>1. (VoiceTypeOK /\ turns = NoTurns => InCircle /\ Silent)'
    BY CircleStarts, PTL
  <1>2. NoTurns' = NoTurns
    BY DEF NoTurns
  <1>3. ~jostled' => FreshPick'
    BY DEF FreshPick
  <1>. QED  BY <1>1, <1>2, <1>3 DEF Rotation

LEMMA RotationStep ==
  ASSUME VoiceTypeOK, VoiceTypeOK', VoiceInv, Rotation, [VoiceNext]_voiceVars
  PROVE  Rotation'
  <1>1. (jostled \/ AtDesks # {}) = FALSE => ~jostled /\ \A d \in Desks : desk[d].op = "none"
    BY DEF AtDesks
  <1>2. \A d \in Desks : desk[d] \in Desk /\ desk[d].asked \in Asked
    BY DEF VoiceTypeOK, Desk
  <1>3. ASSUME NEW d \in Desks, NEW ses \in Desk, desk' = [desk EXCEPT ![d] = ses],
               ses.op = "approve" => ses.persona = Pick(ses.asked),
               UNCHANGED <<personas, voiced, muted, turns>>, jostled => jostled'
        PROVE  Rotation'
    <2>1. desk'[d] = ses /\ \A e \in Desks \ {d} : desk'[e] = desk[e]
      BY <1>3 DEF VoiceTypeOK
    <2>2. ses.asked \in Asked
      BY DEF Desk
    <2>. QED  BY <1>2, <1>3, <2>1, <2>2, NobodyVoiced
  <1>4. ASSUME NEW d \in Desks, NEW asked \in Asked, BeginApproval(d, asked)
        PROVE  Rotation'
    <2>. DEFINE ses == [NoDesk EXCEPT !.op = "approve", !.asked = asked, !.persona = Pick(asked)]
    <2>1. ses \in Desk /\ ses.asked = asked /\ ses.persona = Pick(asked)
      BY NoDeskTyped, PickIs DEF Desk, DeskOps
    <2>2. desk' = [desk EXCEPT ![d] = ses] /\ (jostled => jostled')
      BY <1>4 DEF BeginApproval, SitDown
    <2>. HIDE DEF ses
    <2>. QED  BY <1>3, <1>4, <2>1, <2>2 DEF BeginApproval
  <1>5. ASSUME NEW d \in Desks, CommitApproval(d) PROVE Rotation'
    BY <1>5, ApprovalTurns
  <1>6. ASSUME NEW kind \in Kinds, NEW name \in PersonaNames, NewPersona(kind, name)
        PROVE  Rotation'
    <2>1. /\ personas' = Append(personas, [kind |-> kind, name |-> name, enabled |-> TRUE])
          /\ turns' = NoTurns /\ UNCHANGED <<desk, muted>> /\ jostled' = (jostled \/ AtDesks # {})
      BY <1>6 DEF NewPersona
    <2>2. /\ DOMAIN personas' = DOMAIN personas \cup {Len(personas) + 1}
          /\ Len(personas) + 1 \notin DOMAIN personas
          /\ personas'[Len(personas) + 1].enabled
          /\ \A i \in DOMAIN personas : personas'[i] = personas[i]
      BY <2>1 DEF VoiceTypeOK
    <2>3. Pool' = Pool \cup {Len(personas) + 1}
      BY <2>2 DEF Pool
    <2>4. muted' = DOMAIN personas' \ Pool'
      BY <2>1, <2>2, <2>3 DEF Rotation
    <2>. QED  BY <1>1, <2>1, <2>4, RotationTouched
  <1>7. ASSUME NEW i \in DOMAIN personas, Renew(i) PROVE Rotation'
    BY <1>2, <1>7, NobodyVoiced DEF Renew
  <1>8. ASSUME NEW i \in PersonaIds, NEW enabled \in BOOLEAN, SetEnabled(i, enabled)
        PROVE  Rotation'
    <2>1. /\ i \in DOMAIN personas /\ personas' = [personas EXCEPT ![i].enabled = enabled]
          /\ muted' = IF enabled THEN muted \ {i} ELSE muted \cup {i}
          /\ turns' = IF personas[i].enabled = enabled THEN turns ELSE NoTurns
          /\ jostled' = (jostled \/ AtDesks # {}) /\ UNCHANGED <<voiced, desk>>
      BY <1>8 DEF SetEnabled
    <2>2. personas[i] \in Persona
      BY <2>1 DEF VoiceTypeOK
    <2>3. /\ DOMAIN personas' = DOMAIN personas
          /\ personas'[i] = [personas[i] EXCEPT !.enabled = enabled]
          /\ \A j \in DOMAIN personas \ {i} : personas'[j] = personas[j]
      BY <2>1
    <2>4. personas'[i].enabled = enabled
      BY <2>2, <2>3 DEF Persona
    <2>5. Pool' = IF enabled THEN Pool \cup {i} ELSE Pool \ {i}
      BY <2>1, <2>3, <2>4 DEF Pool
    <2>6. muted' = DOMAIN personas' \ Pool'
      BY <2>1, <2>3, <2>5 DEF Rotation
    <2>7. CASE personas[i].enabled # enabled
      BY <1>1, <2>1, <2>6, <2>7, RotationTouched
    <2>8. CASE personas[i].enabled = enabled
      <3>1. personas' = personas
        <4>1. [personas[i] EXCEPT !.enabled = enabled] = personas[i]
          BY <2>2, <2>8 DEF Persona
        <4>. QED  BY <2>1, <2>3, <4>1 DEF VoiceTypeOK
      <3>2. muted' = muted
        BY <2>1, <2>6, <3>1 DEF Rotation, Pool
      <3>. QED  BY <1>1, <1>2, <2>1, <2>8, <3>1, <3>2, NobodyVoiced
    <2>. QED  BY <2>7, <2>8
  <1>9. ASSUME NEW d \in Desks, LeaveEmpty(d) PROVE Rotation'
    BY <1>3, <1>9, NoDeskTyped, NoDeskShaped DEF LeaveEmpty, Leave
  <1>10. CASE ProfileNext
    <2>1. ASSUME NEW d \in Desks, NEW v \in Versions, StartActivate(d, v)
          PROVE  Rotation'
      BY <1>2, <2>1, NoDeskShaped, NobodyVoiced
         DEF StartActivate, SitDown, Replacing, NoDesk, VoiceTypeOK
    <2>2. ASSUME NEW d \in Desks, NEW w, ClearRow(d, w)
          PROVE  Rotation'
      BY <1>2, <2>2, NobodyVoiced DEF ClearRow, VoiceTypeOK, Desk
    <2>3. ASSUME NEW d \in Desks, StartDistill(d)
          PROVE  Rotation'
      BY <1>2, <2>3, NobodyVoiced DEF StartDistill, SitDown, NoDesk, VoiceTypeOK
    <2>4. ASSUME NEW d \in Desks, StartReplace(d)
          PROVE  Rotation'
      BY <1>2, <2>4, NobodyVoiced DEF StartReplace, Replacing, NoDesk, VoiceTypeOK
    <2>5. ASSUME NEW d \in Desks, SetOwn(d)
          PROVE  Rotation'
      BY <1>2, <2>5, NobodyVoiced DEF SetOwn, VoiceTypeOK, Desk
    <2>6. ASSUME NEW d \in Desks, CommitProfile(d)
          PROVE  Rotation'
      BY <1>2, <2>6, NoDeskShaped, NobodyVoiced DEF CommitProfile, Leave, VoiceTypeOK
    <2>7. CASE Age
      BY <1>2, <2>7, NobodyVoiced DEF Age
    <2>. QED  BY <1>9, <1>10, <2>1, <2>2, <2>3, <2>4, <2>5, <2>6, <2>7 DEF ProfileNext
  <1>11. CASE UNCHANGED voiceVars
    BY <1>2, <1>11, NobodyVoiced DEF voiceVars
  <1>12. CASE RotationNext
    <2>1. "house" \in Kinds /\ "writer" \in Kinds
      BY DEF Kinds
    <2>. QED  BY <1>4, <1>5, <1>6, <1>7, <1>8, <1>9, <1>12, <2>1
              DEF RotationNext, CreateHouse, CreateStudio, DistillWriter
  <1>. QED  BY <1>10, <1>11, <1>12 DEF VoiceNext

\* While nobody touches the rotation the enabled personas speak equally often, to within one
\* turn, whatever the number of personas; one that an admin took out stays silent.
THEOREM RotationCorrect == VoiceSpec => []RotationIsFair
  <1>1. VoiceInit /\ VoiceTypeOK => Rotation
    <2>. SUFFICES ASSUME VoiceInit, VoiceTypeOK PROVE Rotation
      OBVIOUS
    <2>1. turns = NoTurns /\ DOMAIN personas = {} /\ muted = {}
      BY DEF VoiceInit, NoTurns
    <2>2. \A d \in Desks : desk[d].op = "none"
      BY NoDeskShaped DEF VoiceInit
    <2>. QED  BY <2>1, <2>2, CircleStarts DEF Rotation, Pool, FreshPick
  <1>2. VoiceTypeOK /\ Rotation => RotationIsFair
    <2>. SUFFICES ASSUME VoiceTypeOK, Rotation, ~jostled
                  PROVE  /\ \A i, j \in DOMAIN personas : personas[i].enabled /\ personas[j].enabled
                              => turns[i] <= turns[j] + 1
                         /\ \A i \in muted : turns[i] = 0 /\ ~personas[i].enabled
      BY DEF RotationIsFair
    <2>1. InCircle /\ Silent /\ muted = DOMAIN personas \ Pool
      BY DEF Rotation
    <2>2. ASSUME NEW i \in Pool, NEW j \in Pool PROVE turns[i] <= turns[j] + 1
      BY <2>1, <2>2 DEF InCircle
    <2>3. ASSUME NEW i \in muted PROVE turns[i] = 0 /\ ~personas[i].enabled
      BY <2>1, <2>3, PoolTyped DEF Silent, Pool
    <2>. QED  BY <2>2, <2>3 DEF Pool
  <1>3. VoiceTypeOK /\ VoiceTypeOK' /\ VoiceInv /\ Rotation /\ [VoiceNext]_voiceVars => Rotation'
    BY RotationStep
  <1>. QED  BY <1>1, <1>2, <1>3, VoiceInvariant, PTL DEF VoiceSpec

==============================================================================
