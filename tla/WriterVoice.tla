----------------------------- MODULE WriterVoice -----------------------------
(***************************************************************************)
(* The voice that drafts of one brand are written in: personas, which      *)
(* approvals take in turn (trends/personas.py), and the aggregate style    *)
(* profile, of which one version is to be active at a time                 *)
(* (agents/analytics.py, api/json_api.py).                                 *)
(*                                                                         *)
(* Transactions are READ COMMITTED: a statement sees what was committed    *)
(* when it began, an UPDATE waits for a row that another has written and   *)
(* then looks at it again, and every write shows at the commit.            *)
(***************************************************************************)
EXTENDS Integers, FiniteSets, Sequences

CONSTANTS
  Desks,         \* requests and agent runs
  PersonaNames,
  MaxVersions, MaxPersonas, MaxApprovals  \* bounds: profile versions, personas, approvals

ASSUME VoiceAssumption ==
  /\ MaxVersions \in Nat
  /\ MaxPersonas \in Nat
  /\ MaxApprovals \in Nat

VARIABLES
  profiles,   \* writer_style_profile rows, by version: is it active?
  young,      \* versions younger than WRITER_STYLE_REFRESH_DAYS
  personas,   \* writer_persona rows, by id
  voiced,     \* approved pipelines: persona of their jobs, number of jobs
  desk,       \* the transaction that each request has open
  chosen,     \* history: the version activated or distilled last
  muted,      \* history: personas that an admin has taken out of the rotation
  turns,      \* history: pipelines voiced in turn, per persona, while the rotation was left alone
  jostled     \* history: two transactions have been open at once

voiceVars == <<profiles, young, personas, voiced, desk, chosen, muted, turns, jostled>>

Kinds      == {"house", "writer"}
Versions   == 1 .. MaxVersions
PersonaIds == 1 .. MaxPersonas
NoPersona  == 0
JobCounts  == 1 .. 2

\* What an approval may ask for: any id of the brand's, one that is not the brand's, or a turn.
InTurn  == -1
Foreign == NoPersona
Asked   == PersonaIds \cup {Foreign, InTurn}

Persona  == [kind : Kinds, name : PersonaNames, enabled : BOOLEAN]
Pipeline == [persona : PersonaIds \cup {NoPersona}, jobs : JobCounts]

DeskOps == {"none", "approve", "distill", "lock", "own"}

\* version: what is being made active; seen: active rows the UPDATE has yet to look at; off:
\* rows it has cleared; made: the version is a new row.
Desk == [op : DeskOps, asked : Asked, persona : PersonaIds \cup {NoPersona},
         version : 0 .. MaxVersions, seen : SUBSET Versions, off : SUBSET Versions,
         made : BOOLEAN]

NoDesk == [op |-> "none", asked |-> InTurn, persona |-> NoPersona, version |-> 0, seen |-> {},
           off |-> {}, made |-> FALSE]

VoiceInit ==
  /\ profiles = <<>>
  /\ young = {}
  /\ personas = <<>>
  /\ voiced = <<>>
  /\ desk = [d \in Desks |-> NoDesk]
  /\ chosen = 0
  /\ muted = {}
  /\ turns = [i \in PersonaIds |-> 0]
  /\ jostled = FALSE

AtDesks == {d \in Desks : desk[d].op # "none"}

\* Desk d opens a transaction and has made its first reads.
SitDown(d, ses) ==
  /\ desk[d].op = "none"
  /\ desk' = [desk EXCEPT ![d] = ses]
  /\ jostled' = (jostled \/ AtDesks # {})

Leave(d) == desk' = [desk EXCEPT ![d] = NoDesk]

\* Any failure, a deadlock broken by the database, a dependency that is down.
LeaveEmpty(d) ==
  /\ desk[d].op # "none"
  /\ Leave(d)
  /\ UNCHANGED <<profiles, young, personas, voiced, chosen, muted, turns, jostled>>

--------------------------------------------------------------------------------
(***************************************************************************)
(* Personas and their rotation                                             *)
(***************************************************************************)

\* enabled_personas, and how many come before one of them, by id.
Pool == {i \in DOMAIN personas : personas[i].enabled}
Before(i) == Cardinality({j \in Pool : j < i})

\* (mutant: every job counts as a turn)
JobsUsed ==
  LET used[n \in 0 .. Len(voiced)] ==
        IF n = 0 THEN 0
        ELSE used[n - 1] + (IF voiced[n].persona # NoPersona THEN voiced[n].jobs ELSE 0)
  IN  used[Len(voiced)]

\* Turns taken: the brand's pipelines that carry a persona, whichever way it was chosen.
Used == Cardinality({n \in DOMAIN voiced : voiced[n].persona # NoPersona})

\* pick_persona: the one asked for, if it is the brand's, even a disabled one; else whose
\* turn it is; nobody if the pool is empty.
Pick(asked) ==
  CASE asked = InTurn /\ Pool # {} -> CHOOSE i \in Pool : Before(i) = Used % Cardinality(Pool)
    [] asked \in DOMAIN personas   -> asked
    [] OTHER                       -> NoPersona

\* approve_and_start resolves the persona once ...
BeginApproval(d, asked) ==
  /\ Len(voiced) < MaxApprovals
  /\ SitDown(d, [NoDesk EXCEPT !.op = "approve", !.asked = asked, !.persona = Pick(asked)])
  /\ UNCHANGED <<profiles, young, personas, voiced, chosen, muted, turns>>

NoTurns == [i \in PersonaIds |-> 0]

\* ... and every job it queues carries it.
CommitApproval(d) ==
  LET ses == desk[d]
  IN  /\ ses.op = "approve" /\ Len(voiced) < MaxApprovals
      /\ \E n \in JobCounts : voiced' = Append(voiced, [persona |-> ses.persona, jobs |-> n])
      /\ turns' = IF ses.asked # InTurn THEN NoTurns
                  ELSE [i \in PersonaIds |-> turns[i] + IF i = ses.persona THEN 1 ELSE 0]
      /\ Leave(d)
      /\ UNCHANGED <<profiles, young, personas, chosen, muted, jostled>>

\* A new row, unless its (kind, name) is taken (409, or a rollback).  It joins the rotation.
NewPersona(kind, name) ==
  /\ Len(personas) < MaxPersonas
  /\ ~ \E i \in DOMAIN personas : personas[i].kind = kind /\ personas[i].name = name
  /\ personas' = Append(personas, [kind |-> kind, name |-> name, enabled |-> TRUE])
  /\ turns' = NoTurns
  /\ jostled' = (jostled \/ AtDesks # {})
  /\ UNCHANGED <<profiles, young, voiced, desk, chosen, muted>>

CreateHouse(name) == NewPersona("house", name)

\* personas_create_studio: the voice of the preview, or synthesized anew from the recipe.
CreateStudio(name) == NewPersona("house", name)

\* (mutant: distilling a writer again puts the persona back into the rotation)
RenewAndEnable(i) ==
  /\ personas' = [personas EXCEPT ![i].enabled = TRUE]
  /\ jostled' = (jostled \/ AtDesks # {})
  /\ UNCHANGED <<profiles, young, voiced, desk, chosen, muted, turns>>

\* The persona of a writer is distilled again: features, exemplars and updated_at only.
Renew(i) ==
  /\ jostled' = (jostled \/ AtDesks # {})
  /\ UNCHANGED <<profiles, young, personas, voiced, desk, chosen, muted, turns>>

\* distill_writer_persona upserts.
DistillWriter(name) ==
  \/ NewPersona("writer", name)
  \/ \E i \in DOMAIN personas :
       personas[i].kind = "writer" /\ personas[i].name = name /\ Renew(i)

SetEnabled(i, enabled) ==
  /\ i \in DOMAIN personas
  /\ personas' = [personas EXCEPT ![i].enabled = enabled]
  /\ muted' = IF enabled THEN muted \ {i} ELSE muted \cup {i}
  /\ turns' = IF personas[i].enabled = enabled THEN turns ELSE NoTurns
  /\ jostled' = (jostled \/ AtDesks # {})
  /\ UNCHANGED <<profiles, young, voiced, desk, chosen>>

RotationNext ==
  \/ \E d \in Desks : \/ \E asked \in Asked : BeginApproval(d, asked)
                      \/ CommitApproval(d)
                      \/ LeaveEmpty(d)
  \/ \E name \in PersonaNames : CreateHouse(name) \/ CreateStudio(name) \/ DistillWriter(name)
  \/ \E i \in PersonaIds, enabled \in BOOLEAN : SetEnabled(i, enabled)

--------------------------------------------------------------------------------
(***************************************************************************)
(* The aggregate style profile                                             *)
(***************************************************************************)

ActiveProfiles == {v \in DOMAIN profiles : profiles[v]}

\* _active_style_profile: the highest of the active versions, 0 if none.
ServedVersion ==
  IF ActiveProfiles = {} THEN 0
  ELSE CHOOSE v \in ActiveProfiles : \A w \in ActiveProfiles : w <= v

\* What the other open transactions have written.
HeldBy(d) == desk[d].off \cup (IF desk[d].op = "own" THEN {desk[d].version} ELSE {})
Taken(d)  == UNION {HeldBy(e) : e \in Desks \ {d}}

Replacing(v, made) ==
  [NoDesk EXCEPT !.op = "lock", !.version = v, !.made = made, !.seen = ActiveProfiles]

\* (mutant: the other versions are left as they are)
JustActivate(d, v) ==
  /\ v \in DOMAIN profiles
  /\ SitDown(d, [Replacing(v, FALSE) EXCEPT !.seen = {}])
  /\ UNCHANGED <<profiles, young, personas, voiced, chosen, muted, turns>>

\* writers_activate, writer_emulation_activate.
StartActivate(d, v) ==
  /\ v \in DOMAIN profiles
  /\ SitDown(d, Replacing(v, FALSE))
  /\ UNCHANGED <<profiles, young, personas, voiced, chosen, muted, turns>>

\* _style_profile: not while the profile served is young.  Then a query, pages, the model ...
StartDistill(d) ==
  /\ ServedVersion \notin young
  /\ SitDown(d, [NoDesk EXCEPT !.op = "distill"])
  /\ UNCHANGED <<profiles, young, personas, voiced, chosen, muted, turns>>

\* ... the next version, and the active ones to clear.
StartReplace(d) ==
  /\ desk[d].op = "distill" /\ Len(profiles) < MaxVersions
  /\ desk' = [desk EXCEPT ![d] = Replacing(Len(profiles) + 1, TRUE)]
  /\ UNCHANGED <<profiles, young, personas, voiced, chosen, muted, turns, jostled>>

\* The UPDATE reaches a row that it found active: it clears it if it still is.
ClearRow(d, w) ==
  /\ desk[d].op = "lock" /\ w \in desk[d].seen /\ w \notin Taken(d)
  /\ desk' = [desk EXCEPT ![d].seen = @ \ {w},
                          ![d].off = IF profiles[w] THEN @ \cup {w} ELSE @]
  /\ UNCHANGED <<profiles, young, personas, voiced, chosen, muted, turns, jostled>>

\* The version is set or inserted: a number that is already used fails (LeaveEmpty).
SetOwn(d) ==
  /\ desk[d].op = "lock" /\ desk[d].seen = {} /\ desk[d].version \notin Taken(d)
  /\ desk[d].made => desk[d].version = Len(profiles) + 1
  /\ desk' = [desk EXCEPT ![d].op = "own"]
  /\ UNCHANGED <<profiles, young, personas, voiced, chosen, muted, turns, jostled>>

\* (mutant: a version that was active already is cleared for good)
CommitClearing(d) ==
  LET ses == desk[d]
  IN  /\ ses.op = "own"
      /\ profiles' = [v \in DOMAIN profiles \cup {ses.version} |->
                        IF v \in ses.off THEN FALSE ELSE v = ses.version \/ profiles[v]]
      /\ young' = IF ses.made THEN young \cup {ses.version} ELSE young
      /\ chosen' = ses.version
      /\ Leave(d)
      /\ UNCHANGED <<personas, voiced, muted, turns, jostled>>

CommitProfile(d) ==
  LET ses == desk[d]
  IN  /\ ses.op = "own"
      /\ profiles' = [v \in DOMAIN profiles \cup {ses.version} |->
                        v = ses.version \/ (v \notin ses.off /\ profiles[v])]
      /\ young' = IF ses.made THEN young \cup {ses.version} ELSE young
      /\ chosen' = ses.version
      /\ Leave(d)
      /\ UNCHANGED <<personas, voiced, muted, turns, jostled>>

\* The refresh interval passes.
Age ==
  /\ young # {}
  /\ young' = {}
  /\ UNCHANGED <<profiles, personas, voiced, desk, chosen, muted, turns, jostled>>

ProfileNext ==
  \/ \E d \in Desks :
       \/ \E v \in Versions : StartActivate(d, v) \/ ClearRow(d, v)
       \/ StartDistill(d) \/ StartReplace(d) \/ SetOwn(d) \/ CommitProfile(d) \/ LeaveEmpty(d)
  \/ Age

VoiceNext == RotationNext \/ ProfileNext

VoiceSpec == VoiceInit /\ [][VoiceNext]_voiceVars

--------------------------------------------------------------------------------
\* Type invariant.
VoiceTypeOK ==
  /\ profiles \in Seq(BOOLEAN) /\ Len(profiles) <= MaxVersions
  /\ young \subseteq DOMAIN profiles
  /\ personas \in Seq(Persona) /\ Len(personas) <= MaxPersonas
  /\ voiced \in Seq(Pipeline) /\ Len(voiced) <= MaxApprovals
  /\ desk \in [Desks -> Desk]
  /\ chosen \in 0 .. MaxVersions
  /\ muted \subseteq DOMAIN personas
  /\ turns \in [PersonaIds -> Nat]
  /\ jostled \in BOOLEAN

\* As long as nobody touches the rotation, the enabled personas speak equally often, however
\* many jobs a pipeline has; one that an admin took out stays out, even if it is distilled
\* again.
RotationIsFair ==
  ~jostled =>
    /\ \A i, j \in DOMAIN personas :
         personas[i].enabled /\ personas[j].enabled => turns[i] <= turns[j] + 1
    /\ \A i \in muted : turns[i] = 0 /\ ~personas[i].enabled

\* The profile that was activated or distilled last is the one that drafts are written in,
\* and the only active one, if the requests did not overlap.
ChosenVoiceSpeaks ==
  ~jostled /\ profiles # <<>> => ActiveProfiles = {chosen} /\ ServedVersion = chosen

\* Once a brand has a profile one is active, whatever overlaps and whatever fails.
VoiceServed == profiles # <<>> => ActiveProfiles # {}

================================================================================
