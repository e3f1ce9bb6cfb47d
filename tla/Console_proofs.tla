----------------------------- MODULE Console_proofs -----------------------------
(***************************************************************************)
(* Theorems about Console, for any people, brands, weights and bounds.     *)
(***************************************************************************)
EXTENDS Console, FiniteSetTheorems, TLAPS

(***************************************************************************)
(* Types.  A login that is open carries a real account; a save that is     *)
(* open carries the time at which it began.                                *)
(***************************************************************************)
RealLogins == \A p \in People : login[p] # NoLogin => login[p].account \in Account

UserInv == UserTypeOK /\ RealLogins

TimedSaves == \A e \in Editors : saving[e] # NoSave => saving[e].at \in 1 .. MaxSaves

WeightInv == WeightTypeOK /\ TimedSaves

LEMMA NobodyIsNone == Nobody \notin Account /\ Viewer \in Account /\ NoLogin \in Login
  BY DEF Nobody, Account, Viewer, Role, NoLogin, Login

LEMMA ProvisionedTyped ==
  ASSUME UserTypeOK, NEW p \in People PROVE Provisioned(p) \in Account
  <1>1. CASE users[p] # Nobody
    BY <1>1 DEF Provisioned, UserTypeOK
  <1>2. CASE users[p] = Nobody
    BY <1>2 DEF Provisioned, Account, Role
  <1>. QED  BY <1>1, <1>2

LEMMA UserInitTyped == UserInit => UserInv
  <1>. SUFFICES ASSUME UserInit PROVE UserInv
    OBVIOUS
  <1>1. users \in [People -> Account \cup {Nobody}] /\ cookie \in [People -> Account \cup {Nobody}]
    BY DEF UserInit
  <1>2. login \in [People -> Login] /\ RealLogins
    BY NobodyIsNone DEF UserInit, RealLogins
  <1>3. logins \in 0 .. MaxLogins /\ grants \in 0 .. MaxGrants
    BY ConsoleAssumption DEF UserInit
  <1>. QED  BY <1>1, <1>2, <1>3 DEF UserInit, UserInv, UserTypeOK

LEMMA BeginLoginTyped ==
  ASSUME UserInv, NEW p \in People, BeginLogin(p) PROVE UserInv'
  <1>. DEFINE l == [account |-> Provisioned(p), insert |-> users[p] = Nobody, first |-> Users = {}]
  <1>1. l \in Login /\ l.account \in Account
    BY ProvisionedTyped DEF Login, UserInv
  <1>2. login' = [login EXCEPT ![p] = l]
    BY DEF BeginLogin
  <1>. HIDE DEF l
  <1>3. login' \in [People -> Login] /\ RealLogins'
    BY <1>1, <1>2 DEF UserInv, UserTypeOK, RealLogins
  <1>4. logins' \in 0 .. MaxLogins
    BY ConsoleAssumption DEF BeginLogin, UserInv, UserTypeOK
  <1>5. crowded' \in BOOLEAN
    BY DEF BeginLogin, UserInv, UserTypeOK
  <1>. QED  BY <1>3, <1>4, <1>5 DEF BeginLogin, UserInv, UserTypeOK

LEMMA CommitLoginTyped ==
  ASSUME UserInv, NEW p \in People, CommitLogin(p) PROVE UserInv'
  <1>1. login[p].account \in Account
    BY DEF CommitLogin, UserInv, RealLogins
  <1>2. users' \in [People -> Account \cup {Nobody}] /\ cookie' \in [People -> Account \cup {Nobody}]
    BY <1>1 DEF CommitLogin, UserInv, UserTypeOK
  <1>3. login' \in [People -> Login] /\ RealLogins'
    BY NobodyIsNone DEF CommitLogin, UserInv, UserTypeOK, RealLogins
  <1>4. rooted' \subseteq People /\ founders' \subseteq People
    BY DEF CommitLogin, UserInv, UserTypeOK
  <1>. QED  BY <1>2, <1>3, <1>4 DEF CommitLogin, UserInv, UserTypeOK

LEMMA FailLogoutTyped ==
  ASSUME UserInv, NEW p \in People, FailLogin(p) \/ Logout(p) PROVE UserInv'
  <1>1. cookie' \in [People -> Account \cup {Nobody}]
    BY NobodyIsNone DEF FailLogin, Logout, UserInv, UserTypeOK
  <1>2. login' \in [People -> Login] /\ RealLogins'
    BY NobodyIsNone DEF FailLogin, Logout, UserInv, UserTypeOK, RealLogins
  <1>. QED  BY <1>1, <1>2 DEF FailLogin, Logout, UserInv, UserTypeOK

LEMMA GrantTyped ==
  ASSUME UserInv, NEW a \in People, NEW p \in People, NEW account \in Account,
         Grant(a, p, account)
  PROVE  UserInv'
  <1>1. users' \in [People -> Account \cup {Nobody}]
    BY DEF Grant, UserInv, UserTypeOK
  <1>2. grants' \in 0 .. MaxGrants
    BY ConsoleAssumption DEF Grant, UserInv, UserTypeOK
  <1>3. scoped' \subseteq People \X Scopes
    BY DEF Grant, UserInv, UserTypeOK, Account
  <1>4. rooted' \subseteq People
    BY DEF Grant, UserInv, UserTypeOK
  <1>. QED  BY <1>1, <1>2, <1>3, <1>4 DEF Grant, UserInv, UserTypeOK, RealLogins

\* What an administrator assigns is an account.
LEMMA AssignedTyped ==
  ASSUME NEW role \in Role, NEW scopes \in SUBSET Scopes PROVE Assigned(role, scopes) \in Account
  BY DEF Assigned, Account

\* A step of the accounts is one of five.
LEMMA UserSteps ==
  ASSUME UserNext
  PROVE  \/ \E p \in People : BeginLogin(p) \/ CommitLogin(p) \/ FailLogin(p) \/ Logout(p)
         \/ \E a, p \in People, account \in Account : Grant(a, p, account)
  BY AssignedTyped DEF UserNext, SetRole, Invite

LEMMA UserStepTyped == UserInv /\ [UserNext]_userVars => UserInv'
  <1>. SUFFICES ASSUME UserInv, [UserNext]_userVars PROVE UserInv'
    OBVIOUS
  <1>1. CASE UserNext
    BY <1>1, UserSteps, BeginLoginTyped, CommitLoginTyped, FailLogoutTyped, GrantTyped
  <1>2. CASE UNCHANGED userVars
    BY <1>2 DEF userVars, UserInv, UserTypeOK, RealLogins
  <1>. QED  BY <1>1, <1>2

(***************************************************************************)
(* Types of the weights.                                                   *)
(***************************************************************************)
LEMMA ClampedInRange == ASSUME NEW v \in Int PROVE Clamped(v) \in Lo .. Hi
  BY ConsoleAssumption DEF Clamped

LEMMA NoSaveTyped == NoSave \in Save /\ Shipped \in [Knobs -> Int] /\ Unasked \in Int
  BY ConsoleAssumption DEF NoSave, Save, Unasked

LEMMA ChangedTyped ==
  ASSUME NEW ask \in [Knobs -> Int]
  PROVE  ChangedRows(ask) \in SUBSET [key : Knobs, value : Lo .. Hi]
  <1>1. \A k \in Knobs : Clamped(ask[k]) \in Lo .. Hi
    BY ClampedInRange
  <1>. QED  BY <1>1 DEF ChangedRows

LEMMA WeightInitTyped == WeightInit => WeightInv
  <1>. SUFFICES ASSUME WeightInit PROVE WeightInv
    OBVIOUS
  <1>1. saving \in [Editors -> Save] /\ TimedSaves
    BY NoSaveTyped DEF WeightInit, TimedSaves
  <1>2. saves \in 0 .. MaxSaves /\ asked \in [Knobs -> Lo .. Hi]
    BY ConsoleAssumption DEF WeightInit
  <1>. QED  BY <1>1, <1>2 DEF WeightInit, WeightInv, WeightTypeOK

LEMMA BeginSaveTyped ==
  ASSUME WeightInv, NEW e \in Editors, NEW ask \in [Knobs -> Int], BeginSave(e, ask)
  PROVE  WeightInv'
  <1>. DEFINE s == [at |-> saves + 1, rows |-> ChangedRows(ask), ask |-> ask]
  <1>1. saves + 1 \in 1 .. MaxSaves
    BY ConsoleAssumption DEF BeginSave, WeightInv, WeightTypeOK
  <1>2. s \in Save /\ s.at \in 1 .. MaxSaves
    <2>1. saves + 1 \in 0 .. MaxSaves
      BY <1>1, ConsoleAssumption
    <2>. QED  BY <1>1, <2>1, ChangedTyped DEF Save
  <1>3. saving' = [saving EXCEPT ![e] = s]
    BY DEF BeginSave
  <1>. HIDE DEF s
  <1>4. saving' \in [Editors -> Save] /\ TimedSaves'
    BY <1>2, <1>3 DEF WeightInv, WeightTypeOK, TimedSaves
  <1>5. saves' \in 0 .. MaxSaves
    BY <1>1, ConsoleAssumption DEF BeginSave
  <1>. QED  BY <1>4, <1>5 DEF BeginSave, WeightInv, WeightTypeOK

LEMMA CommitSaveTyped ==
  ASSUME WeightInv, NEW e \in Editors, CommitSave(e) PROVE WeightInv'
  <1>. DEFINE s == saving[e]
  <1>1. s \in Save /\ s.at \in 1 .. MaxSaves
    BY DEF CommitSave, WeightInv, WeightTypeOK, TimedSaves
  <1>2. weights' = weights \cup {[key |-> r.key, value |-> r.value, at |-> s.at] : r \in s.rows}
    BY DEF CommitSave
  <1>3. asked' = [k \in Knobs |-> IF s.ask[k] = Unasked THEN asked[k] ELSE Clamped(s.ask[k])]
    BY DEF CommitSave
  <1>4. saving' = [saving EXCEPT ![e] = NoSave] /\ UNCHANGED <<saves, savedAtOnce>>
    BY DEF CommitSave
  <1>. HIDE DEF s
  <1>5. weights' \subseteq [key : Knobs, value : Lo .. Hi, at : 1 .. MaxSaves]
    BY <1>1, <1>2 DEF WeightInv, WeightTypeOK, Save
  <1>6. asked' \in [Knobs -> Lo .. Hi]
    <2>1. \A k \in Knobs : Clamped(s.ask[k]) \in Lo .. Hi
      BY <1>1, ClampedInRange DEF Save
    <2>. QED  BY <1>3, <2>1 DEF WeightInv, WeightTypeOK
  <1>7. saving' \in [Editors -> Save] /\ TimedSaves'
    BY <1>4, NoSaveTyped DEF WeightInv, WeightTypeOK, TimedSaves
  <1>. QED  BY <1>4, <1>5, <1>6, <1>7 DEF WeightInv, WeightTypeOK

LEMMA AbortSaveTyped ==
  ASSUME WeightInv, NEW e \in Editors, AbortSave(e) PROVE WeightInv'
  <1>1. saving' \in [Editors -> Save] /\ TimedSaves'
    BY NoSaveTyped DEF AbortSave, WeightInv, WeightTypeOK, TimedSaves
  <1>. QED  BY <1>1 DEF AbortSave, WeightInv, WeightTypeOK

\* A step of the weights is one of three.
LEMMA WeightSteps ==
  ASSUME WeightNext
  PROVE  \E e \in Editors : \/ \E ask \in [Knobs -> Int] : BeginSave(e, ask)
                            \/ CommitSave(e) \/ AbortSave(e)
  <1>1. [Knobs -> Asks \cup {Unasked}] \subseteq [Knobs -> Int] /\ Shipped \in [Knobs -> Int]
    BY ConsoleAssumption, NoSaveTyped
  <1>. QED  BY <1>1 DEF WeightNext, SetWeights, ResetWeights

LEMMA WeightStepTyped == WeightInv /\ [WeightNext]_weightVars => WeightInv'
  <1>. SUFFICES ASSUME WeightInv, [WeightNext]_weightVars PROVE WeightInv'
    OBVIOUS
  <1>1. CASE WeightNext
    BY <1>1, WeightSteps, BeginSaveTyped, CommitSaveTyped, AbortSaveTyped
  <1>2. CASE UNCHANGED weightVars
    BY <1>2 DEF weightVars, WeightInv, WeightTypeOK, TimedSaves
  <1>. QED  BY <1>1, <1>2

\* Accounts, logins, sessions and weights keep their types: roles are roles, and every
\* weight is within the range of the screen (SCORE_WEIGHT_META), whatever was entered.
THEOREM ConsoleTypeCorrect == ConsoleSpec => []ConsoleTypeOK
  <1>1. ConsoleInit => UserInv /\ WeightInv
    BY UserInitTyped, WeightInitTyped DEF ConsoleInit
  <1>2. UserInv /\ WeightInv /\ [ConsoleNext]_consoleVars => UserInv' /\ WeightInv'
    BY UserStepTyped, WeightStepTyped DEF ConsoleNext, consoleVars
  <1>3. UserInv /\ WeightInv => ConsoleTypeOK
    BY DEF UserInv, WeightInv, ConsoleTypeOK
  <1>. QED  BY <1>1, <1>2, <1>3, PTL DEF ConsoleSpec

(***************************************************************************)
(* Authority.  What is open in a login is bounded like what is stored:     *)
(* a person who is about to become a global admin has been one by the word *)
(* of another, or is inserted as the first user or as one of AUTH_ADMINS.  *)
(***************************************************************************)
Rooted(p) ==
  /\ users[p].role = "global_admin" => p \in rooted
  /\ cookie[p].role = "global_admin" => p \in rooted
  /\ login[p].account.role = "global_admin" =>
       p \in rooted \/ (login[p].insert /\ (login[p].first \/ p \in Admins))

Scoped(p) ==
  \A b \in Scopes :
    b \in users[p].scopes \/ b \in cookie[p].scopes \/ b \in login[p].account.scopes
      => <<p, b>> \in scoped

AuthorityInv ==
  DefaultRole # "global_admin" => \A p \in People : Rooted(p) /\ Scoped(p)

\* What a login reads or makes up.
LEMMA ProvisionedAuthority ==
  ASSUME DefaultRole # "global_admin", NEW p \in People, Rooted(p), Scoped(p)
  PROVE  /\ Provisioned(p).role = "global_admin" =>
              p \in rooted \/ (users[p] = Nobody /\ (Users = {} \/ p \in Admins))
         /\ \A b \in Scopes : b \in Provisioned(p).scopes => <<p, b>> \in scoped
  <1>1. CASE users[p] # Nobody
    BY <1>1 DEF Provisioned, Rooted, Scoped
  <1>2. CASE users[p] = Nobody
    BY <1>2 DEF Provisioned
  <1>. QED  BY <1>1, <1>2

LEMMA BeginLoginAuthority ==
  ASSUME UserInv, AuthorityInv, NEW p \in People, BeginLogin(p) PROVE AuthorityInv'
  <1>. SUFFICES ASSUME DefaultRole # "global_admin", NEW q \in People
                PROVE  Rooted(q)' /\ Scoped(q)'
    BY DEF AuthorityInv
  <1>1. Rooted(p) /\ Scoped(p) /\ Rooted(q) /\ Scoped(q)
    BY DEF AuthorityInv
  <1>. DEFINE l == [account |-> Provisioned(p), insert |-> users[p] = Nobody, first |-> Users = {}]
  <1>2. /\ l.account.role = "global_admin" =>
             p \in rooted \/ (l.insert /\ (l.first \/ p \in Admins))
        /\ \A b \in Scopes : b \in l.account.scopes => <<p, b>> \in scoped
    BY <1>1, ProvisionedAuthority
  <1>3. login' = [login EXCEPT ![p] = l] /\ UNCHANGED <<users, cookie, rooted, scoped>>
    BY DEF BeginLogin
  <1>. HIDE DEF l
  <1>. QED  BY <1>1, <1>2, <1>3 DEF UserInv, UserTypeOK, Rooted, Scoped

LEMMA CommitLoginAuthority ==
  ASSUME UserInv, AuthorityInv, NEW p \in People, CommitLogin(p) PROVE AuthorityInv'
  <1>. SUFFICES ASSUME DefaultRole # "global_admin", NEW q \in People
                PROVE  Rooted(q)' /\ Scoped(q)'
    BY DEF AuthorityInv
  <1>1. Rooted(p) /\ Scoped(p) /\ Rooted(q) /\ Scoped(q)
    BY DEF AuthorityInv
  <1>2. login'[q] = login[q] \/ login'[q] = NoLogin
    BY DEF CommitLogin, UserInv, UserTypeOK
  <1>3. users'[q] = users[q] \/ (q = p /\ users'[q] = login[p].account)
    BY DEF CommitLogin, UserInv, UserTypeOK
  <1>4. cookie'[q] = cookie[q] \/ (q = p /\ cookie'[q] = login[p].account)
    BY DEF CommitLogin, UserInv, UserTypeOK
  <1>5. rooted \subseteq rooted' /\ scoped' = scoped
    BY DEF CommitLogin
  <1>6. login[p].account.role = "global_admin" => p \in rooted'
    BY <1>1 DEF CommitLogin, Rooted
  <1>7. /\ NoLogin.account.role # "global_admin"
        /\ \A b \in Scopes : b \notin NoLogin.account.scopes
    BY DEF NoLogin, Nobody
  <1>8. Rooted(q)'
    BY <1>1, <1>2, <1>3, <1>4, <1>5, <1>6, <1>7 DEF Rooted
  <1>9. Scoped(q)'
    BY <1>1, <1>2, <1>3, <1>4, <1>5, <1>7 DEF Scoped
  <1>. QED  BY <1>8, <1>9

LEMMA FailLogoutAuthority ==
  ASSUME UserInv, AuthorityInv, NEW p \in People, FailLogin(p) \/ Logout(p) PROVE AuthorityInv'
  <1>. SUFFICES ASSUME DefaultRole # "global_admin", NEW q \in People
                PROVE  Rooted(q)' /\ Scoped(q)'
    BY DEF AuthorityInv
  <1>1. Rooted(q) /\ Scoped(q)
    BY DEF AuthorityInv
  <1>2. /\ login'[q] = login[q] \/ login'[q] = NoLogin
        /\ cookie'[q] = cookie[q] \/ cookie'[q] = Viewer \/ cookie'[q] = Nobody
        /\ UNCHANGED <<users, rooted, scoped>>
    BY DEF FailLogin, Logout, UserInv, UserTypeOK
  <1>3. \A account \in {NoLogin.account, Viewer, Nobody} :
          account.role # "global_admin" /\ account.scopes = {}
    BY DEF NoLogin, Nobody, Viewer
  <1>. QED  BY <1>1, <1>2, <1>3 DEF Rooted, Scoped

LEMMA GrantAuthority ==
  ASSUME UserInv, AuthorityInv, NEW a \in People, NEW p \in People, NEW account \in Account,
         Grant(a, p, account)
  PROVE  AuthorityInv'
  <1>. SUFFICES ASSUME DefaultRole # "global_admin", NEW q \in People
                PROVE  Rooted(q)' /\ Scoped(q)'
    BY DEF AuthorityInv
  <1>1. Rooted(a) /\ Rooted(q) /\ Scoped(q)
    BY DEF AuthorityInv
  <1>2. a \in rooted
    BY <1>1 DEF Grant, can_manage_users, Rooted
  <1>3. /\ users'[q] = users[q] \/ (q = p /\ users'[q] = account)
        /\ UNCHANGED <<login, cookie>>
    BY DEF Grant, UserInv, UserTypeOK
  <1>4. /\ rooted \subseteq rooted' /\ scoped \subseteq scoped'
        /\ account.role = "global_admin" => p \in rooted'
        /\ \A b \in account.scopes : <<p, b>> \in scoped'
    BY <1>2 DEF Grant
  <1>. QED  BY <1>1, <1>3, <1>4 DEF Rooted, Scoped

LEMMA UserStepAuthority == UserInv /\ AuthorityInv /\ [UserNext]_userVars => AuthorityInv'
  <1>. SUFFICES ASSUME UserInv, AuthorityInv, [UserNext]_userVars PROVE AuthorityInv'
    OBVIOUS
  <1>1. CASE UserNext
    BY <1>1, UserSteps, BeginLoginAuthority, CommitLoginAuthority, FailLogoutAuthority,
       GrantAuthority
  <1>2. CASE UNCHANGED userVars
    BY <1>2 DEF userVars, AuthorityInv, Rooted, Scoped
  <1>. QED  BY <1>1, <1>2

(***************************************************************************)
(* The first user.  As long as the table is empty, whoever logs in takes   *)
(* himself for the first user; unless two such logins overlap, one of them *)
(* ends before anybody else begins, and the table is not empty after it.   *)
(***************************************************************************)
Empty == \A p \in People : users[p] = Nobody

Opening ==
  \A p \in People :
    /\ login[p] # NoLogin /\ Empty => login[p].first
    /\ login[p] # NoLogin /\ ~login[p].insert => users[p] # Nobody
    /\ login[p].first => login[p].insert
    /\ Empty => cookie[p].role # "global_admin"

OneOpens ==
  ~crowded => /\ \A p, q \in People : login[p].first /\ login[q].first => p = q
              /\ \A p \in People : login[p].first => Empty

OneFounder ==
  /\ founders # {} => ~Empty
  /\ ~crowded => founders = {} \/ \E p \in People : founders = {p}

FounderInv == Opening /\ OneOpens /\ OneFounder

LEMMA EmptyTable == (Users = {}) <=> Empty
  BY DEF Users, Empty

LEMMA BeginLoginFounder ==
  ASSUME UserInv, FounderInv, NEW p \in People, BeginLogin(p) PROVE FounderInv'
  <1>. DEFINE l == [account |-> Provisioned(p), insert |-> users[p] = Nobody, first |-> Users = {}]
  <1>1. /\ l.first <=> Empty
        /\ l.insert <=> users[p] = Nobody
        /\ l \in Login
    BY EmptyTable, ProvisionedTyped DEF Login, UserInv
  <1>2. login' = [login EXCEPT ![p] = l] /\ UNCHANGED <<users, cookie, founders>>
    BY DEF BeginLogin
  <1>3. crowded' <=> (crowded \/ (Empty /\ \E q \in People : login[q].first))
    BY EmptyTable DEF BeginLogin, UserInv, UserTypeOK
  <1>. HIDE DEF l
  <1>4. \A q \in People : login'[q] = IF q = p THEN l ELSE login[q]
    BY <1>2 DEF UserInv, UserTypeOK
  <1>5. Empty' <=> Empty
    BY <1>2 DEF Empty
  <1>6. Empty => l.insert
    BY <1>1 DEF Empty
  <1>7. Opening'
    BY <1>1, <1>2, <1>4, <1>5, <1>6 DEF FounderInv, Opening
  <1>8. OneOpens'
    BY <1>1, <1>3, <1>4, <1>5 DEF FounderInv, OneOpens
  <1>9. OneFounder'
    BY <1>2, <1>3, <1>5 DEF FounderInv, OneFounder
  <1>. QED  BY <1>7, <1>8, <1>9 DEF FounderInv

LEMMA CommitLoginFounder ==
  ASSUME UserInv, FounderInv, NEW p \in People, CommitLogin(p) PROVE FounderInv'
  <1>1. \A q \in People : login'[q] = IF q = p THEN NoLogin ELSE login[q]
    BY DEF CommitLogin, UserInv, UserTypeOK
  <1>2. users'[p] # Nobody /\ \A q \in People : users[q] # Nobody => users'[q] # Nobody
    BY NobodyIsNone DEF CommitLogin, UserInv, UserTypeOK, RealLogins, FounderInv, Opening
  <1>3. ~Empty'
    BY <1>2 DEF Empty
  <1>4. crowded' = crowded
    BY DEF CommitLogin
  <1>5. ~NoLogin.first /\ login[p] # NoLogin
    BY DEF NoLogin, CommitLogin
  <1>6. Opening'
    BY <1>1, <1>2, <1>3, <1>5 DEF FounderInv, Opening
  <1>7. OneOpens'
    <2>. SUFFICES ASSUME ~crowded, NEW q \in People, login'[q].first PROVE FALSE
      BY <1>4 DEF OneOpens
    <2>1. q # p /\ login[q].first
      BY <1>1, <1>5
    <2>2. Empty
      BY <2>1 DEF FounderInv, OneOpens
    <2>3. login[p].first
      BY <2>2, <1>5 DEF FounderInv, Opening
    <2>. QED  BY <2>1, <2>3 DEF FounderInv, OneOpens
  <1>8. OneFounder'
    <2>1. CASE founders' = founders
      BY <2>1, <1>3, <1>4 DEF FounderInv, OneFounder
    <2>2. CASE founders' # founders
      <3>1. login[p].first /\ founders' = founders \cup {p}
        BY <2>2 DEF CommitLogin
      <3>2. ~crowded => founders = {}
        BY <3>1 DEF FounderInv, OneOpens, OneFounder
      <3>. QED  BY <3>1, <3>2, <1>3, <1>4 DEF OneFounder
    <2>. QED  BY <2>1, <2>2
  <1>. QED  BY <1>6, <1>7, <1>8 DEF FounderInv

LEMMA FailLogoutFounder ==
  ASSUME UserInv, FounderInv, NEW p \in People, FailLogin(p) \/ Logout(p) PROVE FounderInv'
  <1>1. \A q \in People : login'[q] = login[q] \/ login'[q] = NoLogin
    BY DEF FailLogin, Logout, UserInv, UserTypeOK
  <1>2. \A q \in People : cookie'[q] = cookie[q] \/ cookie'[q] = Viewer \/ cookie'[q] = Nobody
    BY DEF FailLogin, Logout, UserInv, UserTypeOK
  <1>3. UNCHANGED <<users, founders, crowded>>
    BY DEF FailLogin, Logout
  <1>4. Empty' <=> Empty
    BY <1>3 DEF Empty
  <1>5. ~NoLogin.first /\ Viewer.role # "global_admin" /\ Nobody.role # "global_admin"
    BY DEF NoLogin, Viewer, Nobody
  <1>6. Opening'
    BY <1>1, <1>2, <1>3, <1>4, <1>5 DEF FounderInv, Opening
  <1>7. OneOpens'
    BY <1>1, <1>3, <1>4, <1>5 DEF FounderInv, OneOpens
  <1>8. OneFounder'
    BY <1>3, <1>4 DEF FounderInv, OneFounder
  <1>. QED  BY <1>6, <1>7, <1>8 DEF FounderInv

LEMMA GrantFounder ==
  ASSUME UserInv, FounderInv, NEW a \in People, NEW p \in People, NEW account \in Account,
         Grant(a, p, account)
  PROVE  FounderInv'
  <1>1. ~Empty
    BY DEF Grant, can_manage_users, FounderInv, Opening
  <1>2. \A q \in People : users[q] # Nobody => users'[q] # Nobody
    BY NobodyIsNone DEF Grant, UserInv, UserTypeOK
  <1>3. ~Empty'
    BY <1>1, <1>2 DEF Empty
  <1>4. UNCHANGED <<login, cookie, founders, crowded>>
    BY DEF Grant
  <1>. QED  BY <1>1, <1>2, <1>3, <1>4 DEF FounderInv, Opening, OneOpens, OneFounder

LEMMA UserStepFounder == UserInv /\ FounderInv /\ [UserNext]_userVars => FounderInv'
  <1>. SUFFICES ASSUME UserInv, FounderInv, [UserNext]_userVars PROVE FounderInv'
    OBVIOUS
  <1>1. CASE UserNext
    BY <1>1, UserSteps, BeginLoginFounder, CommitLoginFounder, FailLogoutFounder, GrantFounder
  <1>2. CASE UNCHANGED userVars
    BY <1>2 DEF userVars, FounderInv, Opening, OneOpens, OneFounder, Empty
  <1>. QED  BY <1>1, <1>2

LEMMA InitAuthority == UserInit => AuthorityInv /\ FounderInv
  <1>. SUFFICES ASSUME UserInit PROVE AuthorityInv /\ FounderInv
    OBVIOUS
  <1>1. \A p \in People : login[p] = NoLogin /\ users[p] = Nobody /\ cookie[p] = Nobody
    BY DEF UserInit
  <1>2. /\ Nobody.role # "global_admin" /\ Nobody.scopes = {}
        /\ NoLogin.account = Nobody /\ ~NoLogin.first
    BY DEF Nobody, NoLogin
  <1>3. AuthorityInv
    BY <1>1, <1>2 DEF AuthorityInv, Rooted, Scoped
  <1>4. FounderInv
    BY <1>1, <1>2 DEF UserInit, FounderInv, Opening, OneOpens, OneFounder
  <1>. QED  BY <1>3, <1>4

LEMMA AuthorityFollows == UserInv /\ AuthorityInv /\ FounderInv => AuthorityIsGranted
  <1>. SUFFICES ASSUME UserInv, AuthorityInv, FounderInv PROVE AuthorityIsGranted
    OBVIOUS
  <1>1. ASSUME DefaultRole # "global_admin", NEW p \in People, NEW account \in {users[p], cookie[p]}
        PROVE  /\ account.role = "global_admin" => p \in rooted
               /\ account.role = "brand_user" =>
                    \A b \in Scopes : can_approve(account, b) => <<p, b>> \in scoped
    <2>1. Rooted(p) /\ Scoped(p)
      BY <1>1 DEF AuthorityInv
    <2>2. account.role = "global_admin" => p \in rooted
      BY <1>1, <2>1 DEF Rooted
    <2>3. account.role = "brand_user" =>
            \A b \in Scopes : can_approve(account, b) => b \in account.scopes
      BY DEF can_approve
    <2>4. \A b \in Scopes : b \in account.scopes => <<p, b>> \in scoped
      BY <1>1, <2>1 DEF Scoped
    <2>. QED  BY <2>2, <2>3, <2>4
  <1>2. ~crowded => Cardinality(founders) <= 1
    <2>1. CASE founders = {}
      BY <2>1, FS_EmptySet
    <2>2. ASSUME NEW p \in People, founders = {p} PROVE Cardinality(founders) <= 1
      BY <2>2, FS_Singleton
    <2>. QED  BY <2>1, <2>2 DEF FounderInv, OneFounder
  <1>. QED  BY <1>1, <1>2 DEF AuthorityIsGranted

\* Whoever is a global admin, stored or in a session, was made one by a chain of global
\* admins from the first user or AUTH_ADMINS; a brand user approves only what a global admin
\* gave to that person; and there is one first user, unless first logins overlap.
THEOREM AuthorityHolds == ConsoleSpec => []AuthorityIsGranted
  <1>. DEFINE Inv == UserInv /\ AuthorityInv /\ FounderInv
  <1>1. ConsoleInit => Inv
    BY UserInitTyped, InitAuthority DEF ConsoleInit
  <1>2. Inv /\ [ConsoleNext]_consoleVars => Inv'
    BY UserStepTyped, UserStepAuthority, UserStepFounder DEF ConsoleNext, consoleVars
  <1>3. Inv => AuthorityIsGranted
    BY AuthorityFollows
  <1>. HIDE DEF Inv
  <1>. QED  BY <1>1, <1>2, <1>3, PTL DEF ConsoleSpec

(***************************************************************************)
(* The weights.  A save carries the rows that differ from what was asked   *)
(* for last, and a time later than that of any row: so its row is the      *)
(* latest of its key once it is committed.                                 *)
(***************************************************************************)
AskedRows(ask) ==
  {[key |-> k, value |-> Clamped(ask[k])] :
     k \in {j \in Knobs : ask[j] # Unasked /\ Clamped(ask[j]) # asked[j]}}

RowsTimed == /\ \A r \in weights : r.at <= saves
             /\ \A e \in Editors : saving[e].at <= saves

OneSave ==
  ~savedAtOnce =>
    /\ \A d, e \in Editors : saving[d] # NoSave /\ saving[e] # NoSave => d = e
    /\ \A e \in Editors : saving[e] # NoSave =>
         /\ saving[e].rows = AskedRows(saving[e].ask)
         /\ \A r \in weights : r.at < saving[e].at

AskInv == WeightInv /\ RowsTimed /\ OneSave /\ WeightsAsAsked

LEMMA BeginSaveAsked ==
  ASSUME AskInv, NEW e \in Editors, NEW ask \in [Knobs -> Int], BeginSave(e, ask)
  PROVE  AskInv'
  <1>. DEFINE s == [at |-> saves + 1, rows |-> ChangedRows(ask), ask |-> ask]
  <1>1. WeightInv'
    BY BeginSaveTyped DEF AskInv
  <1>2. saves \in Int /\ \A r \in weights : r.at \in Int
    BY ConsoleAssumption DEF AskInv, WeightInv, WeightTypeOK
  <1>3. RowsTimed'
    <2>1. \A d \in Editors : saving[d].at \in Int /\ (saving'[d] = saving[d] \/ saving'[d].at = saves + 1)
      BY ConsoleAssumption DEF BeginSave, AskInv, WeightInv, WeightTypeOK, Save
    <2>. QED  BY <1>2, <2>1 DEF BeginSave, AskInv, RowsTimed
  <1>4. WeightsAsAsked'
    <2>1. weights' = weights /\ asked' = asked /\ (savedAtOnce => savedAtOnce')
      BY DEF BeginSave
    <2>2. \A k \in Knobs : Effective(k)' = Effective(k)
      BY <2>1 DEF Effective, RowsOf
    <2>. QED  BY <2>1, <2>2 DEF AskInv, WeightsAsAsked
  <1>5. ASSUME ~savedAtOnce' PROVE /\ ~savedAtOnce
                                  /\ \A c \in Editors : saving[c] = NoSave
                                  /\ \A f \in Editors : saving'[f] # NoSave => f = e
                                  /\ saving'[e] = s
    BY <1>5 DEF BeginSave, AskInv, WeightInv, WeightTypeOK
  <1>6. ASSUME ~savedAtOnce PROVE ChangedRows(ask) = AskedRows(ask)
    BY <1>6 DEF AskInv, WeightsAsAsked, ChangedRows, AskedRows
  <1>7. AskedRows(ask)' = AskedRows(ask)
    BY DEF BeginSave, AskedRows
  <1>8. ASSUME ~savedAtOnce'
        PROVE  s.rows = AskedRows(ask)' /\ s.ask = ask /\ \A r \in weights' : r.at < saves + 1
    <2>1. s.rows = AskedRows(ask)'
      BY <1>5, <1>6, <1>7, <1>8
    <2>2. \A r \in weights' : r.at < saves + 1
      BY <1>2 DEF BeginSave, AskInv, RowsTimed
    <2>. QED  BY <2>1, <2>2
  <1>9. OneSave'
    <2>1. ASSUME ~savedAtOnce', NEW d \in Editors, saving'[d] # NoSave
          PROVE  /\ saving'[d].rows = AskedRows(saving[d].ask)'
                 /\ \A r \in weights' : r.at < saving'[d].at
      <3>1. saving'[d].rows = AskedRows(ask)' /\ saving'[d].ask = ask /\ saving'[d].at = saves + 1
        BY <2>1, <1>5, <1>8
      <3>2. AskedRows(saving[d].ask)' = AskedRows(ask)'
        BY <3>1 DEF AskedRows
      <3>. QED  BY <2>1, <1>8, <3>1, <3>2
    <2>2. ~savedAtOnce' => \A c, d \in Editors : saving'[c] # NoSave /\ saving'[d] # NoSave => c = d
      BY <1>5
    <2>. QED  BY <2>1, <2>2 DEF OneSave
  <1>. QED  BY <1>1, <1>3, <1>4, <1>9 DEF AskInv

\* The save of e has committed, and no other is open.
LEMMA CommittedEffective ==
  ASSUME AskInv, NEW e \in Editors, CommitSave(e), ~savedAtOnce, NEW k \in Knobs
  PROVE  Effective(k)' = asked'[k]
  <1>. DEFINE s == saving[e]
              rows == {[key |-> r.key, value |-> r.value, at |-> s.at] : r \in s.rows}
              v == Clamped(s.ask[k])
              new == [key |-> k, value |-> v, at |-> s.at]
  <1>1. /\ s.rows = AskedRows(s.ask)
        /\ \A r \in weights : r.at < s.at
        /\ Effective(k) = asked[k]
    BY DEF CommitSave, AskInv, OneSave, WeightsAsAsked
  <1>2. weights' = weights \cup rows
    BY DEF CommitSave
  <1>3. asked'[k] = IF s.ask[k] = Unasked THEN asked[k] ELSE v
    BY DEF CommitSave
  <1>4. s.at \in Int /\ \A r \in weights : r.at \in Int
    BY ConsoleAssumption DEF CommitSave, AskInv, WeightInv, WeightTypeOK, TimedSaves
  <1>5. \A r \in rows : r.key = k => r = new /\ s.ask[k] # Unasked /\ v # asked[k]
    BY <1>1 DEF AskedRows
  <1>6. s.ask[k] # Unasked /\ v # asked[k] => new \in rows
    <2>1. s.ask[k] # Unasked /\ v # asked[k] => [key |-> k, value |-> v] \in s.rows
      BY <1>1 DEF AskedRows
    <2>2. \A r \in s.rows : [key |-> r.key, value |-> r.value, at |-> s.at] \in rows
      OBVIOUS
    <2>. HIDE DEF rows, s
    <2>. QED  BY <2>1, <2>2
  <1>7. new.key = k /\ new.value = v /\ new.at = s.at
    OBVIOUS
  <1>. HIDE DEF rows, v, new, s
  <1>8. CASE s.ask[k] # Unasked /\ v # asked[k]
    <2>. DEFINE R == RowsOf(k)'
    <2>1. new \in R /\ \A r \in R : r = new \/ r \in weights
      BY <1>2, <1>5, <1>6, <1>7, <1>8 DEF RowsOf
    <2>2. \A r \in R : r.at <= new.at /\ (r # new => r.at < new.at)
      BY <1>1, <1>4, <1>7, <2>1
    <2>3. \A r \in R : r.at \in Int
      BY <1>4, <1>7, <2>1
    <2>. HIDE DEF R
    <2>4. (CHOOSE r \in R : \A q \in R : q.at <= r.at) = new
      BY <2>1, <2>2, <2>3
    <2>5. Effective(k)' = IF R = {} THEN Shipped[k]
                          ELSE (CHOOSE r \in R : \A q \in R : q.at <= r.at).value
      BY DEF Effective, R
    <2>. QED  BY <1>3, <1>7, <1>8, <2>1, <2>4, <2>5
  <1>9. CASE ~(s.ask[k] # Unasked /\ v # asked[k])
    <2>1. RowsOf(k)' = RowsOf(k)
      BY <1>2, <1>5, <1>9 DEF RowsOf
    <2>2. Effective(k)' = Effective(k)
      BY <2>1 DEF Effective
    <2>. QED  BY <1>1, <1>3, <1>9, <2>2
  <1>. QED  BY <1>8, <1>9

LEMMA CommitSaveAsked ==
  ASSUME AskInv, NEW e \in Editors, CommitSave(e) PROVE AskInv'
  <1>1. WeightInv'
    BY CommitSaveTyped DEF AskInv
  <1>2. saving[e].at \in 0 .. MaxSaves /\ saves \in 0 .. MaxSaves
    BY DEF AskInv, WeightInv, WeightTypeOK, Save
  <1>3. WeightsAsAsked'
    BY CommittedEffective DEF CommitSave, WeightsAsAsked
  <1>4. OneSave'
    <2>1. ASSUME ~savedAtOnce, NEW d \in Editors PROVE saving'[d] = NoSave
      BY <2>1 DEF CommitSave, AskInv, OneSave, WeightInv, WeightTypeOK
    <2>. QED  BY <2>1 DEF CommitSave, OneSave
  <1>5. RowsTimed'
    <2>1. \A r \in weights' : r \in weights \/ r.at = saving[e].at
      BY DEF CommitSave
    <2>2. \A d \in Editors : saving'[d] = saving[d] \/ saving'[d].at = 0
      BY DEF CommitSave, NoSave, AskInv, WeightInv, WeightTypeOK
    <2>3. saves' = saves
      BY DEF CommitSave
    <2>. QED  BY <1>2, <2>1, <2>2, <2>3 DEF AskInv, RowsTimed
  <1>. QED  BY <1>1, <1>3, <1>4, <1>5 DEF AskInv

LEMMA AbortSaveAsked ==
  ASSUME AskInv, NEW e \in Editors, AbortSave(e) PROVE AskInv'
  <1>1. WeightInv'
    BY AbortSaveTyped DEF AskInv
  <1>2. UNCHANGED <<weights, saves, asked, savedAtOnce>>
    BY DEF AbortSave
  <1>3. \A d \in Editors : saving'[d] = saving[d] \/ saving'[d] = NoSave
    BY DEF AbortSave, AskInv, WeightInv, WeightTypeOK
  <1>4. WeightsAsAsked'
    BY <1>2 DEF AskInv, WeightsAsAsked, Effective, RowsOf
  <1>5. RowsTimed'
    <2>1. NoSave.at = 0 /\ 0 <= saves
      BY ConsoleAssumption DEF NoSave, AskInv, WeightInv, WeightTypeOK
    <2>. QED  BY <1>2, <1>3, <2>1 DEF AskInv, RowsTimed
  <1>6. OneSave'
    BY <1>2, <1>3 DEF AskInv, OneSave, AskedRows
  <1>. QED  BY <1>1, <1>4, <1>5, <1>6 DEF AskInv

LEMMA AskInit == WeightInit => AskInv
  <1>. SUFFICES ASSUME WeightInit PROVE AskInv
    OBVIOUS
  <1>1. RowsTimed
    BY DEF WeightInit, RowsTimed, NoSave
  <1>2. OneSave
    BY DEF WeightInit, OneSave
  <1>3. WeightsAsAsked
    BY DEF WeightInit, WeightsAsAsked, Effective, RowsOf
  <1>. QED  BY <1>1, <1>2, <1>3, WeightInitTyped DEF AskInv

LEMMA AskStep == AskInv /\ [WeightNext]_weightVars => AskInv'
  <1>. SUFFICES ASSUME AskInv, [WeightNext]_weightVars PROVE AskInv'
    OBVIOUS
  <1>1. CASE WeightNext
    BY <1>1, WeightSteps, BeginSaveAsked, CommitSaveAsked, AbortSaveAsked
  <1>2. CASE UNCHANGED weightVars
    <2>1. WeightInv' /\ RowsTimed'
      BY <1>2, WeightStepTyped DEF weightVars, AskInv, RowsTimed
    <2>2. OneSave'
      BY <1>2 DEF weightVars, AskInv, OneSave, AskedRows
    <2>3. WeightsAsAsked'
      BY <1>2 DEF weightVars, AskInv, WeightsAsAsked, Effective, RowsOf
    <2>. QED  BY <2>1, <2>2, <2>3 DEF AskInv
  <1>. QED  BY <1>1, <1>2

\* Unless two saves overlap, the weight in force of every key is the one that was asked for
\* last, clamped to its range, however saves, resets and refused saves follow one another.
THEOREM WeightsHold == ConsoleSpec => []WeightsAsAsked
  <1>1. ConsoleInit => AskInv
    BY AskInit DEF ConsoleInit
  <1>2. AskInv /\ [ConsoleNext]_consoleVars => AskInv'
    BY AskStep DEF ConsoleNext, consoleVars
  <1>3. AskInv => WeightsAsAsked
    BY DEF AskInv
  <1>. QED  BY <1>1, <1>2, <1>3, PTL DEF ConsoleSpec

================================================================================
