-------------------------------- MODULE Console --------------------------------
(***************************************************************************)
(* Who may do what in the console, and the weights of the trend score.     *)
(*                                                                         *)
(* A login provisions an account (users.py) and copies its role and brands *)
(* into the cookie (api/auth.py), where every route reads them until the   *)
(* next login.  Weights are appended by admins, and the latest row of a    *)
(* key counts (trends/weights.py); effective_at is now(), the moment a     *)
(* transaction began.                                                      *)
(***************************************************************************)
EXTENDS Integers, FiniteSets

CONSTANTS
  People,       \* those whom an admin may name
  Allowed,      \* those whom is_allowed lets in
  Admins,       \* AUTH_ADMINS
  Scopes,       \* brands
  DefaultRole,  \* AUTH_DEFAULT_ROLE
  Knobs,        \* keys of the weights
  Lo, Hi,       \* the range of a weight (SCORE_WEIGHT_META)
  Shipped,      \* DEFAULT_SCORE_WEIGHTS
  Asks,         \* values that an admin may enter for a weight
  Editors,      \* requests that save weights
  MaxLogins, MaxGrants, MaxSaves   \* bounds

ASSUME ConsoleAssumption ==
  /\ Allowed \subseteq People /\ Admins \subseteq People
  /\ Lo \in Int /\ Hi \in Int /\ Lo <= Hi
  /\ Shipped \in [Knobs -> Lo .. Hi]
  /\ Asks \subseteq Int
  /\ MaxLogins \in Nat /\ MaxGrants \in Nat /\ MaxSaves \in Nat

VARIABLES
  users,       \* app_user
  login,       \* the provisioning that each person's login has open
  cookie,      \* the session of each person's browser
  rooted,      \* history: admins by bootstrap, or by an admin who was one
  scoped,      \* history: brands that such an admin has given to a person
  founders,    \* history: admins for being the first user
  crowded,     \* history: two first logins have been open at once
  logins, grants,
  weights,     \* trend_score_weight rows
  saving,      \* the save that each request has open
  saves,       \* saves begun, the clock of effective_at
  asked,       \* history: what was last asked for each weight
  savedAtOnce  \* history: two saves have been open at once

userVars    == <<users, login, cookie, rooted, scoped, founders, crowded, logins, grants>>
weightVars  == <<weights, saving, saves, asked, savedAtOnce>>
consoleVars == <<userVars, weightVars>>

--------------------------------------------------------------------------------
(***************************************************************************)
(* Accounts                                                                *)
(***************************************************************************)
Role    == {"global_admin", "portfolio_admin", "brand_user", "viewer"}
Account == [role : Role, scopes : SUBSET Scopes]
Nobody  == [role |-> "none", scopes |-> {}]
Viewer  == [role |-> "viewer", scopes |-> {}]

\* account: what the cookie will say; first, insert: the account is a new row.
Login   == [account : Account \cup {Nobody}, insert : BOOLEAN, first : BOOLEAN]
NoLogin == [account |-> Nobody, insert |-> FALSE, first |-> FALSE]

\* (mutant: any admin may manage users)
AnyAdminManages(role) == role \in {"global_admin", "portfolio_admin"}

can_manage_users(role) == role = "global_admin"

can_approve(account, brand) ==
  \/ account.role \in {"global_admin", "portfolio_admin"}
  \/ account.role = "brand_user" /\ brand \in account.scopes

Users == {p \in People : users[p] # Nobody}

\* UserRepo.provision.
Provisioned(p) ==
  IF users[p] # Nobody THEN users[p]
  ELSE [role   |-> IF Users = {} \/ p \in Admins THEN "global_admin"
                   ELSE IF DefaultRole \in Role THEN DefaultRole ELSE "viewer",
        scopes |-> {}]

\* UserRepo.set_role: brands only for a brand user.
Assigned(role, scopes) == [role |-> role, scopes |-> IF role = "brand_user" THEN scopes ELSE {}]

UserInit ==
  /\ users = [p \in People |-> Nobody]
  /\ login = [p \in People |-> NoLogin]
  /\ cookie = [p \in People |-> Nobody]
  /\ rooted = {} /\ scoped = {} /\ founders = {} /\ crowded = FALSE
  /\ logins = 0 /\ grants = 0

\* callback, dev_login: an identity that is let in; provision reads, and inserts ...
BeginLogin(p) ==
  /\ p \in Allowed /\ login[p] = NoLogin /\ logins < MaxLogins
  /\ logins' = logins + 1
  /\ login' = [login EXCEPT ![p] = [account |-> Provisioned(p), insert |-> users[p] = Nobody,
                                    first |-> Users = {}]]
  /\ crowded' = (crowded \/ (Users = {} /\ \E q \in People : login[q].first))
  /\ UNCHANGED <<users, cookie, rooted, scoped, founders, grants>>

\* ... and commits, unless the row has come into being meanwhile (FailLogin).
CommitLogin(p) ==
  LET l == login[p]
  IN  /\ l # NoLogin
      /\ l.insert => users[p] = Nobody
      /\ users' = IF l.insert THEN [users EXCEPT ![p] = l.account] ELSE users
      /\ cookie' = [cookie EXCEPT ![p] = l.account]
      /\ rooted' = IF l.insert /\ (l.first \/ p \in Admins) THEN rooted \cup {p} ELSE rooted
      /\ founders' = IF l.insert /\ l.first /\ p \notin Admins THEN founders \cup {p} ELSE founders
      /\ login' = [login EXCEPT ![p] = NoLogin]
      /\ UNCHANGED <<scoped, crowded, logins, grants>>

\* The database is down or refuses: the login goes on, as a viewer.
FailLogin(p) ==
  /\ login[p] # NoLogin
  /\ cookie' = [cookie EXCEPT ![p] = Viewer]
  /\ login' = [login EXCEPT ![p] = NoLogin]
  /\ UNCHANGED <<users, rooted, scoped, founders, crowded, logins, grants>>

Logout(p) ==
  /\ cookie[p] # Nobody
  /\ cookie' = [cookie EXCEPT ![p] = Nobody]
  /\ UNCHANGED <<users, login, rooted, scoped, founders, crowded, logins, grants>>

\* The row of p becomes this account, by the word of a.
Grant(a, p, account) ==
  /\ can_manage_users(cookie[a].role) /\ grants < MaxGrants
  /\ grants' = grants + 1
  /\ users' = [users EXCEPT ![p] = account]
  /\ rooted' = IF a \in rooted /\ account.role = "global_admin" THEN rooted \cup {p} ELSE rooted
  /\ scoped' = IF a \in rooted THEN scoped \cup {<<p, b>> : b \in account.scopes} ELSE scoped
  /\ UNCHANGED <<login, cookie, founders, crowded, logins>>

\* users_set_role, set_role_route.
SetRole(a, p, role, scopes) == users[p] # Nobody /\ Grant(a, p, Assigned(role, scopes))

\* users_invite: the account is provisioned first if there is none.
Invite(a, p, role, scopes) == Grant(a, p, Assigned(role, scopes))

UserNext ==
  \/ \E p \in People : BeginLogin(p) \/ CommitLogin(p) \/ FailLogin(p) \/ Logout(p)
  \/ \E a, p \in People, role \in Role, scopes \in SUBSET Scopes :
       SetRole(a, p, role, scopes) \/ Invite(a, p, role, scopes)

--------------------------------------------------------------------------------
(***************************************************************************)
(* Weights                                                                 *)
(***************************************************************************)
Unasked == Hi + 1   \* a key that is not in the request, or has no number
Save    == [at : 0 .. MaxSaves, rows : SUBSET [key : Knobs, value : Lo .. Hi], ask : [Knobs -> Int]]
NoSave  == [at |-> 0, rows |-> {}, ask |-> [k \in Knobs |-> Unasked]]

Clamped(v) == IF v < Lo THEN Lo ELSE IF v > Hi THEN Hi ELSE v

\* load_overrides, resolve_weights: the latest row of a key, or what was shipped.
RowsOf(k)    == {r \in weights : r.key = k}
Effective(k) == IF RowsOf(k) = {} THEN Shipped[k]
                ELSE (CHOOSE r \in RowsOf(k) : \A q \in RowsOf(k) : q.at <= r.at).value

WeightInit ==
  /\ weights = {}
  /\ saving = [e \in Editors |-> NoSave]
  /\ saves = 0
  /\ asked = Shipped
  /\ savedAtOnce = FALSE

\* (mutant: a weight is skipped if it is what was shipped)
UnshippedRows(ask) ==
  {[key |-> k, value |-> Clamped(ask[k])] : k \in {j \in Knobs : ask[j] \notin {Unasked, Shipped[j]}}}

\* save_weights: a row for every weight that is asked for and differs.
ChangedRows(ask) ==
  {[key |-> k, value |-> Clamped(ask[k])] :
     k \in {j \in Knobs : ask[j] # Unasked /\ Clamped(ask[j]) # Effective(j)}}

BeginSave(e, ask) ==
  /\ saving[e] = NoSave /\ saves < MaxSaves
  /\ saves' = saves + 1
  /\ saving' = [saving EXCEPT ![e] = [at |-> saves + 1, rows |-> ChangedRows(ask), ask |-> ask]]
  /\ savedAtOnce' = (savedAtOnce \/ \E d \in Editors : saving[d] # NoSave)
  /\ UNCHANGED <<weights, asked>>

\* set_trend_score_weights, reset_trend_score_weights.
SetWeights(e)   == \E ask \in [Knobs -> Asks \cup {Unasked}] : BeginSave(e, ask)
ResetWeights(e) == BeginSave(e, Shipped)

CommitSave(e) ==
  LET s == saving[e]
  IN  /\ s # NoSave
      /\ weights' = weights \cup {[key |-> r.key, value |-> r.value, at |-> s.at] : r \in s.rows}
      /\ asked' = [k \in Knobs |-> IF s.ask[k] = Unasked THEN asked[k] ELSE Clamped(s.ask[k])]
      /\ saving' = [saving EXCEPT ![e] = NoSave]
      /\ UNCHANGED <<saves, savedAtOnce>>

AbortSave(e) ==
  /\ saving[e] # NoSave
  /\ saving' = [saving EXCEPT ![e] = NoSave]
  /\ UNCHANGED <<weights, saves, asked, savedAtOnce>>

WeightNext ==
  \E e \in Editors : SetWeights(e) \/ ResetWeights(e) \/ CommitSave(e) \/ AbortSave(e)

--------------------------------------------------------------------------------
ConsoleInit == UserInit /\ WeightInit

ConsoleNext == \/ UserNext /\ UNCHANGED weightVars
               \/ WeightNext /\ UNCHANGED userVars

ConsoleSpec == ConsoleInit /\ [][ConsoleNext]_consoleVars

\* Type invariant.
UserTypeOK ==
  /\ users \in [People -> Account \cup {Nobody}]
  /\ login \in [People -> Login]
  /\ cookie \in [People -> Account \cup {Nobody}]
  /\ rooted \subseteq People /\ founders \subseteq People
  /\ scoped \subseteq People \X Scopes
  /\ crowded \in BOOLEAN
  /\ logins \in 0 .. MaxLogins /\ grants \in 0 .. MaxGrants

WeightTypeOK ==
  /\ weights \subseteq [key : Knobs, value : Lo .. Hi, at : 1 .. MaxSaves]
  /\ saving \in [Editors -> Save]
  /\ saves \in 0 .. MaxSaves
  /\ asked \in [Knobs -> Lo .. Hi]
  /\ savedAtOnce \in BOOLEAN

ConsoleTypeOK == UserTypeOK /\ WeightTypeOK

\* An account or a cookie is a global admin's only if a chain of global admins leads from
\* there to the first user or to AUTH_ADMINS, and a brand user approves only what such an
\* admin gave to that person, unless admin is the default role ("the very first user (or anyone in the AUTH_ADMINS config)
\* becomes global_admin", users.py:3); there is one first user, if first logins do not overlap.
AuthorityIsGranted ==
  /\ DefaultRole # "global_admin" =>
     \A p \in People : \A account \in {users[p], cookie[p]} :
       /\ account.role = "global_admin" => p \in rooted
       /\ account.role = "brand_user" =>
            \A b \in Scopes : can_approve(account, b) => <<p, b>> \in scoped
  /\ ~crowded => Cardinality(founders) <= 1

\* If saves do not overlap, the score is computed with the weights that were asked for last,
\* within their range, resets and repeated values included ("Latest row per key wins",
\* trends/weights.py:4).
WeightsAsAsked == ~savedAtOnce => \A k \in Knobs : Effective(k) = asked[k]

================================================================================
