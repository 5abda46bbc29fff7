--------------------------- MODULE AccountsProofs ---------------------------
(***************************************************************************)
(* Theorems about the user accounts and the page of the web client, for    *)
(* any users, bounds and set of requests and calls, and without the        *)
(* restrictions by which a run of MCAccounts follows one part at a time.   *)
(***************************************************************************)
EXTENDS MCAccounts, FiniteSetTheorems, SequenceTheorems, WellFoundedInduction, TLAPS

ServerVars == <<task, alone, accountVars>>
ServerSpec == HandlersInit /\ AccountsInit(root) /\ [][AccountsNext]_ServerVars
PageSpec == ClientInit /\ [][ClientNext]_clientVars

(* What is claimed of the accounts is claimed as long as requests run one   *)
(* at a time, so all of the invariant is about the only one at work.        *)
Alone == \A r, s \in Requests : r = s \/ task[r] = Idle \/ task[s] = Idle
-----------------------------------------------------------------------------
(* The rows, and what a request may have to do *)

Roles == IdentityRoles \cup {"SUPER_ADMIN"}
UserRow ==
  [status : UserStatus, deleted : BOOLEAN, roles : SUBSET Roles, verified : BOOLEAN,
   failed : Nat, locked : BOOLEAN, password : Nat]
SessionRow == [user : Users, password : Nat, rotated : Nat, revoked : BOOLEAN]
TokenRow == [user : Users, kind : {"EMAIL_VERIFICATION", "PASSWORD_RESET"}, accepted : Nat, withdrawn : BOOLEAN]

Actors == Users \cup {Administrator}
Changes == [status : {Keep} \cup UserStatus, verified : {Keep, "yes", "no"}]

UpdateTask == [step : {"updateCount", "update", "revoke"}, user : Users, seen : UserRow, actor : Actors, args : Changes]
RolesTask == [step : {"rolesCount", "roles"}, user : Users, seen : UserRow, actor : Actors, args : SUBSET Roles]
ManageTask ==
  [step : {"password", "archiveCount", "archive", "restore", "hardDelete"}, user : Users, seen : UserRow,
   actor : Actors, args : {{}}]
LoginTask == [step : {"failed", "cleared", "issue"}, user : Users, seen : UserRow]
DemoTask == [step : {"bootstrap"}, user : Users, found : BOOLEAN]
MailTask == [step : {"verification", "reissue"}, user : Users]
LinkTask == [step : {"verify", "resetStatus"}, token : Nat, user : Users]
ResetTask == [step : {"reset", "revoke"}, token : Nat, user : Users, activate : BOOLEAN]
SessionTask == [step : {"rotate", "reuse", "access"}, session : Nat, user : Users]
ServerTask ==
  {Idle} \cup UpdateTask \cup RolesTask \cup ManageTask \cup LoginTask \cup DemoTask
  \cup MailTask \cup LinkTask \cup ResetTask \cup SessionTask

RowsTyped ==
  /\ user \in [Users -> UserRow \cup {NoAccount}]
  /\ session \in Seq(SessionRow) /\ token \in Seq(TokenRow) /\ supers \subseteq Users

(* Sessions and links belong to accounts; an open session that is not of    *)
(* today is about to be revoked by the request at work.                     *)
OfToday(s) ==
  LET u == session[s].user IN
  session[s].revoked \/ (user[u].status \notin Disabling /\ user[u].password \in {session[s].password, 0})
OpenLinks(u) == {i \in DOMAIN token : token[i].user = u /\ token[i].kind = "EMAIL_VERIFICATION" /\ Open(token[i])}
SessionsSound ==
  \A s \in DOMAIN session :
    /\ Exists(session[s].user)
    /\ OfToday(s) \/ \E r \in Requests : At(r, "revoke") /\ Target(r) = session[s].user
LinksSound ==
  /\ \A i \in DOMAIN token : Exists(token[i].user) /\ token[i].accepted <= 1
  /\ \A u \in Users : \A i, j \in OpenLinks(u) : i = j

(* What the request at work has read is still so.                           *)
SeenStill(w) ==
  /\ w.seen.status = user[w.user].status
  /\ w.seen.password = user[w.user].password
  /\ IsSuper(w.seen) <=> IsSuper(user[w.user])
Spared(u) == IsSuper(user[u]) => \E v \in SuperAdmins : v # u
Sound(w) ==
  /\ w.step \notin {"idle", "bootstrap"} => Exists(w.user)
  /\ w.step \in {"updateCount", "update", "rolesCount", "archiveCount", "cleared", "issue"} => SeenStill(w)
  /\ w.step \in {"cleared", "issue"} => user[w.user].status \notin Disabling
  /\ w.step = "roles" /\ "SUPER_ADMIN" \notin w.args => Spared(w.user)
  /\ w.step = "archive" => Spared(w.user)
  /\ w.step = "hardDelete" => w.actor # w.user
  /\ w.step \in {"verify", "resetStatus", "reset"} =>
       w.token \in DOMAIN token /\ token[w.token].accepted = 0 /\ token[w.token].user = w.user
  /\ w.step = "reset" => (w.activate => user[w.user].status = "PENDING_VERIFICATION")
  /\ w.step = "verification" => OpenLinks(w.user) = {}

ServerInv ==
  /\ Alone /\ task \in [Requests -> ServerTask]
  /\ RowsTyped /\ SessionsSound /\ LinksSound
  /\ \A r \in Requests : Sound(task[r])

Inv == Serial => ServerInv
-----------------------------------------------------------------------------
(* One request moves on *)

\* Request r, the only one at work, is at work w afterwards.
OneStep(r, w) ==
  /\ task' \in [Requests -> ServerTask] /\ task'[r] = w
  /\ \A s \in Requests \ {r} : task[s] = Idle /\ task'[s] = Idle

LEMMA IdleTask == Idle \in ServerTask
BY DEF ServerTask

LEMMA Shape ==
  \A w \in ServerTask :
    /\ w = Idle \/ (w.step # "idle" /\ w.user \in Users)
    /\ w.step \in {"updateCount", "update"} => w \in UpdateTask
    /\ w.step \in {"rolesCount", "roles"} => w \in RolesTask
    /\ w.step \in {"password", "archiveCount", "archive", "restore", "hardDelete"} => w \in ManageTask
    /\ w.step \in {"failed", "cleared", "issue"} => w \in LoginTask
    /\ w.step = "bootstrap" => w \in DemoTask
    /\ w.step \in {"verification", "reissue"} => w \in MailTask
    /\ w.step \in {"verify", "resetStatus"} => w \in LinkTask
    /\ w.step = "reset" => w \in ResetTask
    /\ w.step \in {"rotate", "reuse", "access"} => w \in SessionTask
    /\ w.step = "revoke" => w \in UpdateTask \cup ResetTask
BY DEF ServerTask, Idle, UpdateTask, RolesTask, ManageTask, LoginTask, DemoTask, MailTask, LinkTask, ResetTask, SessionTask

LEMMA Steps ==
  ASSUME ServerInv, NEW r \in Requests, NEW w \in ServerTask,
         \/ Begin(r, w) /\ alone'
         \/ AtOnce(r) /\ w = Idle /\ alone'
         \/ task[r] # Idle /\ Continue(r, w)
  PROVE  OneStep(r, w)
<1>1. \A s \in Requests \ {r} : task[s] = Idle
  BY DEF ServerInv, Alone, Begin, AtOnce, Continue, Quiet
<1>2. task' = [task EXCEPT ![r] = w]
  <2>1. CASE AtOnce(r) /\ w = Idle
    <3>1. task' = task /\ task[r] = w
      BY <2>1 DEF AtOnce
    <3>2. task \in [Requests -> ServerTask]
      BY DEF ServerInv
    <3>3. QED BY <3>1, <3>2
  <2>2. CASE Begin(r, w) \/ Continue(r, w)
    BY <2>2 DEF Begin, Continue
  <2>3. QED BY <2>1, <2>2
<1>3. QED BY <1>1, <1>2 DEF OneStep, ServerInv

\* What has to be shown of a step: the rows, and the work that is left.
LEMMA Assembled ==
  ASSUME ServerInv, NEW r \in Requests, NEW w \in ServerTask, OneStep(r, w),
         RowsTyped', LinksSound', Sound(w)',
         \A s \in DOMAIN session' :
           /\ Exists(session[s].user)'
           /\ OfToday(s)' \/ (w.step = "revoke" /\ w.user = session'[s].user)
  PROVE  ServerInv'
<1>1. Alone' /\ task' \in [Requests -> ServerTask]
  BY DEF OneStep, Alone
<1>2. ASSUME NEW s \in Requests PROVE Sound(task[s])'
  <2>1. CASE s = r
    <3>1. task'[s] = w
      BY <2>1 DEF OneStep
    <3>2. QED BY <3>1 DEF Sound, SeenStill
  <2>2. CASE s # r
    <3>1. task'[s] = Idle
      BY <2>2 DEF OneStep
    <3>2. QED BY <3>1 DEF Sound, Idle
  <2>3. QED BY <2>1, <2>2
<1>3. SessionsSound'
  <2> SUFFICES ASSUME NEW s \in DOMAIN session'
               PROVE  /\ Exists(session[s].user)'
                      /\ OfToday(s)' \/ \E q \in Requests : task'[q].step = "revoke" /\ task'[q].user = session'[s].user
    BY DEF SessionsSound, At, Target
  <2>1. task'[r] = w
    BY DEF OneStep
  <2>2. QED BY <2>1
<1>4. QED BY <1>1, <1>2, <1>3 DEF ServerInv

\* A step that only reads.
LEMMA Reads ==
  ASSUME ServerInv, NEW r \in Requests, NEW w \in ServerTask, OneStep(r, w),
         UNCHANGED accountVars, task[r].step # "revoke", Sound(w)
  PROVE  ServerInv'
<1>1. user' = user /\ session' = session /\ token' = token /\ supers' = supers
  BY DEF accountVars
<1>2. RowsTyped' /\ LinksSound' /\ Sound(w)'
  BY <1>1 DEF ServerInv, RowsTyped, LinksSound, Sound, SeenStill, Spared, SuperAdmins, OpenLinks, Exists
<1>3. ASSUME NEW s \in DOMAIN session' PROVE Exists(session[s].user)' /\ OfToday(s)'
  <2>1. \A q \in Requests : task[q].step # "revoke"
    BY DEF OneStep, Idle
  <2>2. Exists(session[s].user) /\ OfToday(s)
    BY <1>1, <1>3, <2>1 DEF ServerInv, SessionsSound, At
  <2>3. QED BY <1>1, <2>2 DEF Exists, OfToday
<1>4. QED BY <1>2, <1>3, Assembled

LEMMA Element == \A S : \A q \in Seq(S) : \A i \in DOMAIN q : q[i] \in S /\ i \in 1..Len(q) /\ Len(q) \in Nat
OBVIOUS

LEMMA Owned ==
  ASSUME ServerInv
  PROVE  /\ \A s \in DOMAIN session : session[s] \in SessionRow /\ session[s].user \in Users
         /\ \A i \in DOMAIN token : token[i] \in TokenRow /\ token[i].user \in Users
<1>1. /\ \A s \in DOMAIN session : session[s] \in SessionRow
      /\ \A i \in DOMAIN token : token[i] \in TokenRow
  BY Element DEF ServerInv, RowsTyped
<1>2. QED BY <1>1 DEF SessionRow, TokenRow

\* A step that writes one user row.  The row keeps what its sessions depend
\* on, or the sessions are revoked next.
LEMMA Writes ==
  ASSUME ServerInv, NEW r \in Requests, NEW w \in ServerTask, OneStep(r, w),
         NEW u \in Users, NEW row \in UserRow, SetUser(u, row),
         session' = session, token' \in Seq(TokenRow), LinksSound', supers' \subseteq Users,
         task[r].step # "revoke", Sound(w)',
         \/ w.step = "revoke" /\ w.user = u
         \/ /\ Exists(u) /\ user[u].status \notin Disabling => row.status \notin Disabling
            /\ Exists(u) => row.password \in {user[u].password, 0}
  PROVE  ServerInv'
<1>0. user \in [Users -> UserRow \cup {NoAccount}] /\ session \in Seq(SessionRow)
  BY DEF ServerInv, RowsTyped
<1>1. /\ user' \in [Users -> UserRow \cup {NoAccount}] /\ user'[u] = row
      /\ \A v \in Users \ {u} : user'[v] = user[v]
  BY <1>0 DEF SetUser
<1>2. RowsTyped'
  BY <1>0, <1>1 DEF RowsTyped
<1>3. ASSUME NEW s \in DOMAIN session'
      PROVE  /\ Exists(session[s].user)'
             /\ OfToday(s)' \/ (w.step = "revoke" /\ w.user = session'[s].user)
  <2>1. \A q \in Requests : task[q].step # "revoke"
    BY DEF OneStep, Idle
  <2>2. Exists(session[s].user) /\ OfToday(s)
    BY <1>3, <2>1 DEF ServerInv, SessionsSound, At
  <2>3. session'[s] = session[s] /\ session[s].user \in Users
    BY <1>3, Owned
  <2>4. CASE session[s].user # u
    <3>1. user'[session[s].user] = user[session[s].user]
      BY <1>1, <2>3, <2>4
    <3>2. QED BY <2>2, <2>3, <3>1 DEF Exists, OfToday
  <2>5. CASE session[s].user = u
    <3>1. Exists(session[s].user)'
      BY <1>1, <2>3, <2>5 DEF Exists, UserRow, UserStatus
    <3>2. CASE w.step = "revoke" /\ w.user = u
      BY <2>3, <2>5, <3>1, <3>2
    <3>3. CASE /\ Exists(u) /\ user[u].status \notin Disabling => row.status \notin Disabling
               /\ Exists(u) => row.password \in {user[u].password, 0}
      BY <1>1, <2>2, <2>3, <2>5, <3>1, <3>3 DEF OfToday
    <3>4. QED BY <3>2, <3>3
  <2>6. QED BY <2>4, <2>5
<1>4. QED BY <1>2, <1>3, Assembled

LEMMA LinksStay ==
  ASSUME ServerInv, NEW u \in Users, NEW row \in UserRow, SetUser(u, row), token' = token
  PROVE  LinksSound' /\ token' \in Seq(TokenRow) /\ \A v \in Users : OpenLinks(v)' = OpenLinks(v)
<1>0. user \in [Users -> UserRow \cup {NoAccount}] /\ token \in Seq(TokenRow)
  BY DEF ServerInv, RowsTyped
<1>1. \A v \in Users : OpenLinks(v)' = OpenLinks(v)
  BY DEF OpenLinks, Open
<1>2. \A v \in Users : Exists(v) => Exists(v)'
  BY <1>0 DEF Exists, SetUser, UserRow, UserStatus
<1>3. \A i \in DOMAIN token : token[i].user \in Users
  BY Owned
<1>4. QED BY <1>0, <1>1, <1>2, <1>3 DEF ServerInv, LinksSound

\* The sessions of a user are ended.
LEMMA Revoked ==
  ASSUME ServerInv, NEW u \in Users, RevokeAll(u)
  PROVE  /\ session' \in Seq(SessionRow) /\ DOMAIN session' = DOMAIN session
         /\ \A s \in DOMAIN session :
              /\ session'[s].user = session[s].user /\ session'[s].password = session[s].password
              /\ session[s].user = u => session'[s].revoked
              /\ session[s].user # u => session'[s] = session[s]
<1>0. session \in Seq(SessionRow)
  BY DEF ServerInv, RowsTyped
<1>1. \A s \in DOMAIN session : session[s] \in SessionRow
  BY <1>0
<1>2. PICK f : f = [s \in DOMAIN session |-> IF session[s].user = u THEN [session[s] EXCEPT !.revoked = TRUE] ELSE session[s]]
  OBVIOUS
<1>3. \A s \in DOMAIN session :
        /\ f[s] \in SessionRow /\ f[s].user = session[s].user /\ f[s].password = session[s].password
        /\ session[s].user = u => f[s].revoked
        /\ session[s].user # u => f[s] = session[s]
  BY <1>1, <1>2 DEF SessionRow
<1>4. session' = f /\ DOMAIN f = 1..Len(session) /\ Len(session) \in Nat
  BY <1>0, <1>2 DEF RevokeAll
<1>5. f \in Seq(SessionRow)
  <2>1. f \in [1..Len(session) -> SessionRow]
    BY <1>2, <1>3, <1>4
  <2>2. QED BY <1>4, <2>1
<1>6. QED BY <1>3, <1>4, <1>5, <1>0

\* Ended with a change of the row, or alone.
LEMMA WritesAndRevokes ==
  ASSUME ServerInv, NEW r \in Requests, OneStep(r, Idle),
         NEW u \in Users, RevokeAll(u), token' = token, supers' = supers,
         \/ \E row \in UserRow : SetUser(u, row)
         \/ user' = user,
         \A q \in Requests : At(q, "revoke") => Target(q) = u
  PROVE  ServerInv'
<1>0. user \in [Users -> UserRow \cup {NoAccount}] /\ session \in Seq(SessionRow)
      /\ token \in Seq(TokenRow) /\ supers \subseteq Users
  BY DEF ServerInv, RowsTyped
<1>1. /\ user' \in [Users -> UserRow \cup {NoAccount}]
      /\ \A v \in Users : Exists(v) => Exists(v)'
      /\ \A v \in Users \ {u} : user'[v] = user[v]
  BY <1>0 DEF SetUser, Exists, UserRow, UserStatus
<1>2. RowsTyped'
  BY <1>0, <1>1, Revoked DEF RowsTyped
<1>3. LinksSound'
  <2>1. \A v \in Users : OpenLinks(v)' = OpenLinks(v)
    BY DEF OpenLinks, Open
  <2>2. \A i \in DOMAIN token : token[i].user \in Users
    BY Owned
  <2>3. QED BY <1>1, <2>1, <2>2 DEF ServerInv, LinksSound
<1>4. ASSUME NEW s \in DOMAIN session' PROVE Exists(session[s].user)' /\ OfToday(s)'
  <2>1. s \in DOMAIN session /\ session[s].user \in Users /\ session'[s].user = session[s].user
    BY <1>0, <1>4, Revoked, Owned
  <2>2. Exists(session[s].user) /\ (OfToday(s) \/ session[s].user = u)
    BY <2>1 DEF ServerInv, SessionsSound
  <2>3. CASE session[s].user = u
    <3>1. session'[s].revoked
      BY <2>1, <2>3, Revoked
    <3>2. QED BY <1>1, <2>1, <2>2, <3>1 DEF OfToday, Exists
  <2>4. CASE session[s].user # u
    <3>1. session'[s] = session[s] /\ user'[session[s].user] = user[session[s].user]
      BY <1>1, <2>1, <2>4, Revoked
    <3>2. QED BY <2>2, <2>4, <3>1 DEF OfToday, Exists
  <2>5. QED BY <2>3, <2>4
<1>5. Sound(Idle)'
  BY DEF Sound, Idle
<1>6. QED BY <1>2, <1>3, <1>4, <1>5, IdleTask, Assembled
-----------------------------------------------------------------------------
(* Administration *)

LEMMA Managed ==
  ASSUME ServerInv, alone', NEW r \in Requests, NEW step, NEW actor \in Callers, NEW u \in Users, NEW args,
         Manage(r, step, actor, u, args),
         \/ step \in {"updateCount", "update"} /\ args \in Changes
         \/ step \in {"rolesCount", "roles"} /\ args \in SUBSET Roles
         \/ step \in {"password", "archiveCount", "restore", "hardDelete"} /\ args = {},
         step = "roles" /\ "SUPER_ADMIN" \notin args => ~IsSuper(user[u]),
         step = "hardDelete" => actor # u
  PROVE  ServerInv'
<1>1. PICK w : w = [step |-> step, user |-> u, seen |-> user[u], actor |-> actor, args |-> args]
  OBVIOUS
<1>2. Exists(u) /\ Begin(r, w) /\ UNCHANGED accountVars
  BY <1>1 DEF Manage
<1>3. user[u] \in UserRow /\ actor \in Actors
  BY <1>2 DEF ServerInv, RowsTyped, Exists, NoAccount, Callers, Actors
<1>4. w \in ServerTask
  BY <1>1, <1>3 DEF ServerTask, UpdateTask, RolesTask, ManageTask
<1>5. OneStep(r, w) /\ task[r].step # "revoke"
  <2>1. OneStep(r, w)
    BY <1>2, <1>4, Steps
  <2>2. task[r] = Idle
    BY <1>2 DEF Begin
  <2>3. QED BY <2>1, <2>2 DEF Idle
<1>6. Sound(w)
  BY <1>1, <1>2 DEF Sound, SeenStill, Spared
<1>7. QED BY <1>2, <1>4, <1>5, <1>6, Reads

LEMMA ManagedSteps ==
  ASSUME ServerInv, alone', NEW r \in Requests,
         \/ update(r) \/ setRoles(r) \/ setIdentityType(r) \/ adminResetPassword(r)
         \/ archive(r) \/ restore(r) \/ hardDelete(r)
  PROVE  ServerInv'
<1>1. CASE update(r)
  <2>1. PICK actor \in Callers, u \in Users, status \in {Keep} \cup UserStatus, verified \in {Keep, "yes", "no"} :
          Manage(r, IF status \in {Keep, "ACTIVE"} THEN "update" ELSE "updateCount", actor, u,
                 [status |-> status, verified |-> verified])
    BY <1>1 DEF update
  <2>2. [status |-> status, verified |-> verified] \in Changes
    BY DEF Changes
  <2>3. QED BY <2>1, <2>2, Managed
<1>2. CASE setRoles(r)
  <2>1. PICK actor \in supers, u \in Users, roles \in RoleSets :
          Manage(r, IF IsSuper(user[u]) /\ "SUPER_ADMIN" \notin roles THEN "rolesCount" ELSE "roles", actor, u, roles)
    BY <1>2 DEF setRoles
  <2>2. roles \in SUBSET Roles /\ actor \in Callers
    BY DEF RoleSets, Roles, IdentityRoles, Callers
  <2>3. CASE IsSuper(user[u]) /\ "SUPER_ADMIN" \notin roles
    BY <2>1, <2>2, <2>3, Managed
  <2>4. CASE ~(IsSuper(user[u]) /\ "SUPER_ADMIN" \notin roles)
    BY <2>1, <2>2, <2>4, Managed
  <2>5. QED BY <2>3, <2>4
<1>3. CASE setIdentityType(r)
  <2>1. PICK actor \in supers, u \in Users, role \in IdentityRoles :
          Exists(u) /\ Manage(r, "roles", actor, u, (user[u].roles \ IdentityRoles) \cup {role})
    BY <1>3 DEF setIdentityType
  <2>2. user[u] \in UserRow
    BY <2>1 DEF ServerInv, RowsTyped, Exists, NoAccount
  <2>3. PICK roles : roles = (user[u].roles \ IdentityRoles) \cup {role}
    OBVIOUS
  <2>4. roles \in SUBSET Roles /\ ("SUPER_ADMIN" \notin roles => ~IsSuper(user[u]))
    BY <2>2, <2>3 DEF UserRow, Roles, IdentityRoles, IsSuper
  <2>5. actor \in Callers
    BY DEF Callers
  <2>6. QED BY <2>1, <2>3, <2>4, <2>5, Managed
<1>4. CASE adminResetPassword(r)
  BY <1>4, Managed DEF adminResetPassword
<1>5. CASE archive(r)
  BY <1>5, Managed DEF archive
<1>6. CASE restore(r)
  BY <1>6, Managed DEF restore
<1>7. CASE hardDelete(r)
  <2>1. PICK actor \in supers, u \in Users : actor # u /\ Manage(r, "hardDelete", actor, u, {})
    BY <1>7 DEF hardDelete
  <2>2. actor \in Callers /\ actor # u
    BY <2>1 DEF Callers
  <2>3. QED BY <2>1, <2>2, Managed
<1>8. QED BY <1>1, <1>2, <1>3, <1>4, <1>5, <1>6, <1>7

\* Whoever counts more than one super administrator leaves one.
LEMMA Counted ==
  ASSUME NEW u \in Users, ~(countActiveSuperAdmins <= 1)
  PROVE  \E v \in SuperAdmins : v # u
<1> SUFFICES ASSUME SuperAdmins \subseteq {u} PROVE FALSE
  OBVIOUS
<1>1. IsFiniteSet({u}) /\ Cardinality({u}) = 1
  BY FS_Singleton
<1>2. Cardinality(SuperAdmins) <= 1
  BY <1>1, FS_Subset
<1>3. QED BY <1>2 DEF countActiveSuperAdmins

LEMMA Counts ==
  ASSUME ServerInv, NEW r \in Requests, countForUpdate(r) \/ countForRoles(r) \/ countForArchive(r)
  PROVE  ServerInv'
<1>0. task[r] \in ServerTask /\ Sound(task[r])
  BY DEF ServerInv
<1>1. UNCHANGED accountVars /\ task[r] # Idle
  BY DEF countForUpdate, countForRoles, countForArchive, assertNotLastSuperAdmin, At, Idle
<1>2. CASE Finish(r)
  <2>1. OneStep(r, Idle) /\ task[r].step # "revoke"
    BY <1>1, <1>2, IdleTask, Steps DEF Finish, countForUpdate, countForRoles, countForArchive, At
  <2>2. QED BY <1>1, <2>1, IdleTask, Reads DEF Sound, Idle
<1>3. CASE ~Finish(r)
  <2>1. PICK next \in {"update", "roles", "archive"} :
          /\ task[r].step = (CASE next = "update" -> "updateCount" [] next = "roles" -> "rolesCount" [] OTHER -> "archiveCount")
          /\ assertNotLastSuperAdmin(r, next)
    BY DEF countForUpdate, countForRoles, countForArchive, At
  <2>2. PICK w : w = [task[r] EXCEPT !.step = next]
    OBVIOUS
  <2>3. Continue(r, w) /\ (IsSuper(Seen(r)) => ~(countActiveSuperAdmins <= 1))
    BY <1>3, <2>1, <2>2 DEF assertNotLastSuperAdmin
  <2>4. /\ next = "update" => task[r] \in UpdateTask
        /\ next = "roles" => task[r] \in RolesTask
        /\ next = "archive" => task[r] \in ManageTask
    BY <1>0, <2>1, Shape
  <2>5. /\ w.step = next /\ w.user = task[r].user /\ w.seen = task[r].seen /\ w.actor = task[r].actor
        /\ w.args = task[r].args
        /\ w \in UpdateTask \cup RolesTask \cup ManageTask
    <3>1. CASE next = "update"
      BY <2>2, <2>4, <3>1 DEF UpdateTask
    <3>2. CASE next = "roles"
      BY <2>2, <2>4, <3>2 DEF RolesTask
    <3>3. CASE next = "archive"
      BY <2>2, <2>4, <3>3 DEF ManageTask
    <3>4. QED BY <3>1, <3>2, <3>3
  <2>6. w \in ServerTask
    BY <2>5 DEF ServerTask
  <2>7. SeenStill(task[r]) /\ Exists(task[r].user) /\ task[r].user \in Users
    BY <1>0, <1>1, <2>1, Shape DEF Sound
  <2>8. Spared(task[r].user)
    BY <2>3, <2>7, Counted DEF Spared, SeenStill, Seen
  <2>9. Sound(w)
    BY <2>5, <2>7, <2>8 DEF Sound, SeenStill
  <2>10. OneStep(r, w) /\ task[r].step # "revoke"
    BY <1>1, <2>1, <2>3, <2>6, Steps
  <2>11. QED BY <1>1, <2>6, <2>9, <2>10, Reads
<1>4. QED BY <1>2, <1>3

LEMMA AtWork ==
  ASSUME ServerInv, NEW r \in Requests, task[r].step # "idle"
  PROVE  /\ task[r] \in ServerTask /\ task[r] # Idle /\ Sound(task[r]) /\ Target(r) \in Users
         /\ task[r].step # "bootstrap" => Exists(Target(r))
         /\ Exists(Target(r)) => user[Target(r)] \in UserRow
<1>1. task[r] \in ServerTask /\ task[r] # Idle /\ Sound(task[r])
  BY DEF ServerInv, Idle
<1>2. task[r].user \in Users
  BY <1>1, Shape
<1>3. user[task[r].user] \in UserRow \cup {NoAccount}
  BY <1>2 DEF ServerInv, RowsTyped
<1>4. QED BY <1>1, <1>2, <1>3 DEF Sound, Target, Exists, NoAccount

\* The last write of a request.
LEMMA WritesLast ==
  ASSUME ServerInv, NEW r \in Requests, NEW u \in Users, NEW row \in UserRow,
         \/ task[r].step \notin {"idle", "revoke"} /\ Finish(r)
         \/ AtOnce(r) /\ alone',
         SetUser(u, row), OnlyUser,
         Exists(u) /\ user[u].status \notin Disabling => row.status \notin Disabling,
         Exists(u) => row.password \in {user[u].password, 0}
  PROVE  ServerInv'
<1>1. OneStep(r, Idle) /\ task[r].step # "revoke"
  <2>1. CASE task[r].step \notin {"idle", "revoke"} /\ Finish(r)
    <3>1. task[r] # Idle
      BY <2>1 DEF Idle
    <3>2. QED BY <2>1, <3>1, IdleTask, Steps DEF Finish
  <2>2. CASE AtOnce(r) /\ alone'
    <3>1. OneStep(r, Idle)
      BY <2>2, IdleTask, Steps
    <3>2. QED BY <2>2, <3>1 DEF AtOnce, Idle
  <2>3. QED BY <2>1, <2>2
<1>2. session' = session /\ token' = token /\ supers' = supers
  BY DEF OnlyUser
<1>3. LinksSound' /\ token' \in Seq(TokenRow) /\ supers' \subseteq Users
  BY <1>2, LinksStay DEF ServerInv, RowsTyped
<1>4. Sound(Idle)'
  BY DEF Sound, Idle
<1>5. QED BY <1>1, <1>2, <1>3, <1>4, IdleTask, Writes

LEMMA Create ==
  ASSUME ServerInv, alone', NEW r \in Requests, create(r)
  PROVE  ServerInv'
<1>1. PICK u \in Users, roles \in RoleSets, status \in UserStatus, verified \in BOOLEAN :
        ~Exists(u) /\ SetUser(u, NewAccount(status, roles, verified))
  BY DEF create
<1>2. PICK row : row = NewAccount(status, roles, verified)
  OBVIOUS
<1>3. row \in UserRow
  BY <1>2 DEF NewAccount, UserRow, RoleSets, Roles, IdentityRoles
<1>4. AtOnce(r) /\ OnlyUser
  BY DEF create
<1>5. QED BY <1>1, <1>2, <1>3, <1>4, WritesLast

LEMMA SetUpdated ==
  ASSUME ServerInv, NEW r \in Requests, setUpdated(r)
  PROVE  ServerInv'
<1>0. /\ task[r].step = "update" /\ task[r] \in UpdateTask /\ Target(r) \in Users
      /\ user[Target(r)] \in UserRow /\ Exists(Target(r)) /\ task[r].args \in Changes /\ SeenStill(task[r])
  <2>1. task[r].step = "update"
    BY DEF setUpdated, At
  <2>2. task[r] \in UpdateTask
    BY <2>1, AtWork, Shape
  <2>3. QED BY <2>1, <2>2, AtWork DEF UpdateTask, Sound
<1>1. PICK args \in Changes : args = task[r].args
  BY <1>0
<1>2. PICK row : row = [user[Target(r)] EXCEPT
        !.status = IF args.status = Keep THEN @ ELSE args.status,
        !.verified = IF args.verified = Keep THEN @ ELSE args.verified = "yes"]
  OBVIOUS
<1>3. SetUser(Target(r), row) /\ OnlyUser
  BY <1>1, <1>2 DEF setUpdated
<1>4. /\ row.status = IF args.status = Keep THEN user[Target(r)].status ELSE args.status
      /\ row.password = user[Target(r)].password
  BY <1>0, <1>2 DEF UserRow
<1>5. row \in UserRow
  <2>2. PICK s, v : /\ s = IF args.status = Keep THEN user[Target(r)].status ELSE args.status
                    /\ v = IF args.verified = Keep THEN user[Target(r)].verified ELSE args.verified = "yes"
    OBVIOUS
  <2>3. s \in UserStatus
    BY <1>0, <1>1, <2>2 DEF UserRow, Changes
  <2>4. v \in BOOLEAN
    <3>1. user[Target(r)].verified \in BOOLEAN
      BY <1>0 DEF UserRow
    <3>2. QED BY <2>2, <3>1, Zenon
  <2>5. row = [user[Target(r)] EXCEPT !.status = s, !.verified = v]
    BY <1>2, <2>2, Zenon
  <2>6. QED BY <1>0, <2>3, <2>4, <2>5 DEF UserRow
<1>6. CASE args.status \in {Keep, "ACTIVE", Seen(r).status}
  <2>1. Finish(r)
    BY <1>1, <1>6 DEF setUpdated
  <2>2. Seen(r).status = user[Target(r)].status
    BY <1>0 DEF Seen, SeenStill, Target
  <2>3. user[Target(r)].status \notin Disabling => row.status \notin Disabling
    BY <1>4, <1>6, <2>2 DEF Disabling, Keep
  <2>4. QED BY <1>0, <1>3, <1>4, <1>5, <2>1, <2>3, WritesLast
<1>7. CASE args.status \notin {Keep, "ACTIVE", Seen(r).status}
  <2>1. PICK w : w = [task[r] EXCEPT !.step = "revoke"]
    OBVIOUS
  <2>2. Continue(r, w)
    BY <1>1, <1>7, <2>1 DEF setUpdated
  <2>3. w \in UpdateTask /\ w.step = "revoke" /\ w.user = Target(r)
    BY <1>0, <2>1 DEF UpdateTask, Target
  <2>4. w \in ServerTask
    BY <2>3 DEF ServerTask
  <2>5. OneStep(r, w)
    BY <1>0, <2>2, <2>4, AtWork, Steps
  <2>6. PICK u \in Users : u = Target(r)
    BY <1>0
  <2>7. Sound(w)'
    <3>1. user'[u] = row
      BY <1>3, <2>6 DEF ServerInv, RowsTyped, SetUser
    <3>2. row.status # "none" /\ w.user = u
      BY <1>5, <2>3, <2>6 DEF UserRow, UserStatus
    <3>3. Exists(w.user)'
      BY <3>1, <3>2 DEF Exists
    <3>4. QED BY <2>3, <3>3 DEF Sound
  <2>8. session' = session /\ token' = token /\ supers' = supers
    BY <1>3 DEF OnlyUser
  <2>9. LinksSound' /\ token' \in Seq(TokenRow) /\ supers' \subseteq Users
    BY <1>0, <1>3, <1>5, <2>8, LinksStay DEF ServerInv, RowsTyped
  <2>10. QED BY <1>0, <1>3, <1>5, <2>3, <2>4, <2>5, <2>7, <2>8, <2>9, Writes
<1>8. QED BY <1>6, <1>7

LEMMA Fields ==
  \A row \in UserRow :
    /\ [row EXCEPT !.status = "DEACTIVATED", !.deleted = TRUE] \in UserRow
    /\ [row EXCEPT !.status = "ACTIVE", !.deleted = FALSE] \in UserRow
    /\ [row EXCEPT !.status = "ACTIVE", !.deleted = FALSE].password = row.password
    /\ [row EXCEPT !.status = "ACTIVE", !.deleted = FALSE].status = "ACTIVE"
    /\ NewPassword(row) \in UserRow
    /\ [row EXCEPT !.failed = 0, !.locked = FALSE] \in UserRow
<1> SUFFICES ASSUME NEW row \in UserRow
             PROVE  /\ [row EXCEPT !.status = "DEACTIVATED", !.deleted = TRUE] \in UserRow
                    /\ [row EXCEPT !.status = "ACTIVE", !.deleted = FALSE] \in UserRow
                    /\ [row EXCEPT !.status = "ACTIVE", !.deleted = FALSE].password = row.password
                    /\ [row EXCEPT !.status = "ACTIVE", !.deleted = FALSE].status = "ACTIVE"
                    /\ NewPassword(row) \in UserRow
                    /\ [row EXCEPT !.failed = 0, !.locked = FALSE] \in UserRow
  OBVIOUS
<1>1. NewPassword(row) \in UserRow
  <2>1. row.password + 1 \in Nat
    BY DEF UserRow
  <2>2. PICK n \in Nat : n = row.password + 1
    BY <2>1
  <2>3. NewPassword(row) = [row EXCEPT !.password = n, !.failed = 0, !.locked = FALSE]
    BY <2>2, Zenon DEF NewPassword
  <2>4. [row EXCEPT !.password = n] \in UserRow
    BY <2>2 DEF UserRow
  <2>5. PICK other \in UserRow : other = [row EXCEPT !.password = n]
    BY <2>4
  <2>6. NewPassword(row) = [other EXCEPT !.failed = 0, !.locked = FALSE]
    BY <2>3, <2>5 DEF UserRow
  <2>7. [other EXCEPT !.failed = 0, !.locked = FALSE] \in UserRow
    BY <2>5 DEF UserRow
  <2>8. QED BY <2>6, <2>7
<1>2. /\ [row EXCEPT !.status = "DEACTIVATED", !.deleted = TRUE] \in UserRow
      /\ [row EXCEPT !.status = "ACTIVE", !.deleted = FALSE] \in UserRow
  BY DEF UserRow, UserStatus
<1>3. /\ [row EXCEPT !.status = "ACTIVE", !.deleted = FALSE].password = row.password
      /\ [row EXCEPT !.status = "ACTIVE", !.deleted = FALSE].status = "ACTIVE"
      /\ [row EXCEPT !.failed = 0, !.locked = FALSE] \in UserRow
  BY DEF UserRow, UserStatus
<1>4. QED BY <1>1, <1>2, <1>3

LEMMA RowSteps ==
  ASSUME ServerInv, NEW r \in Requests, replaceRoles(r) \/ setRestored(r) \/ setDemo(r)
  PROVE  ServerInv'
<1>0. task[r].step \in {"roles", "restore", "bootstrap"} /\ Finish(r) /\ OnlyUser
  BY DEF replaceRoles, setRestored, setDemo, At
<1>1. Target(r) \in Users
  BY <1>0, AtWork
<1>2. CASE replaceRoles(r)
  <2>1. PICK row : row = [user[Target(r)] EXCEPT !.roles = task[r].args]
    OBVIOUS
  <2>2. SetUser(Target(r), row) /\ task[r].step = "roles" /\ Exists(Target(r))
    BY <1>2, <2>1 DEF replaceRoles, At
  <2>3. task[r].args \in SUBSET Roles /\ user[Target(r)] \in UserRow
    <3>1. task[r] \in RolesTask
      BY <2>2, AtWork, Shape
    <3>2. QED BY <2>2, <3>1, AtWork DEF RolesTask
  <2>4. row \in UserRow /\ row.status = user[Target(r)].status /\ row.password = user[Target(r)].password
    BY <2>1, <2>3 DEF UserRow
  <2>5. QED BY <1>0, <1>1, <2>2, <2>4, WritesLast
<1>3. CASE setRestored(r)
  <2>1. PICK row : row = [user[Target(r)] EXCEPT !.status = "ACTIVE", !.deleted = FALSE]
    OBVIOUS
  <2>2. SetUser(Target(r), row) /\ Exists(Target(r))
    BY <1>3, <2>1 DEF setRestored
  <2>3. row \in UserRow /\ row.status = "ACTIVE" /\ row.password = user[Target(r)].password
    BY <1>0, <2>1, <2>2, AtWork, Fields
  <2>4. QED BY <1>0, <1>1, <2>2, <2>3, WritesLast DEF Disabling
<1>4. CASE setDemo(r)
  <2>1. PICK row : row = IF task[r].found
       THEN [user[Target(r)] EXCEPT !.status = "ACTIVE", !.deleted = FALSE, !.verified = TRUE, !.failed = 0,
                                   !.locked = FALSE, !.password = 0, !.roles = @ \cup {"SUPER_ADMIN"}]
       ELSE NewAccount("ACTIVE", {"SUPER_ADMIN"}, TRUE)
    OBVIOUS
  <2>2. SetUser(Target(r), row) /\ task[r].found = Exists(Target(r))
    BY <1>4, <2>1 DEF setDemo
  <2>3. row \in UserRow /\ row.status = "ACTIVE" /\ row.password = 0
    <3>1. CASE task[r].found
      <4>1. user[Target(r)] \in UserRow
        BY <1>0, <2>2, <3>1, AtWork
      <4>2. QED BY <2>1, <3>1, <4>1 DEF UserRow, UserStatus, Roles
    <3>2. CASE ~task[r].found
      BY <2>1, <3>2 DEF NewAccount, UserRow, UserStatus, Roles
    <3>3. QED BY <3>1, <3>2
  <2>4. QED BY <1>0, <1>1, <2>2, <2>3, WritesLast DEF Disabling
<1>5. QED BY <1>2, <1>3, <1>4

LEMMA RevokingSteps ==
  ASSUME ServerInv, NEW r \in Requests, setPassword(r) \/ setArchived(r) \/ revokeAllForUser(r)
  PROVE  ServerInv'
<1>0. /\ task[r].step \in {"password", "archive", "revoke"} /\ Finish(r) /\ RevokeAll(Target(r))
      /\ token' = token /\ supers' = supers
  BY DEF setPassword, setArchived, revokeAllForUser, At
<1>1. Target(r) \in Users /\ Exists(Target(r)) /\ user[Target(r)] \in UserRow /\ task[r] # Idle
  BY <1>0, AtWork
<1>2. OneStep(r, Idle)
  BY <1>0, <1>1, IdleTask, Steps DEF Finish
<1>3. (\E row \in UserRow : SetUser(Target(r), row)) \/ user' = user
  BY <1>1, Fields DEF setPassword, setArchived, revokeAllForUser
<1>4. \A q \in Requests : At(q, "revoke") => Target(q) = Target(r)
  BY <1>2 DEF OneStep, At, Idle
<1>5. QED BY <1>0, <1>1, <1>2, <1>3, <1>4, WritesAndRevokes
-----------------------------------------------------------------------------
(* A deletion takes the rows of one user and keeps the others, each once *)

LEMMA Upward ==
  ASSUME NEW T \in SUBSET Nat, 0 \in T, \A n \in T : n + 1 \in T
  PROVE  T = Nat
<1> SUFFICES ASSUME NEW bad \in Nat \ T PROVE FALSE
  OBVIOUS
<1>1. IsWellFoundedOn(OpToRel(<, Nat), Nat)
  BY NatLessThanWellFounded
<1>2. PICK x \in Nat \ T : \A y \in Nat \ T : <<y, x>> \notin OpToRel(<, Nat)
  <2>1. Nat \ T \subseteq Nat /\ Nat \ T # {}
    OBVIOUS
  <2>2. QED BY <1>1, <2>1, WFMin
<1>3. x \in Nat \ T /\ \A y \in Nat \ T : ~(y < x)
  BY <1>2 DEF OpToRel
<1>4. x # 0 /\ x - 1 \in T
  BY <1>3
<1>5. (x - 1) + 1 \in T /\ (x - 1) + 1 = x
  BY <1>3, <1>4
<1>6. QED BY <1>3, <1>5

Selection(kept, rows, u) ==
  \E m \in [DOMAIN kept -> DOMAIN rows] :
    /\ \A i, j \in DOMAIN kept : m[i] = m[j] => i = j
    /\ \A i \in DOMAIN kept : kept[i] = rows[m[i]] /\ rows[m[i]].user # u

LEMMA OthersAreKept ==
  ASSUME NEW T, NEW rows \in Seq(T), NEW u
  PROVE  Others(rows, u) \in Seq(T) /\ Selection(Others(rows, u), rows, u)
<1>0. PICK len \in Nat : len = Len(rows) /\ DOMAIN rows = 1..len /\ \A i \in 1..len : rows[i] \in T
  BY Element
<1> DEFINE Keeps(f, n) ==
             f = [i \in 0..n |-> IF i = 0 THEN <<>>
                                 ELSE IF rows[i].user = u THEN f[i - 1] ELSE Append(f[i - 1], rows[i])]
<1>1. \E f : Keeps(f, len)
  <2>1. PICK S : S = {n \in Nat : \E f : Keeps(f, n)}
    OBVIOUS
  <2>2. 0 \in S
    <3>1. PICK f : f = [i \in 0..0 |-> <<>>]
      OBVIOUS
    <3>2. Keeps(f, 0)
      BY <3>1
    <3>3. QED BY <2>1, <3>2
  <2>3. ASSUME NEW n \in S PROVE n + 1 \in S
    <3>0. n \in Nat
      BY <2>1
    <3>1. PICK f : Keeps(f, n)
      BY <2>1
    <3>2. PICK next : next = IF rows[n + 1].user = u THEN f[n] ELSE Append(f[n], rows[n + 1])
      OBVIOUS
    <3>3. PICK g : g = [i \in 0..(n + 1) |-> IF i = n + 1 THEN next ELSE f[i]]
      OBVIOUS
    <3>4. ASSUME NEW i \in 0..(n + 1)
          PROVE  g[i] = IF i = 0 THEN <<>> ELSE IF rows[i].user = u THEN g[i - 1] ELSE Append(g[i - 1], rows[i])
      <4>1. CASE i = n + 1
        <5>1. g[i] = next /\ i # 0 /\ g[i - 1] = f[n]
          BY <3>0, <3>3, <4>1
        <5>2. QED BY <3>2, <4>1, <5>1
      <4>2. CASE i # n + 1
        <5>1. i \in 0..n /\ g[i] = f[i] /\ (i # 0 => g[i - 1] = f[i - 1])
          BY <3>0, <3>3, <4>2
        <5>2. f[i] = IF i = 0 THEN <<>> ELSE IF rows[i].user = u THEN f[i - 1] ELSE Append(f[i - 1], rows[i])
          BY <3>1, <5>1
        <5>3. QED BY <5>1, <5>2
      <4>3. QED BY <4>1, <4>2
    <3>5. Keeps(g, n + 1)
      BY <3>3, <3>4
    <3>6. n + 1 \in Nat
      BY <3>0
    <3>7. QED BY <2>1, <3>5, <3>6, Zenon
  <2>4. S \in SUBSET Nat /\ \A n \in S : n + 1 \in S
    BY <2>1, <2>3
  <2>5. S = Nat
    BY <2>2, <2>4, Upward
  <2>6. QED BY <2>1, <2>5
<1>2. PICK f : f = CHOOSE g : Keeps(g, len)
  OBVIOUS
<1>3. Keeps(f, len)
  BY <1>1, <1>2, Zenon
<1>4. Others(rows, u) = f[len]
  BY <1>0, <1>2 DEF Others
<1> HIDE DEF Keeps
<1>5. /\ f[0] = <<>>
      /\ \A i \in 1..len : f[i] = IF rows[i].user = u THEN f[i - 1] ELSE Append(f[i - 1], rows[i])
  <2>1. \A i \in 0..len : f[i] = IF i = 0 THEN <<>> ELSE IF rows[i].user = u THEN f[i - 1] ELSE Append(f[i - 1], rows[i])
    BY <1>3 DEF Keeps
  <2>2. QED BY <1>0, <2>1
<1> DEFINE Kept(s, n) ==
             /\ s \in Seq(T)
             /\ \E m \in [DOMAIN s -> 1..n] :
                  /\ \A i, j \in DOMAIN s : m[i] = m[j] => i = j
                  /\ \A i \in DOMAIN s : s[i] = rows[m[i]] /\ rows[m[i]].user # u
<1>6. ASSUME NEW n \in Nat, n + 1 <= len, NEW s, Kept(s, n), NEW t,
             t = IF rows[n + 1].user = u THEN s ELSE Append(s, rows[n + 1])
      PROVE  Kept(t, n + 1)
  <2>1. PICK m \in [DOMAIN s -> 1..n] :
          /\ \A i, j \in DOMAIN s : m[i] = m[j] => i = j
          /\ \A i \in DOMAIN s : s[i] = rows[m[i]] /\ rows[m[i]].user # u
    BY <1>6
  <2>2. s \in Seq(T) /\ rows[n + 1] \in T
    BY <1>0, <1>6
  <2>3. CASE rows[n + 1].user = u
    <3>1. m \in [DOMAIN s -> 1..(n + 1)] /\ t = s
      BY <1>6, <2>3
    <3>2. QED BY <2>1, <2>2, <3>1
  <2>4. CASE rows[n + 1].user # u
    <3>1. t = Append(s, rows[n + 1])
      BY <1>6, <2>4
    <3>2. /\ t \in Seq(T) /\ DOMAIN t = 1..(Len(s) + 1) /\ DOMAIN s = 1..Len(s) /\ Len(s) \in Nat
          /\ t[Len(s) + 1] = rows[n + 1] /\ \A i \in DOMAIN s : t[i] = s[i]
      BY <2>2, <3>1
    <3>3. PICK k : k = [i \in DOMAIN t |-> IF i = Len(s) + 1 THEN n + 1 ELSE m[i]]
      OBVIOUS
    <3>4. \A i \in DOMAIN t : \/ i = Len(s) + 1 /\ k[i] = n + 1
                              \/ i \in DOMAIN s /\ k[i] = m[i] /\ k[i] \in 1..n
      BY <2>1, <3>2, <3>3
    <3>5. k \in [DOMAIN t -> 1..(n + 1)]
      BY <1>6, <3>3, <3>4
    <3>6. \A i, j \in DOMAIN t : k[i] = k[j] => i = j
      BY <1>6, <2>1, <3>4
    <3>7. \A i \in DOMAIN t : t[i] = rows[k[i]] /\ rows[k[i]].user # u
      BY <2>1, <2>4, <3>2, <3>4
    <3>8. QED BY <3>2, <3>5, <3>6, <3>7
  <2>5. QED BY <2>3, <2>4
<1>7. Kept(<<>>, 0)
  <2>1. PICK m : m = [i \in {} |-> i]
    OBVIOUS
  <2>2. DOMAIN <<>> = {} /\ <<>> \in Seq(T) /\ m \in [{} -> 1..0]
    BY <2>1
  <2>3. QED BY <2>2
<1> HIDE DEF Kept
<1>8. Kept(f[len], len)
  <2>1. PICK S : S = {n \in Nat : n <= len => Kept(f[n], n)}
    OBVIOUS
  <2>2. 0 \in S
    BY <1>5, <1>7, <2>1
  <2>3. ASSUME NEW n \in S PROVE n + 1 \in S
    <3>0. n \in Nat /\ n + 1 \in Nat
      BY <2>1
    <3>1. CASE n + 1 <= len
      <4>1. Kept(f[n], n) /\ n + 1 \in 1..len /\ (n + 1) - 1 = n
        BY <2>1, <3>0, <3>1
      <4>2. PICK s : s = f[n]
        OBVIOUS
      <4>3. f[n + 1] = IF rows[n + 1].user = u THEN s ELSE Append(s, rows[n + 1])
        BY <1>5, <4>1, <4>2
      <4>4. Kept(f[n + 1], n + 1)
        BY <1>6, <3>0, <3>1, <4>1, <4>2, <4>3
      <4>5. QED BY <2>1, <3>0, <4>4
    <3>2. CASE ~(n + 1 <= len)
      BY <2>1, <3>0, <3>2
    <3>3. QED BY <3>1, <3>2
  <2>4. S \in SUBSET Nat /\ \A n \in S : n + 1 \in S
    BY <2>1, <2>3
  <2>5. S = Nat
    BY <2>2, <2>4, Upward
  <2>6. QED BY <2>1, <2>5
<1>9. QED BY <1>0, <1>4, <1>8 DEF Kept, Selection

LEMMA SetDeleted ==
  ASSUME ServerInv, NEW r \in Requests, setDeleted(r)
  PROVE  ServerInv'
<1>0. /\ task[r].step = "hardDelete" /\ Finish(r) /\ supers' = supers
      /\ SetUser(Target(r), NoAccount)
      /\ session' = Others(session, Target(r)) /\ token' = Others(token, Target(r))
  BY DEF setDeleted, At
<1>1. PICK u \in Users : u = Target(r) /\ task[r] # Idle
  BY <1>0, AtWork
<1>2. OneStep(r, Idle)
  BY <1>0, <1>1, IdleTask, Steps DEF Finish
<1>3. /\ user \in [Users -> UserRow \cup {NoAccount}] /\ supers \subseteq Users
      /\ session \in Seq(SessionRow) /\ token \in Seq(TokenRow)
  BY DEF ServerInv, RowsTyped
<1>4. user' = [user EXCEPT ![u] = NoAccount]
  BY <1>0, <1>1 DEF SetUser
<1>5. /\ session' \in Seq(SessionRow) /\ Selection(session', session, u)
      /\ token' \in Seq(TokenRow) /\ Selection(token', token, u)
  BY <1>0, <1>1, <1>3, OthersAreKept
<1>6. RowsTyped'
  BY <1>0, <1>3, <1>4, <1>5 DEF RowsTyped
<1>7. \A v \in Users \ {u} : user'[v] = user[v]
  BY <1>3, <1>4
<1>8. LinksSound'
  <2>1. PICK m \in [DOMAIN token' -> DOMAIN token] :
          /\ \A i, j \in DOMAIN token' : m[i] = m[j] => i = j
          /\ \A i \in DOMAIN token' : token'[i] = token[m[i]] /\ token[m[i]].user # u
    BY <1>5 DEF Selection
  <2>2. ASSUME NEW i \in DOMAIN token' PROVE Exists(token[i].user)' /\ token'[i].accepted <= 1
    <3>1. m[i] \in DOMAIN token /\ token[m[i]].user \in Users \ {u}
      BY <2>1, Owned
    <3>2. Exists(token[m[i]].user) /\ token[m[i]].accepted <= 1
      BY <3>1 DEF ServerInv, LinksSound
    <3>3. user'[token[m[i]].user] = user[token[m[i]].user] /\ token'[i] = token[m[i]]
      BY <1>7, <2>1, <3>1
    <3>4. QED BY <3>2, <3>3 DEF Exists
  <2>3. ASSUME NEW v \in Users, NEW i \in OpenLinks(v)', NEW j \in OpenLinks(v)' PROVE i = j
    <3>1. i \in DOMAIN token' /\ j \in DOMAIN token'
      BY <2>3 DEF OpenLinks
    <3>2. m[i] \in OpenLinks(v) /\ m[j] \in OpenLinks(v)
      BY <2>1, <2>3, <3>1 DEF OpenLinks, Open
    <3>3. m[i] = m[j]
      BY <3>2 DEF ServerInv, LinksSound
    <3>4. QED BY <2>1, <3>1, <3>3
  <2>4. QED BY <2>2, <2>3 DEF LinksSound
<1>9. ASSUME NEW s \in DOMAIN session' PROVE Exists(session[s].user)' /\ OfToday(s)'
  <2>1. PICK m \in [DOMAIN session' -> DOMAIN session] :
          \A i \in DOMAIN session' : session'[i] = session[m[i]] /\ session[m[i]].user # u
    BY <1>5 DEF Selection
  <2>2. m[s] \in DOMAIN session /\ session'[s] = session[m[s]] /\ session[m[s]].user \in Users \ {u}
    BY <1>9, <2>1, Owned
  <2>3. \A q \in Requests : task[q].step # "revoke"
    BY <1>0, <1>2 DEF OneStep, Idle
  <2>4. Exists(session[m[s]].user) /\ OfToday(m[s])
    BY <2>2, <2>3 DEF ServerInv, SessionsSound, At
  <2>5. user'[session[m[s]].user] = user[session[m[s]].user]
    BY <1>7, <2>2
  <2>6. QED BY <2>2, <2>4, <2>5 DEF Exists, OfToday
<1>10. Sound(Idle)'
  BY DEF Sound, Idle
<1>11. QED BY <1>2, <1>6, <1>8, <1>9, <1>10, IdleTask, Assembled
-----------------------------------------------------------------------------
(* Registration and mailed links *)

LEMMA Registers ==
  ASSUME ServerInv, alone', NEW r \in Requests, register(r)
  PROVE  ServerInv'
<1>1. PICK u \in Users :
        /\ ~Exists(u) /\ SetUser(u, NewAccount("PENDING_VERIFICATION", {"INDIVIDUAL"}, FALSE))
        /\ Begin(r, [step |-> "verification", user |-> u])
  BY DEF register
<1>2. PICK w : w = [step |-> "verification", user |-> u]
  OBVIOUS
<1>3. PICK row : row = NewAccount("PENDING_VERIFICATION", {"INDIVIDUAL"}, FALSE)
  OBVIOUS
<1>4. row \in UserRow
  BY <1>3 DEF NewAccount, UserRow, UserStatus, Roles, IdentityRoles
<1>5. w \in ServerTask
  BY <1>2 DEF ServerTask, MailTask
<1>6. OneStep(r, w)
  BY <1>1, <1>2, <1>5, Steps
<1>7. task[r].step # "revoke"
  BY <1>1 DEF Begin, Idle
<1>8. session' = session /\ token' = token /\ supers' = supers /\ supers \subseteq Users
  BY DEF register, OnlyUser, ServerInv, RowsTyped
<1>9. LinksSound' /\ token' \in Seq(TokenRow)
  BY <1>1, <1>3, <1>4, <1>8, LinksStay
<1>10. Sound(w)'
  <2>1. user'[u] = row /\ row.status # "none"
    BY <1>1, <1>3, <1>4 DEF SetUser, ServerInv, RowsTyped, UserRow, UserStatus
  <2>2. \A i \in DOMAIN token : token[i].user # u
    BY <1>1 DEF ServerInv, LinksSound
  <2>3. OpenLinks(u)' = {}
    BY <1>8, <2>2 DEF OpenLinks
  <2>4. Exists(u)'
    BY <2>1 DEF Exists
  <2>5. w.step = "verification" /\ w.user = u
    BY <1>2
  <2>6. QED BY <2>3, <2>4, <2>5 DEF Sound
<1>11. QED BY <1>1, <1>3, <1>4, <1>5, <1>6, <1>7, <1>8, <1>9, <1>10, Writes

\* A step that only changes the mailed links.
LEMMA Mails ==
  ASSUME ServerInv, NEW r \in Requests, NEW w \in ServerTask, OneStep(r, w),
         UNCHANGED <<user, session, supers>>, token' \in Seq(TokenRow), LinksSound',
         task[r].step # "revoke", Sound(w)'
  PROVE  ServerInv'
<1>1. user' = user /\ session' = session /\ supers' = supers
  OBVIOUS
<1>2. RowsTyped'
  BY <1>1 DEF ServerInv, RowsTyped
<1>3. ASSUME NEW s \in DOMAIN session' PROVE Exists(session[s].user)' /\ OfToday(s)'
  <2>1. \A q \in Requests : task[q].step # "revoke"
    BY DEF OneStep, Idle
  <2>2. Exists(session[s].user) /\ OfToday(s)
    BY <1>1, <1>3, <2>1 DEF ServerInv, SessionsSound, At
  <2>3. QED BY <1>1, <2>2 DEF Exists, OfToday
<1>4. QED BY <1>2, <1>3, Assembled

LEMMA ResendVerification ==
  ASSUME ServerInv, alone', NEW r \in Requests, resendVerification(r)
  PROVE  ServerInv'
<1>1. PICK u \in Users : Pending(u) /\ Begin(r, [step |-> "reissue", user |-> u]) /\ UNCHANGED accountVars
  BY DEF resendVerification
<1>2. PICK w : w = [step |-> "reissue", user |-> u]
  OBVIOUS
<1>3. w \in ServerTask
  BY <1>2 DEF ServerTask, MailTask
<1>4. OneStep(r, w)
  BY <1>1, <1>2, <1>3, Steps
<1>5. task[r].step # "revoke"
  BY <1>1 DEF Begin, Idle
<1>6. Sound(w)
  BY <1>1, <1>2 DEF Sound, Pending
<1>7. QED BY <1>1, <1>3, <1>4, <1>5, <1>6, Reads

LEMMA Reissue ==
  ASSUME ServerInv, NEW r \in Requests, reissueVerification(r)
  PROVE  ServerInv'
<1>0. task[r].step = "reissue" /\ UNCHANGED <<user, session, supers>>
  BY DEF reissueVerification, At
<1>1. PICK u \in Users : u = Target(r) /\ Exists(u) /\ task[r] # Idle
  BY <1>0, AtWork
<1>2. PICK w : w = [task[r] EXCEPT !.step = "verification"]
  OBVIOUS
<1>3. w \in MailTask /\ w.step = "verification" /\ w.user = u
  BY <1>0, <1>1, <1>2, AtWork, Shape DEF MailTask, Target
<1>4. w \in ServerTask /\ Continue(r, w)
  BY <1>2, <1>3 DEF ServerTask, reissueVerification
<1>5. OneStep(r, w)
  BY <1>1, <1>4, Steps
<1>6. PICK f : f = [i \in DOMAIN token |->
        IF token[i].user = u /\ token[i].kind = "EMAIL_VERIFICATION" THEN [token[i] EXCEPT !.withdrawn = TRUE] ELSE token[i]]
  OBVIOUS
<1>7. token' = f /\ DOMAIN f = DOMAIN token
  BY <1>1, <1>6 DEF reissueVerification
<1>8. token \in Seq(TokenRow) /\ \A i \in DOMAIN token : token[i] \in TokenRow
  BY Owned DEF ServerInv, RowsTyped
<1>9. \A i \in DOMAIN token :
        /\ f[i] \in TokenRow /\ f[i].user = token[i].user /\ f[i].kind = token[i].kind
        /\ f[i].accepted = token[i].accepted /\ (token[i].withdrawn => f[i].withdrawn)
        /\ token[i].user = u /\ token[i].kind = "EMAIL_VERIFICATION" => f[i].withdrawn
  BY <1>6, <1>8 DEF TokenRow
<1>10. token' \in Seq(TokenRow)
  <2>1. f \in [1..Len(token) -> TokenRow] /\ Len(token) \in Nat
    BY <1>6, <1>8, <1>9
  <2>2. QED BY <1>7, <2>1
<1>11. \A v \in Users : OpenLinks(v)' \subseteq OpenLinks(v)
  BY <1>7, <1>9 DEF OpenLinks, Open
<1>12. LinksSound'
  BY <1>0, <1>7, <1>9, <1>11 DEF ServerInv, LinksSound, Exists
<1>13. OpenLinks(u)' = {}
  BY <1>7, <1>9 DEF OpenLinks, Open
<1>14. Sound(w)'
  BY <1>0, <1>1, <1>3, <1>13 DEF Sound, Exists
<1>15. QED BY <1>0, <1>4, <1>5, <1>10, <1>12, <1>14, Mails

\* A new link: it is the only open one of a verification.
LEMMA Mailed ==
  ASSUME ServerInv, NEW u \in Users, Exists(u), user' = user,
         NEW kind \in {"EMAIL_VERIFICATION", "PASSWORD_RESET"}, Mail(u, kind),
         kind = "EMAIL_VERIFICATION" => OpenLinks(u) = {}
  PROVE  token' \in Seq(TokenRow) /\ LinksSound'
<1>1. PICK t : t = [user |-> u, kind |-> kind, accepted |-> 0, withdrawn |-> FALSE]
  OBVIOUS
<1>2. token' = Append(token, t) /\ t \in TokenRow /\ token \in Seq(TokenRow)
  BY <1>1 DEF Mail, TokenRow, ServerInv, RowsTyped
<1>3. PICK n \in Nat : n = Len(token) /\ DOMAIN token = 1..n
  BY <1>2
<1>4. DOMAIN token' = 1..(n + 1) /\ token'[n + 1] = t /\ \A i \in 1..n : token'[i] = token[i]
  BY <1>2, <1>3
<1>5. \A i \in DOMAIN token' : (i \in DOMAIN token /\ token'[i] = token[i]) \/ (i = n + 1 /\ token'[i] = t)
  BY <1>3, <1>4
<1>6. \A i \in DOMAIN token' : Exists(token[i].user)' /\ token'[i].accepted <= 1
  BY <1>1, <1>5 DEF ServerInv, LinksSound, Exists
<1>7. ASSUME NEW v \in Users, NEW i \in OpenLinks(v)', NEW j \in OpenLinks(v)' PROVE i = j
  <2>1. /\ i \in OpenLinks(v) \/ (i = n + 1 /\ v = u /\ kind = "EMAIL_VERIFICATION")
        /\ j \in OpenLinks(v) \/ (j = n + 1 /\ v = u /\ kind = "EMAIL_VERIFICATION")
    BY <1>1, <1>5, <1>7 DEF OpenLinks, Open
  <2>2. \A x, y \in OpenLinks(v) : x = y
    BY DEF ServerInv, LinksSound
  <2>3. QED BY <2>1, <2>2
<1>8. QED BY <1>2, <1>6, <1>7 DEF LinksSound

LEMMA MailSteps ==
  ASSUME ServerInv, NEW r \in Requests,
         issueEmailVerification(r) \/ (requestPasswordReset(r) /\ alone')
  PROVE  ServerInv'
<1>0. Sound(Idle)' /\ UNCHANGED <<user, session, supers>>
  BY DEF Sound, Idle, issueEmailVerification, requestPasswordReset
<1>1. CASE issueEmailVerification(r)
  <2>1. task[r].step = "verification" /\ Mail(Target(r), "EMAIL_VERIFICATION") /\ Finish(r)
    BY <1>1 DEF issueEmailVerification, At
  <2>2. Exists(Target(r)) /\ Target(r) \in Users /\ task[r] # Idle /\ OpenLinks(Target(r)) = {}
    BY <2>1, AtWork DEF Sound, Target
  <2>3. PICK u \in Users : u = Target(r)
    BY <2>2
  <2>4. Exists(u) /\ Mail(u, "EMAIL_VERIFICATION") /\ OpenLinks(u) = {} /\ user' = user
    BY <1>0, <2>1, <2>2, <2>3
  <2>5. token' \in Seq(TokenRow) /\ LinksSound'
    BY <2>4, Mailed
  <2>6. OneStep(r, Idle)
    BY <2>1, <2>2, IdleTask, Steps DEF Finish
  <2>7. QED BY <1>0, <2>1, <2>5, <2>6, IdleTask, Mails
<1>2. CASE requestPasswordReset(r) /\ alone'
  <2>1. PICK u \in Users : Exists(u) /\ Mail(u, "PASSWORD_RESET")
    BY <1>2 DEF requestPasswordReset
  <2>2. token' \in Seq(TokenRow) /\ LinksSound'
    BY <1>0, <2>1, Mailed
  <2>3. AtOnce(r)
    BY <1>2 DEF requestPasswordReset
  <2>4. OneStep(r, Idle)
    BY <1>2, <2>3, IdleTask, Steps
  <2>5. task[r].step # "revoke"
    BY <2>3 DEF AtOnce, Idle
  <2>6. QED BY <1>0, <2>2, <2>4, <2>5, IdleTask, Mails
<1>3. QED BY <1>1, <1>2

\* A link that is accepted was open; its use is counted at the end.
LEMMA Accepts ==
  ASSUME ServerInv, alone', NEW r \in Requests, verifyEmail(r) \/ resetPassword(r)
  PROVE  ServerInv'
<1>1. PICK i \in DOMAIN token, step \in {"verify", "resetStatus"} :
        /\ Open(token[i]) /\ Begin(r, [step |-> step, token |-> i, user |-> token[i].user])
        /\ UNCHANGED accountVars
  BY DEF verifyEmail, resetPassword, Accept
<1>2. PICK w : w = [step |-> step, token |-> i, user |-> token[i].user]
  OBVIOUS
<1>3. i \in Nat /\ token[i].user \in Users
  BY Owned, Element DEF ServerInv, RowsTyped
<1>4. w \in ServerTask
  BY <1>2, <1>3 DEF ServerTask, LinkTask
<1>5. OneStep(r, w)
  BY <1>1, <1>2, <1>4, Steps
<1>6. task[r].step # "revoke"
  BY <1>1 DEF Begin, Idle
<1>7. Exists(token[i].user)
  BY DEF ServerInv, LinksSound
<1>8. Sound(w)
  BY <1>1, <1>2, <1>7 DEF Sound, Open
<1>9. QED BY <1>1, <1>4, <1>5, <1>6, <1>8, Reads

LEMMA ReadStatus ==
  ASSUME ServerInv, NEW r \in Requests, readStatus(r)
  PROVE  ServerInv'
<1>0. task[r].step = "resetStatus" /\ UNCHANGED accountVars
  BY DEF readStatus, At
<1>1. task[r] \in LinkTask /\ task[r] # Idle /\ Sound(task[r])
  BY <1>0, AtWork, Shape
<1>2. PICK w : w = [step |-> "reset", token |-> task[r].token, user |-> Target(r),
                    activate |-> user[Target(r)].status = "PENDING_VERIFICATION"]
  OBVIOUS
<1>3. w.activate \in BOOLEAN /\ w.activate = (user[Target(r)].status = "PENDING_VERIFICATION")
  BY <1>2, Zenon
<1>4. w \in ResetTask /\ w.step = "reset" /\ w.token = task[r].token /\ w.user = Target(r)
  <2>1. PICK a : a = (user[Target(r)].status = "PENDING_VERIFICATION")
    OBVIOUS
  <2>2. w = [step |-> "reset", token |-> task[r].token, user |-> Target(r), activate |-> a] /\ a \in BOOLEAN
    BY <1>2, <2>1, Zenon
  <2>3. QED BY <1>1, <2>2 DEF ResetTask, LinkTask, Target
<1>5. w \in ServerTask /\ Continue(r, w)
  BY <1>2, <1>4 DEF ServerTask, readStatus
<1>6. OneStep(r, w)
  BY <1>1, <1>5, Steps
<1>7. Sound(w)
  BY <1>0, <1>1, <1>3, <1>4 DEF Sound, Target
<1>8. task[r].step # "revoke"
  BY <1>0
<1>9. QED BY <1>0, <1>5, <1>6, <1>7, <1>8, Reads

\* The use of the link of this request is counted; it was open, so others
\* are as they were.
LEMMA Uses ==
  ASSUME ServerInv, NEW r \in Requests, task[r].step \in {"verify", "reset"}, Accepted(r),
         NEW row \in UserRow, SetUser(Target(r), row)
  PROVE  token' \in Seq(TokenRow) /\ LinksSound'
<1>0. PICK n : n = task[r].token /\ n \in DOMAIN token /\ token[n].accepted = 0
  BY AtWork DEF Sound
<1>1. token' = [token EXCEPT ![n] = [token[n] EXCEPT !.accepted = token[n].accepted + 1]]
  BY <1>0 DEF Accepted
<1>2. PICK t : t = [token[n] EXCEPT !.accepted = 1]
  OBVIOUS
<1>3. t \in TokenRow /\ t.accepted = 1 /\ t.user = token[n].user
  BY <1>0, <1>2, Owned DEF TokenRow
<1>4. token' = [token EXCEPT ![n] = t]
  BY <1>0, <1>1, <1>2
<1>5. token \in Seq(TokenRow)
  BY DEF ServerInv, RowsTyped
<1>6. /\ token' \in Seq(TokenRow) /\ DOMAIN token' = DOMAIN token
      /\ token'[n] = t /\ \A i \in DOMAIN token : i # n => token'[i] = token[i]
  BY <1>0, <1>3, <1>4, <1>5
<1>7. \A v \in Users : OpenLinks(v)' \subseteq OpenLinks(v)
  BY <1>3, <1>6 DEF OpenLinks, Open
<1>8. \A v \in Users : Exists(v) => Exists(v)'
  BY AtWork DEF ServerInv, RowsTyped, SetUser, Exists, UserRow, UserStatus
<1>9. \A i \in DOMAIN token' : Exists(token[i].user)' /\ token'[i].accepted <= 1
  <2>1. \A i \in DOMAIN token' : token'[i].user = token[i].user /\ token'[i].accepted <= 1
    BY <1>3, <1>6 DEF ServerInv, LinksSound
  <2>2. \A i \in DOMAIN token' : token[i].user \in Users /\ Exists(token[i].user)
    BY <1>6, Owned DEF ServerInv, LinksSound
  <2>3. QED BY <1>8, <2>1, <2>2 DEF Exists
<1>10. QED BY <1>6, <1>7, <1>9 DEF LinksSound, ServerInv

LEMMA SetVerified ==
  ASSUME ServerInv, NEW r \in Requests, setVerified(r)
  PROVE  ServerInv'
<1>0. task[r].step = "verify" /\ Accepted(r) /\ Finish(r) /\ UNCHANGED <<session, supers>>
  BY DEF setVerified, At
<1>1. PICK row : row = [user[Target(r)] EXCEPT !.verified = TRUE, !.status = "ACTIVE"]
  OBVIOUS
<1>2. SetUser(Target(r), row)
  BY <1>1 DEF setVerified
<1>3. PICK u \in Users : u = Target(r) /\ user[u] \in UserRow /\ task[r] # Idle
  BY <1>0, AtWork
<1>4. row \in UserRow /\ row.status = "ACTIVE" /\ row.password = user[u].password
  BY <1>1, <1>3 DEF UserRow, UserStatus
<1>5. token' \in Seq(TokenRow) /\ LinksSound'
  BY <1>0, <1>2, <1>4, Uses
<1>6. OneStep(r, Idle)
  BY <1>0, <1>3, IdleTask, Steps DEF Finish
<1>7. Sound(Idle)' /\ supers' \subseteq Users /\ session' = session /\ task[r].step # "revoke"
  BY <1>0 DEF Sound, Idle, ServerInv, RowsTyped
<1>8. SetUser(u, row)
  BY <1>2, <1>3
<1>9. QED BY <1>3, <1>4, <1>5, <1>6, <1>7, <1>8, IdleTask, Writes DEF Disabling

LEMMA SetReset ==
  ASSUME ServerInv, NEW r \in Requests, setReset(r)
  PROVE  ServerInv'
<1>0. task[r].step = "reset" /\ Accepted(r) /\ UNCHANGED <<session, supers>>
  BY DEF setReset, At
<1>1. PICK row : row = afterReset(user[Target(r)], task[r].activate)
  OBVIOUS
<1>2. SetUser(Target(r), row)
  BY <1>1 DEF setReset
<1>3. PICK u \in Users : u = Target(r) /\ user[u] \in UserRow /\ task[r] # Idle /\ task[r] \in ResetTask
  BY <1>0, AtWork, Shape
<1>4. row \in UserRow
  <2>1. PICK base \in UserRow : base = NewPassword(user[u])
    BY <1>3, Fields
  <2>2. row = [base EXCEPT !.verified = TRUE, !.status = IF task[r].activate THEN "ACTIVE" ELSE @]
    BY <1>1, <1>3, <2>1 DEF afterReset
  <2>3. QED BY <2>1, <2>2 DEF UserRow, UserStatus
<1>5. token' \in Seq(TokenRow) /\ LinksSound'
  BY <1>0, <1>2, <1>4, Uses
<1>6. PICK w : w = [task[r] EXCEPT !.step = "revoke"]
  OBVIOUS
<1>7. w \in ResetTask /\ w.step = "revoke" /\ w.user = u
  BY <1>3, <1>6 DEF ResetTask, Target
<1>8. w \in ServerTask /\ Continue(r, w)
  BY <1>6, <1>7 DEF ServerTask, setReset
<1>9. OneStep(r, w)
  BY <1>3, <1>8, Steps
<1>10. SetUser(u, row) /\ supers' \subseteq Users /\ session' = session /\ task[r].step # "revoke"
  BY <1>0, <1>2, <1>3 DEF ServerInv, RowsTyped
<1>11. Sound(w)'
  <2>1. user'[u] = row /\ row.status # "none"
    BY <1>4, <1>10 DEF SetUser, ServerInv, RowsTyped, UserRow, UserStatus
  <2>2. Exists(w.user)'
    BY <1>7, <2>1 DEF Exists
  <2>3. QED BY <1>7, <2>2 DEF Sound
<1>12. QED BY <1>4, <1>5, <1>7, <1>8, <1>9, <1>10, <1>11, Writes
-----------------------------------------------------------------------------
(* Signing in *)

LEMMA Login ==
  ASSUME ServerInv, alone', NEW r \in Requests, login(r)
  PROVE  ServerInv'
<1>1. PICK u \in Users, valid \in BOOLEAN :
        /\ Exists(u)
        /\ valid => user[u].status \notin Disabling
        /\ Begin(r, [step |-> IF valid THEN "cleared" ELSE "failed", user |-> u, seen |-> user[u]])
        /\ UNCHANGED accountVars
  BY DEF login
<1>2. PICK step \in {"cleared", "failed"} : step = IF valid THEN "cleared" ELSE "failed"
  OBVIOUS
<1>3. PICK w : w = [step |-> step, user |-> u, seen |-> user[u]]
  OBVIOUS
<1>4. Begin(r, w)
  BY <1>1, <1>2, <1>3
<1>5. user[u] \in UserRow
  BY <1>1 DEF ServerInv, RowsTyped, Exists, NoAccount
<1>6. w \in ServerTask
  BY <1>3, <1>5 DEF ServerTask, LoginTask
<1>7. OneStep(r, w)
  BY <1>4, <1>6, Steps
<1>8. task[r].step # "revoke"
  BY <1>4 DEF Begin, Idle
<1>9. Sound(w)
  BY <1>1, <1>2, <1>3 DEF Sound, SeenStill
<1>10. QED BY <1>1, <1>6, <1>7, <1>8, <1>9, Reads

LEMMA RecordFailure ==
  ASSUME ServerInv, NEW r \in Requests, recordFailure(r)
  PROVE  ServerInv'
<1>0. task[r].step = "failed" /\ Finish(r) /\ OnlyUser
  BY DEF recordFailure, At
<1>1. /\ Target(r) \in Users /\ user[Target(r)] \in UserRow /\ task[r].seen \in UserRow
  <2>1. task[r] \in LoginTask /\ Exists(Target(r))
    BY <1>0, AtWork, Shape
  <2>2. QED BY <1>0, <2>1, AtWork DEF LoginTask
<1>2. PICK n \in Nat : n = Seen(r).failed + 1
  BY <1>1 DEF Seen, UserRow
<1>3. PICK count \in Nat : count = Min({n, MaxFailures})
  <2>1. \E x \in {n, MaxFailures} : \A y \in {n, MaxFailures} : x <= y
    BY FailuresAssumption
  <2>2. Min({n, MaxFailures}) \in {n, MaxFailures}
    BY <2>1 DEF Min
  <2>3. QED BY <2>2, FailuresAssumption
<1>4. PICK l \in BOOLEAN : l = (count >= MaxFailures)
  <2>1. (count >= MaxFailures) \in BOOLEAN
    OBVIOUS
  <2>2. QED BY <2>1, Zenon
<1>5. PICK row : row = [user[Target(r)] EXCEPT !.failed = count, !.locked = l]
  OBVIOUS
<1>6. SetUser(Target(r), row)
  <2>1. SetUser(Target(r), [user[Target(r)] EXCEPT !.failed = count, !.locked = count >= MaxFailures])
    BY <1>2, <1>3, Zenon DEF recordFailure
  <2>2. QED BY <1>4, <1>5, <2>1, Zenon
<1>7. row \in UserRow /\ row.status = user[Target(r)].status /\ row.password = user[Target(r)].password
  BY <1>1, <1>5 DEF UserRow
<1>8. QED BY <1>0, <1>1, <1>6, <1>7, WritesLast

LEMMA ClearFailures ==
  ASSUME ServerInv, NEW r \in Requests, clearFailures(r)
  PROVE  ServerInv'
<1>0. task[r].step = "cleared" /\ OnlyUser
  BY DEF clearFailures, At
<1>1. task[r] \in LoginTask /\ Sound(task[r]) /\ task[r] # Idle
  BY <1>0, AtWork, Shape
<1>2. PICK u \in Users : u = Target(r) /\ user[u] \in UserRow /\ Exists(u)
  BY <1>0, AtWork
<1>3. PICK row : row = [user[u] EXCEPT !.failed = 0, !.locked = FALSE]
  OBVIOUS
<1>4. SetUser(u, row)
  BY <1>2, <1>3 DEF clearFailures
<1>5. /\ row \in UserRow /\ row.status = user[u].status /\ row.password = user[u].password
      /\ row.roles = user[u].roles
  BY <1>2, <1>3 DEF UserRow
<1>6. PICK w : w = [task[r] EXCEPT !.step = "issue"]
  OBVIOUS
<1>7. w \in LoginTask /\ w.step = "issue" /\ w.user = u /\ w.seen = task[r].seen
  BY <1>1, <1>2, <1>6 DEF LoginTask, Target
<1>8. w \in ServerTask /\ Continue(r, w)
  BY <1>6, <1>7 DEF ServerTask, clearFailures
<1>9. OneStep(r, w)
  BY <1>1, <1>8, Steps
<1>10. session' = session /\ token' = token /\ supers' = supers /\ supers \subseteq Users
  BY <1>0 DEF OnlyUser, ServerInv, RowsTyped
<1>11. LinksSound' /\ token' \in Seq(TokenRow)
  BY <1>4, <1>5, <1>10, LinksStay
<1>12. Sound(w)'
  <2>1. user'[u] = row
    BY <1>4 DEF SetUser, ServerInv, RowsTyped
  <2>2. /\ w.seen.status = user[u].status /\ w.seen.password = user[u].password
        /\ IsSuper(w.seen) <=> IsSuper(user[u])
        /\ user[u].status \notin Disabling
    BY <1>0, <1>1, <1>2, <1>7 DEF Sound, SeenStill, Target
  <2>3. SeenStill(w)' /\ Exists(w.user)' /\ user'[w.user].status \notin Disabling
    BY <1>2, <1>5, <1>7, <2>1, <2>2 DEF SeenStill, Exists, IsSuper
  <2>4. QED BY <1>7, <2>3 DEF Sound
<1>13. task[r].step # "revoke"
  BY <1>0
<1>14. QED BY <1>4, <1>5, <1>8, <1>9, <1>10, <1>11, <1>12, <1>13, Writes

\* A step that only changes sessions and tokens.
LEMMA Sessions ==
  ASSUME ServerInv, NEW r \in Requests, NEW w \in ServerTask, OneStep(r, w),
         user' = user, token' = token, supers' \subseteq Users, session' \in Seq(SessionRow),
         \A s \in DOMAIN session' : Exists(session'[s].user) /\ OfToday(s)',
         Sound(w)'
  PROVE  ServerInv'
<1>1. RowsTyped' /\ LinksSound'
  BY DEF ServerInv, RowsTyped, LinksSound, OpenLinks, Open, Exists
<1>2. \A s \in DOMAIN session' : Exists(session[s].user)'
  BY DEF Exists
<1>3. QED BY <1>1, <1>2, Assembled

LEMMA SignsForUsers ==
  ASSUME ServerInv, NEW u \in Users, NEW row, SignAccess(u, row)
  PROVE  supers' \subseteq Users
BY DEF SignAccess, ServerInv, RowsTyped

LEMMA Issue ==
  ASSUME ServerInv, NEW r \in Requests, issue(r)
  PROVE  ServerInv'
<1>0. task[r].step = "issue" /\ Finish(r) /\ user' = user /\ token' = token
  BY DEF issue, At
<1>1. task[r] \in LoginTask /\ Sound(task[r]) /\ task[r] # Idle
  BY <1>0, AtWork, Shape
<1>2. PICK u \in Users : u = Target(r) /\ user[u] \in UserRow /\ Exists(u)
  BY <1>0, AtWork
<1>3. PICK n \in Nat : n = user[u].password /\ n = Seen(r).password /\ user[u].status \notin Disabling
  BY <1>0, <1>1, <1>2 DEF UserRow, Seen, Target, Sound, SeenStill
<1>4. PICK s \in SessionRow : s = [user |-> u, password |-> n, rotated |-> 0, revoked |-> FALSE]
  BY DEF SessionRow
<1>5. session' = Append(session, s)
  BY <1>2, <1>3, <1>4 DEF issue
<1>6. session \in Seq(SessionRow)
  BY DEF ServerInv, RowsTyped
<1>7. OneStep(r, Idle)
  BY <1>0, <1>1, IdleTask, Steps DEF Finish
<1>8. /\ session' \in Seq(SessionRow)
      /\ \A i \in DOMAIN session' : (i \in DOMAIN session /\ session'[i] = session[i]) \/ session'[i] = s
  BY <1>5, <1>6
<1>9. \A q \in Requests : task[q].step # "revoke"
  BY <1>0, <1>7 DEF OneStep, Idle
<1>10. \A i \in DOMAIN session : Exists(session[i].user) /\ OfToday(i)
  BY <1>9 DEF ServerInv, SessionsSound, At
<1>11. ASSUME NEW i \in DOMAIN session' PROVE Exists(session'[i].user) /\ OfToday(i)'
  <2>1. CASE i \in DOMAIN session /\ session'[i] = session[i]
    BY <1>0, <1>10, <2>1 DEF OfToday
  <2>2. CASE session'[i] = s
    <3>1. session'[i].user = u /\ session'[i].password = n
      BY <1>4, <2>2
    <3>2. user'[u].status \notin Disabling /\ user'[u].password = n
      BY <1>0, <1>3
    <3>3. QED BY <1>2, <3>1, <3>2 DEF OfToday
  <2>3. QED BY <1>8, <1>11, <2>1, <2>2
<1>12. supers' \subseteq Users
  BY <1>2, SignsForUsers DEF issue
<1>13. Sound(Idle)'
  BY DEF Sound, Idle
<1>14. QED BY <1>0, <1>7, <1>8, <1>11, <1>12, <1>13, IdleTask, Sessions

LEMMA Refreshes ==
  ASSUME ServerInv, alone', NEW r \in Requests, refresh(r)
  PROVE  ServerInv'
<1>1. PICK s \in DOMAIN session, step \in {"rotate", "reuse"} :
        Begin(r, [step |-> step, session |-> s, user |-> session[s].user]) /\ UNCHANGED accountVars
  BY DEF refresh
<1>2. PICK w : w = [step |-> step, session |-> s, user |-> session[s].user]
  OBVIOUS
<1>3. s \in Nat /\ session[s].user \in Users
  BY Owned, Element DEF ServerInv, RowsTyped
<1>4. w \in ServerTask
  BY <1>2, <1>3 DEF ServerTask, SessionTask
<1>5. OneStep(r, w)
  BY <1>1, <1>2, <1>4, Steps
<1>6. task[r].step # "revoke"
  BY <1>1 DEF Begin, Idle
<1>7. Sound(w)
  BY <1>2 DEF Sound, ServerInv, SessionsSound
<1>8. QED BY <1>1, <1>4, <1>5, <1>6, <1>7, Reads

LEMMA SessionSteps ==
  ASSUME ServerInv, NEW r \in Requests, rotate(r) \/ revokeReused(r) \/ (logout(r) /\ alone')
  PROVE  ServerInv'
<1>1. PICK s \in DOMAIN session :
        \/ session' = [session EXCEPT ![s].rotated = session[s].rotated + 1]
        \/ session' = [session EXCEPT ![s].revoked = TRUE]
  BY DEF rotate, revokeReused, logout
<1>2. session \in Seq(SessionRow) /\ session[s] \in SessionRow
  BY Owned DEF ServerInv, RowsTyped
<1>3. PICK new \in SessionRow :
        /\ session' = [session EXCEPT ![s] = new]
        /\ new.user = session[s].user /\ new.password = session[s].password /\ (session[s].revoked => new.revoked)
  <2>1. PICK turned \in SessionRow, ended \in SessionRow :
          turned = [session[s] EXCEPT !.rotated = session[s].rotated + 1] /\ ended = [session[s] EXCEPT !.revoked = TRUE]
    <3>1. PICK row : row = session[s]
      OBVIOUS
    <3>2. row.rotated + 1 \in Nat
      BY <1>2, <3>1 DEF SessionRow
    <3>3. [row EXCEPT !.rotated = row.rotated + 1] \in SessionRow /\ [row EXCEPT !.revoked = TRUE] \in SessionRow
      BY <1>2, <3>1, <3>2 DEF SessionRow
    <3>4. QED BY <3>1, <3>3
  <2>2. /\ turned.user = session[s].user /\ turned.password = session[s].password /\ turned.revoked = session[s].revoked
        /\ ended.user = session[s].user /\ ended.password = session[s].password /\ ended.revoked
    BY <1>2, <2>1 DEF SessionRow
  <2>3. \/ session' = [session EXCEPT ![s] = turned]
        \/ session' = [session EXCEPT ![s] = ended]
    BY <1>1, <2>1
  <2>4. CASE session' = [session EXCEPT ![s] = turned]
    BY <2>2, <2>4
  <2>5. CASE session' = [session EXCEPT ![s] = ended]
    BY <2>2, <2>5
  <2>6. QED BY <2>3, <2>4, <2>5
<1>4. /\ session' \in Seq(SessionRow) /\ DOMAIN session' = DOMAIN session /\ session'[s] = new
      /\ \A i \in DOMAIN session : i # s => session'[i] = session[i]
  BY <1>2, <1>3
<1>5. user' = user /\ token' = token /\ supers' = supers /\ supers \subseteq Users
  BY DEF rotate, revokeReused, logout, ServerInv, RowsTyped
<1>6. \A q \in Requests : task[q].step # "revoke"
  <2>1. task[r].step # "revoke"
    BY DEF rotate, revokeReused, logout, At, AtOnce, Idle
  <2>3. ASSUME NEW q \in Requests, task[q].step = "revoke" PROVE FALSE
    <3>1. q # r /\ task[q] # Idle
      BY <2>1, <2>3 DEF Idle
    <3>2. task[r] = Idle
      BY <3>1 DEF ServerInv, Alone
    <3>3. logout(r) /\ alone'
      BY <3>2 DEF rotate, revokeReused, At, Idle
    <3>4. Quiet
      BY <3>3 DEF logout, AtOnce
    <3>5. QED BY <3>1, <3>4 DEF Quiet
  <2>4. QED BY <2>3
<1>7. \A i \in DOMAIN session : Exists(session[i].user) /\ OfToday(i)
  BY <1>6 DEF ServerInv, SessionsSound, At
<1>8. \A i \in DOMAIN session' : Exists(session'[i].user) /\ OfToday(i)'
  BY <1>3, <1>4, <1>5, <1>7 DEF OfToday
<1>9. CASE rotate(r)
  <2>1. task[r].step = "rotate"
    BY <1>9 DEF rotate, At
  <2>2. task[r] \in SessionTask /\ task[r] # Idle /\ Exists(task[r].user)
    BY <2>1, AtWork, Shape DEF Target
  <2>3. PICK w : w = [task[r] EXCEPT !.step = "access"]
    OBVIOUS
  <2>4. w \in SessionTask /\ w.step = "access" /\ w.user = task[r].user
    BY <2>2, <2>3 DEF SessionTask
  <2>5. w \in ServerTask /\ Continue(r, w)
    BY <1>9, <2>3, <2>4 DEF ServerTask, rotate
  <2>6. OneStep(r, w)
    BY <2>2, <2>5, Steps
  <2>7. Sound(w)'
    BY <1>5, <2>2, <2>4 DEF Sound, Exists
  <2>8. QED BY <1>4, <1>5, <1>8, <2>5, <2>6, <2>7, Sessions
<1>10. CASE revokeReused(r) \/ (logout(r) /\ alone')
  <2>1. revokeReused(r) => task[r] # Idle /\ Finish(r)
    BY DEF revokeReused, At, Idle
  <2>2. OneStep(r, Idle)
    BY <1>10, <2>1, IdleTask, Steps DEF Finish, logout
  <2>3. Sound(Idle)'
    BY DEF Sound, Idle
  <2>4. QED BY <1>4, <1>5, <1>8, <2>2, <2>3, IdleTask, Sessions
<1>11. QED BY <1>9, <1>10

LEMMA RefreshAccess ==
  ASSUME ServerInv, NEW r \in Requests, refreshAccess(r)
  PROVE  ServerInv'
<1>0. task[r].step = "access" /\ Finish(r) /\ user' = user /\ session' = session /\ token' = token
  BY DEF refreshAccess, At
<1>1. task[r] # Idle /\ Target(r) \in Users
  BY <1>0, AtWork
<1>2. OneStep(r, Idle)
  BY <1>0, <1>1, IdleTask, Steps DEF Finish
<1>3. supers' \subseteq Users
  BY <1>1, SignsForUsers DEF refreshAccess, ServerInv, RowsTyped
<1>4. \A q \in Requests : task[q].step # "revoke"
  BY <1>0, <1>2 DEF OneStep, Idle
<1>5. \A i \in DOMAIN session : Exists(session[i].user) /\ OfToday(i)
  BY <1>4 DEF ServerInv, SessionsSound, At
<1>6. Sound(Idle)' /\ session' \in Seq(SessionRow)
  BY <1>0 DEF Sound, Idle, ServerInv, RowsTyped
<1>7. \A i \in DOMAIN session' : Exists(session'[i].user) /\ OfToday(i)'
  BY <1>0, <1>5 DEF OfToday
<1>8. QED BY <1>0, <1>2, <1>3, <1>6, <1>7, IdleTask, Sessions

LEMMA BeginsDemo ==
  ASSUME ServerInv, alone', NEW r \in Requests, bootstrap(r)
  PROVE  ServerInv'
<1>1. PICK u \in Users : Begin(r, [step |-> "bootstrap", user |-> u, found |-> Exists(u)]) /\ UNCHANGED accountVars
  BY DEF bootstrap
<1>2. PICK found \in BOOLEAN : found = Exists(u)
  BY DEF Exists
<1>3. PICK w : w = [step |-> "bootstrap", user |-> u, found |-> found]
  OBVIOUS
<1>4. Begin(r, w)
  BY <1>1, <1>2, <1>3, Zenon
<1>5. w \in ServerTask
  BY <1>3 DEF ServerTask, DemoTask
<1>6. OneStep(r, w)
  BY <1>4, <1>5, Steps
<1>7. task[r].step # "revoke"
  BY <1>4 DEF Begin, Idle
<1>8. Sound(w)
  BY <1>3 DEF Sound
<1>9. QED BY <1>1, <1>5, <1>6, <1>7, <1>8, Reads
-----------------------------------------------------------------------------
(* Every step keeps the invariant *)

\* A lock ends; nothing the invariant depends on changes.
LEMMA Expires ==
  ASSUME ServerInv, expire
  PROVE  ServerInv'
<1>0. /\ user \in [Users -> UserRow \cup {NoAccount}] /\ supers \subseteq Users
      /\ session \in Seq(SessionRow) /\ token \in Seq(TokenRow)
  BY DEF ServerInv, RowsTyped
<1>1. task' = task /\ session' = session /\ token' = token /\ supers' \subseteq Users
  BY <1>0 DEF expire, OnlyUser
<1>2. user' = user \/ \E u \in Users : Exists(u) /\ user' = [user EXCEPT ![u] = [user[u] EXCEPT !.locked = FALSE]]
  BY DEF expire, SetUser
<1>3. /\ user' \in [Users -> UserRow \cup {NoAccount}]
      /\ \A v \in Users : user'[v].status = user[v].status
      /\ \A v \in Users : Exists(v) =>
           user'[v].password = user[v].password /\ user'[v].roles = user[v].roles /\ user'[v].deleted = user[v].deleted
  <2>1. CASE user' = user
    BY <1>0, <2>1
  <2>2. CASE user' # user
    <3>1. PICK u \in Users : Exists(u) /\ user' = [user EXCEPT ![u] = [user[u] EXCEPT !.locked = FALSE]]
      BY <1>2, <2>2
    <3>2. PICK row \in UserRow : row = user[u]
      BY <1>0, <3>1 DEF Exists, NoAccount
    <3>3. PICK open \in UserRow : open = [row EXCEPT !.locked = FALSE]
      BY <3>2 DEF UserRow
    <3>4. open.status = row.status /\ open.password = row.password /\ open.roles = row.roles /\ open.deleted = row.deleted
      BY <3>2, <3>3 DEF UserRow
    <3>5. user' = [user EXCEPT ![u] = open]
      BY <3>1, <3>2, <3>3
    <3>6. QED BY <1>0, <3>2, <3>4, <3>5
  <2>3. QED BY <2>1, <2>2
<1>4. RowsTyped'
  BY <1>0, <1>1, <1>3 DEF RowsTyped
<1>5. LinksSound'
  <2>1. \A v \in Users : OpenLinks(v)' = OpenLinks(v)
    BY <1>1 DEF OpenLinks, Open
  <2>2. \A i \in DOMAIN token : token[i].user \in Users
    BY Owned
  <2>3. QED BY <1>1, <1>3, <2>1, <2>2 DEF ServerInv, LinksSound, Exists
<1>6. SessionsSound'
  <2> SUFFICES ASSUME NEW s \in DOMAIN session
               PROVE  /\ Exists(session[s].user)'
                      /\ OfToday(s)' \/ \E r \in Requests : task'[r].step = "revoke" /\ task'[r].user = session'[s].user
    BY <1>1 DEF SessionsSound, At, Target
  <2>1. /\ Exists(session[s].user) /\ session[s].user \in Users
        /\ OfToday(s) \/ \E r \in Requests : task[r].step = "revoke" /\ task[r].user = session[s].user
    BY Owned DEF ServerInv, SessionsSound, At, Target
  <2>2. OfToday(s) => OfToday(s)'
    BY <1>1, <1>3, <2>1 DEF OfToday
  <2>3. QED BY <1>1, <1>3, <2>1, <2>2 DEF Exists
<1>7. SuperAdmins' = SuperAdmins
  BY <1>3 DEF SuperAdmins, Exists, IsSuper
<1>8. ASSUME NEW r \in Requests PROVE Sound(task[r])'
  <2>1. CASE task[r] = Idle
    BY <1>1, <2>1 DEF Sound, Idle
  <2>2. CASE task[r] # Idle
    <3>1. PICK w \in ServerTask : w = task[r]
      BY DEF ServerInv
    <3>2. Sound(w) /\ w.user \in Users /\ task'[r] = w
      BY <1>1, <2>2, <3>1, Shape DEF ServerInv
    <3>3. OpenLinks(w.user)' = OpenLinks(w.user)
      BY <1>1 DEF OpenLinks, Open
    <3>4. SeenStill(w) /\ Exists(w.user) => SeenStill(w)'
      BY <1>3, <3>2 DEF SeenStill, IsSuper
    <3>5. Spared(w.user) /\ Exists(w.user) => Spared(w.user)'
      BY <1>3, <1>7, <3>2 DEF Spared, IsSuper
    <3>6. Exists(w.user)' <=> Exists(w.user)
      BY <1>3, <3>2 DEF Exists
    <3>7. user'[w.user].status = user[w.user].status
      BY <1>3, <3>2
    <3>8. Sound(w)'
      BY <1>1, <3>2, <3>3, <3>4, <3>5, <3>6, <3>7 DEF Sound
    <3>9. QED BY <3>2, <3>8 DEF Sound, SeenStill
  <2>3. QED BY <2>1, <2>2
<1>9. QED BY <1>1, <1>4, <1>5, <1>6, <1>8 DEF ServerInv, Alone

LEMMA StaysAlone ==
  ASSUME alone', [AccountsNext]_ServerVars
  PROVE  alone
<1>1. CASE UNCHANGED ServerVars
  BY <1>1 DEF ServerVars
<1>2. CASE expire
  BY <1>2 DEF expire, OnlyUser
<1>3. ASSUME NEW r \in Requests, Administer(r) PROVE alone
  BY <1>3 DEF Administer, create, update, countForUpdate, setUpdated, setRoles, countForRoles, setIdentityType,
     replaceRoles, archive, countForArchive, setArchived, restore, setRestored, hardDelete, setDeleted, bootstrap,
     setDemo, adminResetPassword, setPassword, Manage, assertNotLastSuperAdmin, Begin, AtOnce, Finish, Continue
<1>4. ASSUME NEW r \in Requests, Register(r) PROVE alone
  BY <1>4 DEF Register, register, resendVerification, reissueVerification, issueEmailVerification, verifyEmail,
     setVerified, requestPasswordReset, resetPassword, readStatus, setReset, Accept, Begin, AtOnce, Finish, Continue
<1>5. ASSUME NEW r \in Requests, SignIn(r) PROVE alone
  BY <1>5 DEF SignIn, login, recordFailure, clearFailures, issue, refresh, rotate, revokeReused, refreshAccess,
     logout, revokeAllForUser, Begin, AtOnce, Finish, Continue
<1>6. QED BY <1>1, <1>2, <1>3, <1>4, <1>5 DEF AccountsNext

LEMMA ServerStep ==
  ASSUME ServerInv, alone', [AccountsNext]_ServerVars
  PROVE  ServerInv'
<1>1. CASE UNCHANGED ServerVars
  <2>1. task' = task /\ user' = user /\ session' = session /\ token' = token /\ supers' = supers
    BY <1>1 DEF ServerVars, accountVars
  <2>2. RowsTyped' /\ SessionsSound' /\ LinksSound' /\ Alone'
    BY <2>1 DEF ServerInv, RowsTyped, SessionsSound, LinksSound, Alone, OfToday, OpenLinks, Open, Exists, At, Target
  <2>3. \A r \in Requests : Sound(task[r])'
    BY <2>1 DEF ServerInv, Sound, SeenStill, Spared, SuperAdmins, IsSuper, OpenLinks, Open, Exists
  <2>4. QED BY <2>1, <2>2, <2>3 DEF ServerInv
<1>2. CASE expire
  BY <1>2, Expires
<1>3. ASSUME NEW r \in Requests, Administer(r) PROVE ServerInv'
  <2>1. CASE update(r) \/ setRoles(r) \/ setIdentityType(r) \/ adminResetPassword(r) \/ archive(r) \/ restore(r) \/ hardDelete(r)
    BY <2>1, ManagedSteps
  <2>2. CASE countForUpdate(r) \/ countForRoles(r) \/ countForArchive(r)
    BY <2>2, Counts
  <2>3. CASE create(r) \/ setUpdated(r) \/ setDeleted(r) \/ bootstrap(r)
    BY <2>3, Create, SetUpdated, SetDeleted, BeginsDemo
  <2>4. CASE replaceRoles(r) \/ setRestored(r) \/ setDemo(r)
    BY <2>4, RowSteps
  <2>5. CASE setArchived(r) \/ setPassword(r)
    BY <2>5, RevokingSteps
  <2>6. QED BY <1>3, <2>1, <2>2, <2>3, <2>4, <2>5 DEF Administer
<1>4. ASSUME NEW r \in Requests, Register(r) PROVE ServerInv'
  <2>1. CASE register(r) \/ resendVerification(r) \/ reissueVerification(r)
    BY <2>1, Registers, ResendVerification, Reissue
  <2>2. CASE issueEmailVerification(r) \/ requestPasswordReset(r)
    BY <2>2, MailSteps
  <2>3. CASE verifyEmail(r) \/ resetPassword(r) \/ readStatus(r)
    BY <2>3, Accepts, ReadStatus
  <2>4. CASE setVerified(r) \/ setReset(r)
    BY <2>4, SetVerified, SetReset
  <2>5. QED BY <1>4, <2>1, <2>2, <2>3, <2>4 DEF Register
<1>5. ASSUME NEW r \in Requests, SignIn(r) PROVE ServerInv'
  <2>1. CASE login(r) \/ recordFailure(r) \/ clearFailures(r) \/ issue(r)
    BY <2>1, Login, RecordFailure, ClearFailures, Issue
  <2>2. CASE refresh(r) \/ refreshAccess(r)
    BY <2>2, Refreshes, RefreshAccess
  <2>3. CASE rotate(r) \/ revokeReused(r) \/ logout(r)
    BY <2>3, SessionSteps
  <2>4. CASE revokeAllForUser(r)
    BY <2>4, RevokingSteps
  <2>5. QED BY <1>5, <2>1, <2>2, <2>3, <2>4 DEF SignIn
<1>6. QED BY <1>1, <1>2, <1>3, <1>4, <1>5 DEF AccountsNext

LEMMA ServerInit ==
  ASSUME HandlersInit, AccountsInit(root)
  PROVE  Inv
<1>1. \A u \in Users : user[u] \in UserRow \cup {NoAccount}
  BY DEF AccountsInit, NewAccount, UserRow, UserStatus, Roles
<1>2. user \in [Users -> UserRow \cup {NoAccount}] /\ session \in Seq(SessionRow) /\ token \in Seq(TokenRow)
  <2>1. PICK row : row = [u \in Users |-> user[u]]
    OBVIOUS
  <2>2. user = row
    BY <2>1 DEF AccountsInit
  <2>3. row \in [Users -> UserRow \cup {NoAccount}]
    BY <1>1, <2>1
  <2>4. session = <<>> /\ token = <<>>
    BY DEF AccountsInit
  <2>5. QED BY <2>2, <2>3, <2>4
<1>3. supers \subseteq Users
  BY RootAssumption DEF AccountsInit
<1>4. task = [r \in Requests |-> Idle]
  BY DEF HandlersInit
<1>5. Alone /\ task \in [Requests -> ServerTask] /\ \A r \in Requests : Sound(task[r])
  BY <1>4, IdleTask DEF Alone, Sound, Idle
<1>6. DOMAIN session = {} /\ DOMAIN token = {}
  BY DEF AccountsInit
<1>7. SessionsSound /\ LinksSound
  BY <1>6 DEF SessionsSound, LinksSound, OpenLinks
<1>8. QED BY <1>2, <1>3, <1>5, <1>7 DEF Inv, ServerInv, RowsTyped

LEMMA ServerInvariance == ServerSpec => []Inv
<1>1. HandlersInit /\ AccountsInit(root) => Inv
  BY ServerInit
<1>2. Inv /\ [AccountsNext]_ServerVars => Inv'
  BY ServerStep, StaysAlone DEF Inv, Serial
<1>3. QED BY <1>1, <1>2, PTL DEF ServerSpec
-----------------------------------------------------------------------------
(* Theorems about the accounts *)

\* Who writes a user row, and what becomes of its status and its roles.
KeepsAdmin(u) ==
  /\ Exists(u)'
  /\ IsSuper(user[u]) /\ ~user[u].deleted => IsSuper(user'[u]) /\ ~user'[u].deleted
Written(u) ==
  \/ ~Exists(u)
  \/ user'[u].status = user[u].status /\ KeepsAdmin(u)
  \/ \E r \in Requests : task[r].step \in {"update", "restore", "bootstrap", "verify"} /\ KeepsAdmin(u)
  \/ user[u].status = "PENDING_VERIFICATION" /\ KeepsAdmin(u)
  \/ user'[u].status \in {user[u].status, "DEACTIVATED"} /\ Spared(u)
  \/ user'[u].status = "none" /\ \E r \in Requests : At(r, "hardDelete") /\ task[r].actor # u

LEMMA RowWritten ==
  ASSUME ServerInv, NEW u \in Users, NEW row, SetUser(u, row),
         \/ ~Exists(u)
         \/ /\ row.status # "none" /\ (IsSuper(user[u]) /\ ~user[u].deleted => IsSuper(row) /\ ~row.deleted)
            /\ \/ row.status = user[u].status
               \/ \E r \in Requests : task[r].step \in {"update", "restore", "bootstrap", "verify"}
               \/ user[u].status = "PENDING_VERIFICATION"
         \/ row.status \in {user[u].status, "DEACTIVATED"} /\ Spared(u)
         \/ row.status = "none" /\ \E r \in Requests : At(r, "hardDelete") /\ task[r].actor # u
  PROVE  \E v \in Users : Written(v) /\ \A w \in Users \ {v} : user'[w] = user[w]
<1>1. user'[u] = row /\ \A w \in Users \ {u} : user'[w] = user[w]
  BY DEF SetUser, ServerInv, RowsTyped
<1>2. row.status # "none" => Exists(u)'
  BY <1>1 DEF Exists
<1>3. Written(u)
  BY <1>1, <1>2 DEF Written, KeepsAdmin
<1>4. QED BY <1>1, <1>3

LEMMA UserWritten ==
  ASSUME ServerInv, AccountsNext
  PROVE  user' = user \/ \E v \in Users : Written(v) /\ \A w \in Users \ {v} : user'[w] = user[w]
<1> DEFINE Claim == user' = user \/ \E v \in Users : Written(v) /\ \A w \in Users \ {v} : user'[w] = user[w]
<1>1. CASE expire
  <2>1. user' = user \/ \E u \in Users : Exists(u) /\ SetUser(u, [user[u] EXCEPT !.locked = FALSE])
    BY <1>1 DEF expire
  <2>2. ASSUME NEW u \in Users, Exists(u), SetUser(u, [user[u] EXCEPT !.locked = FALSE]) PROVE Claim
    <3>1. user[u] \in UserRow
      BY <2>2 DEF ServerInv, RowsTyped, Exists, NoAccount
    <3>2. PICK row : row = [user[u] EXCEPT !.locked = FALSE]
      OBVIOUS
    <3>3. row.status = user[u].status /\ row.roles = user[u].roles /\ row.deleted = user[u].deleted
      BY <3>1, <3>2 DEF UserRow
    <3>4. QED BY <2>2, <3>2, <3>3, RowWritten DEF Exists, IsSuper
  <2>3. QED BY <2>1, <2>2
<1>2. ASSUME NEW r \in Requests, Administer(r) PROVE Claim
  <2>1. CASE create(r)
    BY <2>1, RowWritten DEF create
  <2>2. CASE setUpdated(r)
    <3>1. task[r].step = "update"
      BY <2>2 DEF setUpdated, At
    <3>2. Target(r) \in Users /\ user[Target(r)] \in UserRow /\ task[r].args \in Changes /\ Exists(Target(r))
      BY <3>1, AtWork, Shape DEF UpdateTask
    <3>3. PICK row : row = [user[Target(r)] EXCEPT
            !.status = IF task[r].args.status = Keep THEN @ ELSE task[r].args.status,
            !.verified = IF task[r].args.verified = Keep THEN @ ELSE task[r].args.verified = "yes"]
      OBVIOUS
    <3>4. SetUser(Target(r), row)
      BY <2>2, <3>3 DEF setUpdated
    <3>5. /\ row.status = IF task[r].args.status = Keep THEN user[Target(r)].status ELSE task[r].args.status
          /\ row.roles = user[Target(r)].roles /\ row.deleted = user[Target(r)].deleted
      BY <3>2, <3>3 DEF UserRow
    <3>6. row.status # "none"
      BY <3>2, <3>5 DEF UserRow, UserStatus, Changes
    <3>7. QED BY <3>1, <3>2, <3>4, <3>5, <3>6, RowWritten DEF IsSuper
  <2>3. CASE replaceRoles(r)
    <3>1. task[r].step = "roles"
      BY <2>3 DEF replaceRoles, At
    <3>2. Target(r) \in Users /\ user[Target(r)] \in UserRow /\ Sound(task[r]) /\ Exists(Target(r))
      BY <3>1, AtWork
    <3>3. PICK row : row = [user[Target(r)] EXCEPT !.roles = task[r].args]
      OBVIOUS
    <3>4. SetUser(Target(r), row)
      BY <2>3, <3>3 DEF replaceRoles
    <3>5. row.status = user[Target(r)].status /\ row.roles = task[r].args /\ row.deleted = user[Target(r)].deleted
      BY <3>2, <3>3 DEF UserRow
    <3>6. CASE "SUPER_ADMIN" \in task[r].args
      BY <3>2, <3>4, <3>5, <3>6, RowWritten DEF IsSuper, Exists
    <3>7. CASE "SUPER_ADMIN" \notin task[r].args
      <4>1. Spared(Target(r))
        BY <3>1, <3>2, <3>7 DEF Sound, Target
      <4>2. QED BY <3>2, <3>4, <3>5, <4>1, RowWritten
    <3>8. QED BY <3>6, <3>7
  <2>4. CASE setRestored(r)
    <3>1. task[r].step = "restore"
      BY <2>4 DEF setRestored, At
    <3>2. Target(r) \in Users /\ user[Target(r)] \in UserRow
      BY <3>1, AtWork
    <3>3. PICK row : row = [user[Target(r)] EXCEPT !.status = "ACTIVE", !.deleted = FALSE]
      OBVIOUS
    <3>4. row.status = "ACTIVE" /\ row.roles = user[Target(r)].roles /\ ~row.deleted
      BY <3>2, <3>3 DEF UserRow
    <3>5. QED BY <2>4, <3>1, <3>2, <3>3, <3>4, RowWritten DEF setRestored, IsSuper
  <2>5. CASE setDemo(r)
    <3>1. task[r].step = "bootstrap"
      BY <2>5 DEF setDemo, At
    <3>2. Target(r) \in Users /\ (Exists(Target(r)) => user[Target(r)] \in UserRow)
      BY <3>1, AtWork
    <3>3. CASE Exists(Target(r))
      <4>1. PICK row : row =
              [user[Target(r)] EXCEPT !.status = "ACTIVE", !.deleted = FALSE, !.verified = TRUE, !.failed = 0,
                                      !.locked = FALSE, !.password = 0, !.roles = @ \cup {"SUPER_ADMIN"}]
        OBVIOUS
      <4>2. row.status = "ACTIVE" /\ "SUPER_ADMIN" \in row.roles /\ ~row.deleted
        BY <3>2, <3>3, <4>1 DEF UserRow
      <4>3. SetUser(Target(r), row)
        BY <2>5, <3>3, <4>1 DEF setDemo
      <4>4. QED BY <3>1, <3>2, <4>2, <4>3, RowWritten DEF IsSuper
    <3>4. CASE ~Exists(Target(r))
      BY <2>5, <3>2, <3>4, RowWritten DEF setDemo
    <3>5. QED BY <3>3, <3>4
  <2>6. CASE setPassword(r)
    <3>1. task[r].step = "password"
      BY <2>6 DEF setPassword, At
    <3>2. Target(r) \in Users /\ user[Target(r)] \in UserRow /\ Exists(Target(r))
      BY <3>1, AtWork
    <3>3. PICK row : row = NewPassword(user[Target(r)])
      OBVIOUS
    <3>4. row.status = user[Target(r)].status /\ row.roles = user[Target(r)].roles /\ row.deleted = user[Target(r)].deleted
      BY <3>2, <3>3 DEF UserRow, NewPassword
    <3>5. QED BY <2>6, <3>2, <3>3, <3>4, RowWritten DEF setPassword, IsSuper, Exists
  <2>7. CASE setArchived(r)
    <3>1. task[r].step = "archive"
      BY <2>7 DEF setArchived, At
    <3>2. Target(r) \in Users /\ user[Target(r)] \in UserRow /\ Spared(Target(r))
      BY <3>1, AtWork DEF Sound, Target
    <3>3. PICK row : row = [user[Target(r)] EXCEPT !.status = "DEACTIVATED", !.deleted = TRUE]
      OBVIOUS
    <3>4. row.status = "DEACTIVATED"
      BY <3>2, <3>3 DEF UserRow
    <3>5. QED BY <2>7, <3>2, <3>3, <3>4, RowWritten DEF setArchived
  <2>8. CASE setDeleted(r)
    <3>1. task[r].step = "hardDelete"
      BY <2>8 DEF setDeleted, At
    <3>2. Target(r) \in Users /\ task[r].actor # Target(r)
      BY <3>1, AtWork DEF Sound, Target
    <3>3. QED BY <2>8, <3>1, <3>2, RowWritten DEF setDeleted, NoAccount, At
  <2>9. CASE update(r) \/ setRoles(r) \/ setIdentityType(r) \/ adminResetPassword(r) \/ archive(r) \/ restore(r)
             \/ hardDelete(r) \/ bootstrap(r) \/ countForUpdate(r) \/ countForRoles(r) \/ countForArchive(r)
    <3>1. UNCHANGED accountVars
      BY <2>9 DEF update, setRoles, setIdentityType, adminResetPassword, archive, restore, hardDelete, bootstrap,
         countForUpdate, countForRoles, countForArchive, Manage, assertNotLastSuperAdmin
    <3>2. QED BY <3>1 DEF accountVars
  <2>10. QED BY <1>2, <2>1, <2>2, <2>3, <2>4, <2>5, <2>6, <2>7, <2>8, <2>9 DEF Administer
<1>3. ASSUME NEW r \in Requests, Register(r) PROVE Claim
  <2>1. CASE register(r)
    BY <2>1, RowWritten DEF register
  <2>2. CASE setVerified(r)
    <3>1. task[r].step = "verify"
      BY <2>2 DEF setVerified, At
    <3>2. Target(r) \in Users /\ user[Target(r)] \in UserRow
      BY <3>1, AtWork
    <3>3. PICK row : row = [user[Target(r)] EXCEPT !.verified = TRUE, !.status = "ACTIVE"]
      OBVIOUS
    <3>4. row.status = "ACTIVE" /\ row.roles = user[Target(r)].roles /\ row.deleted = user[Target(r)].deleted
      BY <3>2, <3>3 DEF UserRow
    <3>5. QED BY <2>2, <3>1, <3>2, <3>3, <3>4, RowWritten DEF setVerified, IsSuper
  <2>3. CASE setReset(r)
    <3>1. task[r].step = "reset"
      BY <2>3 DEF setReset, At
    <3>2. Target(r) \in Users /\ user[Target(r)] \in UserRow /\ Exists(Target(r)) /\ Sound(task[r])
      BY <3>1, AtWork
    <3>3. PICK row : row = afterReset(user[Target(r)], task[r].activate)
      OBVIOUS
    <3>4. PICK base : base = NewPassword(user[Target(r)])
      OBVIOUS
    <3>5. /\ base \in UserRow
          /\ base.status = user[Target(r)].status /\ base.roles = user[Target(r)].roles /\ base.deleted = user[Target(r)].deleted
      BY <3>2, <3>4, Fields DEF UserRow, NewPassword
    <3>6. row = [base EXCEPT !.verified = TRUE, !.status = IF task[r].activate THEN "ACTIVE" ELSE base.status]
      BY <3>3, <3>4 DEF afterReset
    <3>7. /\ row.status = IF task[r].activate THEN "ACTIVE" ELSE user[Target(r)].status
          /\ row.roles = user[Target(r)].roles /\ row.deleted = user[Target(r)].deleted
      BY <3>5, <3>6 DEF UserRow
    <3>8. task[r].activate => user[Target(r)].status = "PENDING_VERIFICATION"
      BY <3>1, <3>2 DEF Sound, Target
    <3>9. SetUser(Target(r), row)
      BY <2>3, <3>3 DEF setReset
    <3>10. QED BY <3>2, <3>7, <3>8, <3>9, RowWritten DEF IsSuper, Exists
  <2>4. CASE resendVerification(r) \/ reissueVerification(r) \/ issueEmailVerification(r) \/ verifyEmail(r)
             \/ requestPasswordReset(r) \/ resetPassword(r) \/ readStatus(r)
    BY <2>4 DEF resendVerification, reissueVerification, issueEmailVerification, verifyEmail, requestPasswordReset,
       resetPassword, readStatus, Accept, accountVars
  <2>5. QED BY <1>3, <2>1, <2>2, <2>3, <2>4 DEF Register
<1>4. ASSUME NEW r \in Requests, SignIn(r) PROVE Claim
  <2>1. CASE recordFailure(r) \/ clearFailures(r)
    <3>1. task[r].step \in {"failed", "cleared"}
      BY <2>1 DEF recordFailure, clearFailures, At
    <3>2. Target(r) \in Users /\ user[Target(r)] \in UserRow /\ Exists(Target(r))
      BY <3>1, AtWork
    <3>3. PICK failed, locked : SetUser(Target(r), [user[Target(r)] EXCEPT !.failed = failed, !.locked = locked])
      BY <2>1, Zenon DEF recordFailure, clearFailures
    <3>4. PICK row : row = [user[Target(r)] EXCEPT !.failed = failed, !.locked = locked]
      OBVIOUS
    <3>5. row.status = user[Target(r)].status /\ row.roles = user[Target(r)].roles /\ row.deleted = user[Target(r)].deleted
      BY <3>2, <3>4 DEF UserRow
    <3>6. QED BY <3>2, <3>3, <3>4, <3>5, RowWritten DEF IsSuper, Exists
  <2>2. CASE login(r) \/ issue(r) \/ refresh(r) \/ rotate(r) \/ revokeReused(r) \/ refreshAccess(r) \/ logout(r)
             \/ revokeAllForUser(r)
    BY <2>2 DEF login, issue, refresh, rotate, revokeReused, refreshAccess, logout, revokeAllForUser, accountVars
  <2>3. QED BY <1>4, <2>1, <2>2 DEF SignIn
<1>5. QED BY <1>1, <1>2, <1>3, <1>4 DEF AccountsNext

LEMMA SuperAdminStep ==
  ASSUME Inv, [AccountsNext]_ServerVars, alone', SuperAdmins # {}, SuperAdmins' = {}
  PROVE  \E r \in Requests : At(r, "hardDelete") /\ task[r].actor \notin SuperAdmins
<1>1. ServerInv
  BY StaysAlone DEF Inv, Serial
<1>2. user' # user
  BY DEF SuperAdmins, Exists, IsSuper
<1>3. AccountsNext
  BY <1>2 DEF ServerVars, accountVars
<1>4. PICK v \in Users : Written(v) /\ \A w \in Users \ {v} : user'[w] = user[w]
  BY <1>1, <1>2, <1>3, UserWritten
<1>5. SuperAdmins \subseteq {v}
  <2>1. \A w \in SuperAdmins \ {v} : w \in SuperAdmins'
    BY <1>4 DEF SuperAdmins, Exists
  <2>2. QED BY <2>1
<1>6. SuperAdmins = {v} /\ Exists(v) /\ IsSuper(user[v]) /\ ~user[v].deleted
  BY <1>5 DEF SuperAdmins
<1>7. ~KeepsAdmin(v)
  BY <1>6 DEF KeepsAdmin, SuperAdmins, Exists
<1>8. ~Spared(v)
  BY <1>6 DEF Spared
<1>9. QED BY <1>4, <1>6, <1>7, <1>8 DEF Written

LEMMA ResetStep ==
  ASSUME Inv, [AccountsNext]_ServerVars, alone', NEW u \in Users,
         user[u].status \in Disabling, user'[u].status = "ACTIVE"
  PROVE  \E r \in Requests : task[r].step \in {"update", "restore", "bootstrap", "verify"}
<1>1. ServerInv
  BY StaysAlone DEF Inv, Serial
<1>2. user' # user
  BY DEF Disabling
<1>3. AccountsNext
  BY <1>2 DEF ServerVars, accountVars
<1>4. PICK v \in Users : Written(v) /\ \A w \in Users \ {v} : user'[w] = user[w]
  BY <1>1, <1>2, <1>3, UserWritten
<1>5. v = u
  BY <1>4 DEF Disabling
<1>6. QED BY <1>4, <1>5 DEF Written, Exists, Disabling

(* Of requests one at a time, in whatever order and number, the last super  *)
(* administrator goes by one step only: a permanent deletion, asked for     *)
(* with an access token of someone who no longer is one (users.service).    *)
THEOREM ASuperAdminStays == ServerSpec => LastSuperAdminStays
<1>1. Inv /\ [AccountsNext]_ServerVars
        => [(Serial' /\ SuperAdmins # {} /\ SuperAdmins' = {}) =>
              \E r \in Requests : At(r, "hardDelete") /\ task[r].actor \notin SuperAdmins]_<<accountVars, alone>>
  BY SuperAdminStep DEF Serial
<1>2. QED BY <1>1, ServerInvariance, PTL DEF ServerSpec, LastSuperAdminStays

(* Of requests one at a time, a password reset never makes a disabled       *)
(* account active: where one is, it is by an administrator, the demo        *)
(* endpoint or a verification link (auth.service, users.service).           *)
THEOREM DisabledAccountsStay == ServerSpec => ResetRevivesNobody
<1>1. Inv /\ [AccountsNext]_ServerVars
        => [\A u \in Users :
              (Serial' /\ user[u].status \in Disabling /\ user'[u].status = "ACTIVE") =>
                \E r \in Requests : task[r].step \in {"update", "restore", "bootstrap", "verify"}]_<<accountVars, alone>>
  BY ResetStep DEF Serial
<1>2. QED BY <1>1, ServerInvariance, PTL DEF ServerSpec, ResetRevivesNobody

(* Of requests one at a time, when none is at work no open session belongs  *)
(* to a disabled account or was opened with a password that was replaced,   *)
(* but by the demo one (auth.service, tokens.service, users.service).       *)
THEOREM OpenSessionsAreCurrent == ServerSpec => []SessionsCurrent
<1>1. Inv => SessionsCurrent
  <2> SUFFICES ASSUME ServerInv, Quiet, NEW s \in DOMAIN session PROVE OfToday(s)
    BY DEF Inv, SessionsCurrent, OfToday
  <2>1. \A r \in Requests : ~At(r, "revoke")
    BY DEF Quiet, At, Idle
  <2>2. QED BY <2>1 DEF ServerInv, SessionsSound
<1>2. QED BY <1>1, ServerInvariance, PTL

(* Of requests one at a time, a mailed link works once, and an account has  *)
(* one verification link that works, whatever was mailed before             *)
(* (auth.service).                                                          *)
THEOREM MailedLinksWorkOnce == ServerSpec => []LinksWorkOnce
<1>1. Inv => LinksWorkOnce
  <2> SUFFICES ASSUME ServerInv
               PROVE  /\ \A i \in DOMAIN token : token[i].accepted <= 1
                      /\ \A i, j \in DOMAIN token :
                           (/\ token[i].user = token[j].user /\ {token[i].kind, token[j].kind} = {"EMAIL_VERIFICATION"}
                            /\ Open(token[i]) /\ Open(token[j])) => i = j
    BY DEF Inv, LinksWorkOnce
  <2>1. \A i \in DOMAIN token : token[i].accepted <= 1 /\ token[i].user \in Users
    BY Owned DEF ServerInv, LinksSound
  <2>2. ASSUME NEW i \in DOMAIN token, NEW j \in DOMAIN token,
               token[i].user = token[j].user, {token[i].kind, token[j].kind} = {"EMAIL_VERIFICATION"},
               Open(token[i]), Open(token[j])
        PROVE  i = j
    <3>1. token[i].kind = "EMAIL_VERIFICATION" /\ token[j].kind = "EMAIL_VERIFICATION"
      BY <2>2
    <3>2. i \in OpenLinks(token[i].user) /\ j \in OpenLinks(token[i].user)
      BY <2>2, <3>1 DEF OpenLinks
    <3>3. QED BY <2>1, <3>2 DEF ServerInv, LinksSound
  <2>3. QED BY <2>1, <2>2
<1>2. QED BY <1>1, ServerInvariance, PTL
-----------------------------------------------------------------------------
(* The page of the web client.  What is claimed of it is claimed as long as *)
(* its answers arrive and nobody signs in beside other calls.               *)

CookieRow == [sid : Nat, secret : Nat]
ServedRow == [secret : Nat, over : BOOLEAN, reused : BOOLEAN]
RefreshRow ==
  [step : {"sent", "checked", "rotated", "refused", "done"}, by : {"page", "all", "none"},
   cookie : CookieRow, gives : Nat]
CallRow ==
  [step : {"none", "sent", "answered", "unauthorized", "waiting", "posted", "rejected"},
   kind : {"none", "data", "logout", "draft", "login", "restore", "me"},
   token : Nat, cookie : CookieRow, retry : BOOLEAN, on : Nat, ok : BOOLEAN]
PageRow == [loading : BOOLEAN, user : BOOLEAN, form : BOOLEAN, drafts : Nat]

PageTyped ==
  /\ served \in Seq(ServedRow) /\ refreshes \in Seq(RefreshRow) /\ call \in [Calls -> CallRow]
  /\ jar \in CookieRow /\ page \in PageRow
  /\ issued \in Nat /\ stale \in Nat /\ access \in Nat /\ refreshing \in Nat

Busy(q) == call[q].step # "none"
Refreshing(i) == refreshes[i].step # "done"

(* There is one refresh at a time, and a call that waits for it: the one    *)
(* that restores the page for its own, the others for the one they share.   *)
OneRefresh ==
  /\ \A i, j \in DOMAIN refreshes : Refreshing(i) /\ Refreshing(j) => i = j
  /\ \A i \in DOMAIN refreshes : Refreshing(i) =>
       \/ refreshes[i].by = "all" /\ refreshing = i /\ \E q \in Calls : call[q].step = "waiting"
       \/ refreshes[i].by = "page" /\ \E q \in Calls : call[q].step = "posted" /\ call[q].on = i
  /\ refreshing # 0 =>
       refreshing \in DOMAIN refreshes /\ Refreshing(refreshing) /\ refreshes[refreshing].by = "all"
  /\ \A q \in Calls :
       /\ call[q].step = "waiting" => call[q].on = refreshing /\ refreshing # 0 /\ call[q].retry
       /\ call[q].step = "posted" =>
            /\ call[q].on \in DOMAIN refreshes /\ Refreshing(call[q].on) /\ refreshes[call[q].on].by = "page"

(* What each call may be at, and which calls are alone: the one that        *)
(* restores the page, and a sign-in.                                        *)
CallsSound ==
  \A q \in Calls :
    /\ call[q].step = "none" <=> call[q].kind = "none"
    /\ call[q].kind = "restore" => call[q].step \in {"posted", "unauthorized", "waiting", "rejected"}
    /\ call[q].step = "posted" => call[q].kind = "restore"
    /\ call[q].kind = "me" => call[q].step \in {"sent", "answered", "rejected"}
    /\ call[q].kind \in {"restore", "me"} /\ call[q].step # "rejected" => page.loading
    /\ page.loading /\ Busy(q) =>
         /\ call[q].kind \in {"restore", "me"} /\ call[q].step # "rejected"
         /\ \A p \in Calls : Busy(p) => p = q
    /\ call[q].kind = "login" => \A p \in Calls : Busy(p) => p = q

(* A cookie is the latest of its session, or the session is over.           *)
Ended(c) == c = NoCookie \/ (c.sid \in DOMAIN served /\ served[c.sid].over)
Fresh(c) == Ended(c) \/ (c.sid \in DOMAIN served /\ served[c.sid].secret = c.secret)
CookiesFresh ==
  /\ \A s \in DOMAIN served : ~served[s].reused
  /\ (\A i \in DOMAIN refreshes : refreshes[i].step # "rotated") => Fresh(jar)
  /\ \A i \in DOMAIN refreshes : Refreshing(i) =>
       /\ jar \in {refreshes[i].cookie, NoCookie}
       /\ refreshes[i].step \in {"sent", "checked"} => Fresh(refreshes[i].cookie)
       /\ refreshes[i].step \in {"checked", "rotated"} => refreshes[i].cookie # NoCookie
       /\ refreshes[i].step = "rotated" => Fresh([sid |-> refreshes[i].cookie.sid, secret |-> refreshes[i].gives])
       /\ refreshes[i].step = "refused" => Ended(refreshes[i].cookie)
  /\ \A q \in Calls :
       /\ call[q].kind = "login" /\ call[q].step = "answered" => Fresh(call[q].cookie)
       /\ call[q].kind = "restore" /\ call[q].step = "unauthorized" => Ended(jar)

(* A token that is used once more, or to restore the page, is accepted.     *)
TokensValid ==
  /\ stale <= issued
  /\ \A i \in DOMAIN refreshes : refreshes[i].step = "rotated" => Valid(refreshes[i].gives)
  /\ \A q \in Calls :
       /\ call[q].step = "sent" /\ call[q].kind # "login" /\ (call[q].retry \/ call[q].kind = "me") => Valid(call[q].token)
       /\ call[q].step = "unauthorized" /\ call[q].retry => call[q].kind \in {"login", "restore"}

(* A filing is under way once, from a form that has not been saved.         *)
DraftsOnce ==
  /\ page.drafts <= 1
  /\ \A q \in Calls : call[q].kind = "draft" =>
       page.form /\ \A p \in Calls : call[p].kind = "draft" => p = q
  /\ page.form /\ page.drafts # 0 => \E q \in Calls : call[q].kind = "draft" /\ call[q].step = "answered"

PageInv ==
  PageTyped /\ OneRefresh /\ CallsSound /\ CookiesFresh /\ TokensValid /\ DraftsOnce

LEMMA Typed ==
  ASSUME PageInv
  PROVE  /\ \A q \in Calls : call[q] \in CallRow
         /\ \A i \in DOMAIN refreshes : refreshes[i] \in RefreshRow /\ i \in Nat \ {0}
         /\ \A s \in DOMAIN served : served[s] \in ServedRow /\ s \in Nat \ {0}
         /\ DOMAIN refreshes = 1..Len(refreshes) /\ Len(refreshes) \in Nat
         /\ DOMAIN served = 1..Len(served) /\ Len(served) \in Nat
<1>1. served \in Seq(ServedRow) /\ refreshes \in Seq(RefreshRow) /\ call \in [Calls -> CallRow]
  BY DEF PageInv, PageTyped
<1>2. QED BY <1>1, Element

\* Nothing waits, so nothing is refreshed.
LEMMA NoRefresh ==
  ASSUME PageInv, \A q \in Calls : call[q].step \notin {"waiting", "posted"}
  PROVE  /\ \A i \in DOMAIN refreshes : ~Refreshing(i)
         /\ refreshing = 0 /\ Fresh(jar)
<1>1. \A i \in DOMAIN refreshes : ~Refreshing(i)
  BY DEF PageInv, OneRefresh
<1>2. refreshing = 0
  BY <1>1 DEF PageInv, OneRefresh
<1>3. Fresh(jar)
  BY <1>1 DEF PageInv, CookiesFresh, Refreshing
<1>4. QED BY <1>1, <1>2, <1>3

\* The rows of one call and of one refresh change.
LEMMA PutsCall ==
  ASSUME PageInv, NEW q \in Calls, NEW c \in CallRow, PutCall(q, c)
  PROVE  /\ call' \in [Calls -> CallRow] /\ call'[q] = c
         /\ \A p \in Calls : p # q => call'[p] = call[p]
BY DEF PageInv, PageTyped, PutCall

LEMMA PutsRefresh ==
  ASSUME PageInv, NEW i \in DOMAIN refreshes, NEW row \in RefreshRow, refreshes' = [refreshes EXCEPT ![i] = row]
  PROVE  /\ refreshes' \in Seq(RefreshRow) /\ DOMAIN refreshes' = DOMAIN refreshes /\ refreshes'[i] = row
         /\ \A j \in DOMAIN refreshes : j # i => refreshes'[j] = refreshes[j]
BY DEF PageInv, PageTyped

LEMMA AddsRefresh ==
  ASSUME NEW rows \in Seq(RefreshRow), NEW row \in RefreshRow, refreshes' = Append(rows, row)
  PROVE  /\ refreshes' \in Seq(RefreshRow) /\ DOMAIN refreshes' = DOMAIN rows \cup {Len(rows) + 1}
         /\ Len(refreshes') = Len(rows) + 1 /\ Len(rows) + 1 \notin DOMAIN rows /\ Len(rows) \in Nat
         /\ refreshes'[Len(rows) + 1] = row /\ \A j \in DOMAIN rows : refreshes'[j] = rows[j]
OBVIOUS

LEMMA RefreshRows ==
  ASSUME NEW by \in {"page", "all"}, NEW cookie \in CookieRow
  PROVE  /\ Refresh(by, cookie) \in RefreshRow /\ Refresh(by, cookie).step = "sent"
         /\ Refresh(by, cookie).by = by /\ Refresh(by, cookie).cookie = cookie
         /\ [Refresh("none", NoCookie) EXCEPT !.step = "done"] \in RefreshRow
         /\ [Refresh("none", NoCookie) EXCEPT !.step = "done"].step = "done"
BY DEF Refresh, RefreshRow, CookieRow, NoCookie

LEMMA CallRows ==
  ASSUME PageInv
  PROVE  /\ NoCall \in CallRow /\ NoCookie \in CookieRow /\ NoCall.step = "none" /\ NoCall.kind = "none"
         /\ NoCall.retry = FALSE
         /\ \A kind \in {"data", "logout", "draft", "login", "restore", "me"} :
              /\ NewCall(kind) \in CallRow /\ NewCall(kind).step = "sent" /\ NewCall(kind).kind = kind
              /\ NewCall(kind).retry = FALSE
         /\ \A q \in Calls : Rejection(call[q]) \in CallRow /\ Rejection(call[q]).step = "rejected"
                             /\ Rejection(call[q]).kind = call[q].kind /\ Rejection(call[q]).retry = FALSE
<1>1. NoCall \in CallRow /\ NoCookie \in CookieRow /\ NoCall.step = "none" /\ NoCall.kind = "none" /\ NoCall.retry = FALSE
  BY DEF NoCall, CallRow, NoCookie, CookieRow
<1>2. access \in Nat /\ jar \in CookieRow
  BY DEF PageInv, PageTyped
<1>3. ASSUME NEW kind \in {"data", "logout", "draft", "login", "restore", "me"}
      PROVE  /\ NewCall(kind) \in CallRow /\ NewCall(kind).step = "sent" /\ NewCall(kind).kind = kind
             /\ NewCall(kind).retry = FALSE
  BY <1>1, <1>2 DEF NewCall, NoCall, CallRow
<1>4. ASSUME NEW q \in Calls
      PROVE  /\ Rejection(call[q]) \in CallRow /\ Rejection(call[q]).step = "rejected"
             /\ Rejection(call[q]).kind = call[q].kind /\ Rejection(call[q]).retry = FALSE
  <2>1. PICK kind \in {"none", "data", "logout", "draft", "login", "restore", "me"} : kind = call[q].kind
    BY Typed DEF CallRow
  <2>2. Rejection(call[q]) = [NoCall EXCEPT !.step = "rejected", !.kind = kind]
    BY <2>1 DEF Rejection
  <2>3. QED BY <1>1, <2>1, <2>2 DEF NoCall, CallRow
<1>5. QED BY <1>1, <1>3, <1>4
-----------------------------------------------------------------------------
(* The page sends *)

LEMMA LoadPage ==
  ASSUME PageInv, NEW q \in Calls, loadPage(q)
  PROVE  PageInv'
<1>0. /\ page.loading /\ CallsQuiet
      /\ served' = served /\ issued' = issued /\ stale' = stale /\ jar' = jar /\ access' = access
      /\ refreshing' = refreshing /\ page' = page
  BY DEF loadPage, serverSide
<1>1. /\ \A i \in DOMAIN refreshes : ~Refreshing(i)
      /\ refreshing = 0 /\ Fresh(jar)
  BY <1>0, NoRefresh DEF CallsQuiet
<1>2. PICK n \in Nat : n = Len(refreshes) + 1 /\ n \notin DOMAIN refreshes
  BY Typed
<1>3. PICK row \in RefreshRow : row = Refresh("page", jar) /\ row.step = "sent" /\ row.by = "page" /\ row.cookie = jar
  BY RefreshRows DEF PageInv, PageTyped
<1>4. /\ refreshes' \in Seq(RefreshRow) /\ DOMAIN refreshes' = DOMAIN refreshes \cup {n}
      /\ refreshes'[n] = row /\ \A j \in DOMAIN refreshes : refreshes'[j] = refreshes[j]
  <2>1. refreshes' = Append(refreshes, row)
    BY <1>3 DEF loadPage, SendRefresh
  <2>2. QED BY <1>2, <2>1, AddsRefresh DEF PageInv, PageTyped
<1>5. PICK c \in CallRow : PutCall(q, c) /\ c.step = "posted" /\ c.kind = "restore" /\ c.on = n
  <2>1. PICK new \in CallRow : new = NewCall("restore") /\ new.kind = "restore"
    BY CallRows
  <2>2. PICK c : c = [new EXCEPT !.step = "posted", !.on = n]
    OBVIOUS
  <2>3. c \in CallRow /\ c.step = "posted" /\ c.kind = "restore" /\ c.on = n
    BY <1>2, <2>1, <2>2 DEF CallRow
  <2>4. PutCall(q, c)
    BY <1>2, <2>1, <2>2 DEF loadPage
  <2>5. QED BY <2>3, <2>4
<1>6. call' \in [Calls -> CallRow] /\ call'[q] = c /\ \A p \in Calls : p # q => call'[p] = call[p]
  BY <1>5, PutsCall
<1>7. \A p \in Calls : p # q => call'[p].step = "none"
  BY <1>0, <1>6 DEF CallsQuiet
<1>8. PageTyped'
  BY <1>0, <1>4, <1>6 DEF PageInv, PageTyped
<1>9. OneRefresh'
  BY <1>0, <1>1, <1>3, <1>4, <1>5, <1>6, <1>7 DEF PageInv, OneRefresh, Refreshing
<1>10. CallsSound'
  BY <1>0, <1>5, <1>6, <1>7 DEF PageInv, CallsSound, Busy
<1>11. CookiesFresh'
  BY <1>0, <1>1, <1>3, <1>4, <1>5, <1>6, <1>7 DEF PageInv, CookiesFresh, Refreshing, Fresh, Ended
<1>12. TokensValid'
  BY <1>0, <1>3, <1>4, <1>5, <1>6, <1>7 DEF PageInv, TokensValid, Valid
<1>13. DraftsOnce'
  BY <1>0, <1>5, <1>6, <1>7 DEF PageInv, DraftsOnce, CallsSound, CallsQuiet
<1>14. QED BY <1>8, <1>9, <1>10, <1>11, <1>12, <1>13 DEF PageInv

LEMMA Reload ==
  ASSUME PageInv, reload
  PROVE  PageInv'
<1>0. /\ CallsQuiet /\ access' = 0
      /\ page' = [loading |-> TRUE, user |-> FALSE, form |-> FALSE, drafts |-> 0]
      /\ served' = served /\ issued' = issued /\ stale' = stale /\ jar' = jar
      /\ refreshing' = refreshing /\ refreshes' = refreshes /\ call' = call
  BY DEF reload, serverSide
<1>1. \A q \in Calls : call[q].step = "none"
  BY <1>0 DEF CallsQuiet
<1>2. PageTyped'
  BY <1>0 DEF PageInv, PageTyped, PageRow
<1>3. OneRefresh' /\ CookiesFresh' /\ TokensValid'
  BY <1>0 DEF PageInv, OneRefresh, CookiesFresh, TokensValid, Refreshing, Fresh, Ended, Valid
<1>4. CallsSound'
  BY <1>0, <1>1 DEF PageInv, CallsSound, Busy
<1>5. DraftsOnce'
  BY <1>0, <1>1 DEF PageInv, DraftsOnce, CallsSound
<1>6. QED BY <1>2, <1>3, <1>4, <1>5 DEF PageInv

\* A call that was not there is sent.
LEMMA Send ==
  ASSUME PageInv, NEW q \in Calls, NEW kind \in {"data", "logout", "draft", "login"}, NEW c \in CallRow,
         call[q] = NoCall, PutCall(q, c), c.step = "sent", c.kind = kind, c.retry = FALSE,
         UNCHANGED <<serverSide, jar, access, refreshing, refreshes, page>>,
         ~page.loading,
         kind = "login" => CallsQuiet,
         kind # "login" => \A p \in Calls : call[p].kind # "login",
         kind = "draft" => page.form /\ \A p \in Calls : call[p].kind # "draft"
  PROVE  PageInv'
<1>0. /\ served' = served /\ issued' = issued /\ stale' = stale /\ jar' = jar /\ access' = access
      /\ refreshing' = refreshing /\ refreshes' = refreshes /\ page' = page
  BY DEF serverSide
<1>1. call' \in [Calls -> CallRow] /\ call'[q] = c /\ \A p \in Calls : p # q => call'[p] = call[p]
  BY PutsCall
<1>2. call[q].step = "none" /\ call[q].kind = "none"
  BY CallRows
<1>3. PageTyped'
  BY <1>0, <1>1 DEF PageInv, PageTyped
<1>4. OneRefresh'
  <2>1. \A p \in Calls : call[p].step \in {"waiting", "posted"} => p # q /\ call'[p] = call[p]
    BY <1>1, <1>2
  <2>2. \A p \in Calls : call'[p].step \in {"waiting", "posted"} => call'[p] = call[p]
    BY <1>1
  <2>3. QED BY <1>0, <2>1, <2>2 DEF PageInv, OneRefresh, Refreshing
<1>5. CallsSound'
  BY <1>0, <1>1, <1>2 DEF PageInv, CallsSound, Busy, CallsQuiet
<1>6. CookiesFresh'
  BY <1>0, <1>1 DEF PageInv, CookiesFresh, Refreshing, Fresh, Ended
<1>7. TokensValid'
  BY <1>0, <1>1 DEF PageInv, TokensValid, Valid
<1>8. DraftsOnce'
  BY <1>0, <1>1, <1>2 DEF PageInv, DraftsOnce
<1>9. QED BY <1>3, <1>4, <1>5, <1>6, <1>7, <1>8 DEF PageInv

LEMMA Sends ==
  ASSUME PageInv, smooth', NEW q \in Calls,
         query(q) \/ logoutPage(q) \/ submitForm(q) \/ signIn(q)
  PROVE  PageInv'
<1>1. ASSUME NEW kind \in {"data", "logout", "draft"}, send(q, kind),
             kind = "draft" => page.form /\ \A p \in Calls : call[p].kind # "draft"
      PROVE  PageInv'
  <2>1. /\ ~page.loading /\ call[q] = NoCall /\ \A p \in Calls : call[p].kind # "login"
        /\ UNCHANGED <<serverSide, jar, access, refreshing, refreshes, page>>
    BY <1>1 DEF send, ProtectedRoute
  <2>2. PICK c \in CallRow : PutCall(q, c) /\ c.step = "sent" /\ c.kind = kind /\ c.retry = FALSE
    BY <1>1, CallRows DEF send
  <2>3. QED BY <1>1, <2>1, <2>2, Send
<1>2. CASE query(q) \/ logoutPage(q)
  BY <1>1, <1>2 DEF query, logoutPage
<1>3. CASE submitForm(q)
  BY <1>1, <1>3 DEF submitForm
<1>4. CASE signIn(q)
  <2>1. /\ ~page.loading /\ CallsQuiet /\ call[q] = NoCall
        /\ UNCHANGED <<serverSide, jar, access, refreshing, refreshes, page>>
    BY <1>4 DEF signIn
  <2>2. PICK right \in BOOLEAN : PutCall(q, [NewCall("login") EXCEPT !.ok = right])
    BY <1>4 DEF signIn
  <2>3. PICK new \in CallRow : new = NewCall("login") /\ new.step = "sent" /\ new.kind = "login" /\ new.retry = FALSE
    BY CallRows
  <2>4. PICK c : c = [new EXCEPT !.ok = right]
    OBVIOUS
  <2>5. c \in CallRow /\ c.step = "sent" /\ c.kind = "login" /\ c.retry = FALSE
    BY <2>3, <2>4 DEF CallRow
  <2>6. PutCall(q, c)
    BY <2>2, <2>3, <2>4
  <2>7. QED BY <2>1, <2>5, <2>6, Send
<1>5. QED BY <1>2, <1>3, <1>4

LEMMA OpenForm ==
  ASSUME PageInv, openForm
  PROVE  PageInv'
<1>0. /\ ProtectedRoute /\ ~page.form /\ page' = [page EXCEPT !.form = TRUE, !.drafts = 0]
      /\ served' = served /\ issued' = issued /\ stale' = stale /\ jar' = jar /\ access' = access
      /\ refreshing' = refreshing /\ refreshes' = refreshes /\ call' = call
  BY DEF openForm, serverSide
<1>1. page' \in PageRow /\ page'.loading = page.loading /\ page'.form /\ page'.drafts = 0
  BY <1>0 DEF PageInv, PageTyped, PageRow
<1>2. PageTyped'
  BY <1>0, <1>1 DEF PageInv, PageTyped
<1>3. OneRefresh' /\ CookiesFresh' /\ TokensValid'
  BY <1>0 DEF PageInv, OneRefresh, CookiesFresh, TokensValid, Refreshing, Fresh, Ended, Valid
<1>4. CallsSound'
  BY <1>0, <1>1 DEF PageInv, CallsSound, Busy
<1>5. DraftsOnce'
  BY <1>0, <1>1 DEF PageInv, DraftsOnce
<1>6. QED BY <1>2, <1>3, <1>4, <1>5 DEF PageInv
-----------------------------------------------------------------------------
(* The server answers *)

LEMMA CheckRefresh ==
  ASSUME PageInv, NEW i \in DOMAIN refreshes, checkRefresh(i)
  PROVE  PageInv'
<1>0. /\ refreshes[i].step = "sent" /\ Refreshing(i)
      /\ issued' = issued /\ stale' = stale /\ jar' = jar /\ access' = access
      /\ refreshing' = refreshing /\ call' = call /\ page' = page
  BY DEF checkRefresh, Refreshing
<1>1. Fresh(refreshes[i].cookie)
  BY <1>0 DEF PageInv, CookiesFresh
<1>2. /\ served' = served
      /\ \/ Ended(refreshes[i].cookie) /\ refreshes' = [refreshes EXCEPT ![i].step = "refused"]
         \/ refreshes[i].cookie # NoCookie /\ refreshes' = [refreshes EXCEPT ![i].step = "checked"]
  <2>1. CASE refreshes[i].cookie = NoCookie \/ served[refreshes[i].cookie.sid].over
    <3>1. served' = served /\ refreshes' = [refreshes EXCEPT ![i].step = "refused"]
      BY <2>1 DEF checkRefresh
    <3>2. Ended(refreshes[i].cookie)
      BY <1>1, <2>1 DEF Fresh, Ended
    <3>3. QED BY <3>1, <3>2
  <2>2. CASE ~(refreshes[i].cookie = NoCookie \/ served[refreshes[i].cookie.sid].over)
    <3>1. served[refreshes[i].cookie.sid].secret = refreshes[i].cookie.secret
      BY <1>1, <2>2 DEF Fresh, Ended
    <3>2. served' = served /\ refreshes' = [refreshes EXCEPT ![i].step = "checked"]
      BY <2>2, <3>1 DEF checkRefresh
    <3>3. QED BY <2>2, <3>2
  <2>3. QED BY <2>1, <2>2
<1>3. PICK row \in RefreshRow :
        /\ refreshes' = [refreshes EXCEPT ![i] = row] /\ row.by = refreshes[i].by /\ row.cookie = refreshes[i].cookie
        /\ \/ row.step = "refused" /\ Ended(row.cookie)
           \/ row.step = "checked" /\ row.cookie # NoCookie
  <2>1. PICK old \in RefreshRow : old = refreshes[i]
    BY Typed
  <2>2. /\ [old EXCEPT !.step = "refused"] \in RefreshRow /\ [old EXCEPT !.step = "refused"].by = old.by
        /\ [old EXCEPT !.step = "refused"].cookie = old.cookie /\ [old EXCEPT !.step = "refused"].step = "refused"
        /\ [old EXCEPT !.step = "checked"] \in RefreshRow /\ [old EXCEPT !.step = "checked"].by = old.by
        /\ [old EXCEPT !.step = "checked"].cookie = old.cookie /\ [old EXCEPT !.step = "checked"].step = "checked"
    BY DEF RefreshRow
  <2>3. \/ Ended(old.cookie) /\ refreshes' = [refreshes EXCEPT ![i] = [old EXCEPT !.step = "refused"]]
        \/ old.cookie # NoCookie /\ refreshes' = [refreshes EXCEPT ![i] = [old EXCEPT !.step = "checked"]]
    BY <1>2, <2>1
  <2>4. CASE Ended(old.cookie) /\ refreshes' = [refreshes EXCEPT ![i] = [old EXCEPT !.step = "refused"]]
    <3>1. PICK row : row = [old EXCEPT !.step = "refused"]
      OBVIOUS
    <3>2. QED BY <2>1, <2>2, <2>4, <3>1
  <2>5. CASE old.cookie # NoCookie /\ refreshes' = [refreshes EXCEPT ![i] = [old EXCEPT !.step = "checked"]]
    <3>1. PICK row : row = [old EXCEPT !.step = "checked"]
      OBVIOUS
    <3>2. QED BY <2>1, <2>2, <2>5, <3>1
  <2>6. QED BY <2>3, <2>4, <2>5
<1>4. /\ refreshes' \in Seq(RefreshRow) /\ DOMAIN refreshes' = DOMAIN refreshes /\ refreshes'[i] = row
      /\ \A j \in DOMAIN refreshes : j # i => refreshes'[j] = refreshes[j]
  BY <1>3, PutsRefresh
<1>5. PageTyped'
  BY <1>0, <1>2, <1>4 DEF PageInv, PageTyped
<1>6. OneRefresh'
  BY <1>0, <1>3, <1>4 DEF PageInv, OneRefresh, Refreshing
<1>7. CallsSound' /\ DraftsOnce'
  BY <1>0 DEF PageInv, CallsSound, DraftsOnce, Busy
<1>8. CookiesFresh'
  BY <1>0, <1>1, <1>2, <1>3, <1>4 DEF PageInv, CookiesFresh, Refreshing, Fresh, Ended
<1>9. TokensValid'
  BY <1>0, <1>3, <1>4 DEF PageInv, TokensValid, Valid
<1>10. QED BY <1>5, <1>6, <1>7, <1>8, <1>9 DEF PageInv

LEMMA RotateCookie ==
  ASSUME PageInv, NEW i \in DOMAIN refreshes, rotateCookie(i)
  PROVE  PageInv'
<1>0. /\ refreshes[i].step = "checked" /\ Refreshing(i) /\ issued' = issued + 1
      /\ stale' = stale /\ jar' = jar /\ access' = access
      /\ refreshing' = refreshing /\ call' = call /\ page' = page
  BY DEF rotateCookie, NextNumber, Refreshing
<1>1. PICK n \in Nat : n = issued + 1 /\ n > stale
  BY DEF PageInv, PageTyped, TokensValid
<1>2. PICK s : s = refreshes[i].cookie.sid
  OBVIOUS
<1>3. Fresh(refreshes[i].cookie) /\ refreshes[i].cookie # NoCookie /\ s \in DOMAIN served
  BY <1>0, <1>2 DEF PageInv, CookiesFresh, Fresh, Ended
<1>4. PICK new \in ServedRow : new = [served[s] EXCEPT !.secret = n] /\ new.secret = n
                               /\ new.over = served[s].over /\ new.reused = served[s].reused
  <2>1. PICK old \in ServedRow : old = served[s]
    BY <1>3, Typed
  <2>2. PICK row : row = [old EXCEPT !.secret = n]
    OBVIOUS
  <2>3. row \in ServedRow /\ row.secret = n /\ row.over = old.over /\ row.reused = old.reused
    BY <1>1, <2>1, <2>2 DEF ServedRow
  <2>4. QED BY <2>1, <2>2, <2>3
<1>5. served' = [served EXCEPT ![s] = new]
  BY <1>0, <1>1, <1>2, <1>4 DEF rotateCookie
<1>6. /\ served' \in Seq(ServedRow) /\ DOMAIN served' = DOMAIN served /\ served'[s] = new
      /\ \A t \in DOMAIN served : t # s => served'[t] = served[t]
  BY <1>3, <1>5 DEF PageInv, PageTyped
<1>7. PICK row \in RefreshRow :
        /\ refreshes' = [refreshes EXCEPT ![i] = row] /\ row.by = refreshes[i].by /\ row.cookie = refreshes[i].cookie
        /\ row.step = "rotated" /\ row.gives = n
  <2>1. PICK old \in RefreshRow : old = refreshes[i]
    BY Typed
  <2>2. PICK row : row = [old EXCEPT !.step = "rotated", !.gives = n]
    OBVIOUS
  <2>3. row \in RefreshRow /\ row.by = old.by /\ row.cookie = old.cookie /\ row.step = "rotated" /\ row.gives = n
    BY <1>1, <2>2 DEF RefreshRow
  <2>4. refreshes' = [refreshes EXCEPT ![i] = row]
    BY <1>0, <1>1, <2>1, <2>2 DEF rotateCookie
  <2>5. QED BY <2>1, <2>3, <2>4
<1>8. /\ refreshes' \in Seq(RefreshRow) /\ DOMAIN refreshes' = DOMAIN refreshes /\ refreshes'[i] = row
      /\ \A j \in DOMAIN refreshes : j # i => refreshes'[j] = refreshes[j]
  BY <1>7, PutsRefresh
<1>9. PageTyped'
  BY <1>0, <1>1, <1>6, <1>8 DEF PageInv, PageTyped
<1>10. OneRefresh'
  BY <1>0, <1>7, <1>8 DEF PageInv, OneRefresh, Refreshing
<1>11. CallsSound' /\ DraftsOnce'
  BY <1>0 DEF PageInv, CallsSound, DraftsOnce, Busy
<1>12. CookiesFresh'
  <2>1. \A t \in DOMAIN served' : ~served'[t].reused
    BY <1>3, <1>4, <1>6 DEF PageInv, CookiesFresh
  <2>2. \A c : Ended(c) => Ended(c)'
    BY <1>3, <1>4, <1>6 DEF Ended
  <2>3. \A j \in DOMAIN refreshes : j # i => ~Refreshing(j) /\ refreshes'[j] = refreshes[j]
    BY <1>0, <1>8 DEF PageInv, OneRefresh
  <2>4. jar \in {refreshes[i].cookie, NoCookie}
    BY <1>0 DEF PageInv, CookiesFresh
  <2>5. Fresh([sid |-> s, secret |-> n])'
    <3>1. PICK c : c = [sid |-> s, secret |-> n]
      OBVIOUS
    <3>2. s \in DOMAIN served' /\ served'[s].secret = n
      BY <1>3, <1>4, <1>6
    <3>3. Fresh(c)'
      BY <3>1, <3>2 DEF Fresh
    <3>4. QED BY <3>1, <3>3
  <2>6. ASSUME NEW q \in Calls
        PROVE  /\ ~(call[q].kind = "login" /\ call[q].step = "answered")
               /\ call[q].kind = "restore" /\ call[q].step = "unauthorized" => Ended(jar)
    <3>1. PICK p \in Calls : call[p].step \in {"waiting", "posted"}
      BY <1>0 DEF PageInv, OneRefresh
    <3>2. call[q].kind = "login" => p = q
      BY <3>1 DEF PageInv, CallsSound, Busy
    <3>3. QED BY <3>1, <3>2 DEF PageInv, CookiesFresh
  <2>7. QED BY <1>0, <1>2, <1>3, <1>7, <1>8, <2>1, <2>2, <2>3, <2>4, <2>5, <2>6 DEF CookiesFresh, Refreshing
<1>13. TokensValid'
  BY <1>0, <1>1, <1>7, <1>8 DEF PageInv, TokensValid, Valid, PageTyped
<1>14. QED BY <1>9, <1>10, <1>11, <1>12, <1>13 DEF PageInv

\* A call that waits or is posted keeps a refresh, any other does not matter
\* to it: replacing a call that does neither by one that does neither.
LEMMA KeepsRefresh ==
  ASSUME PageInv, NEW q \in Calls, call[q].step \notin {"waiting", "posted"}, call'[q].step \notin {"waiting", "posted"},
         \A p \in Calls : p # q => call'[p] = call[p],
         refreshes' = refreshes, refreshing' = refreshing
  PROVE  OneRefresh'
<1>1. \A p \in Calls : call[p].step \in {"waiting", "posted"} => call'[p] = call[p]
  OBVIOUS
<1>2. \A p \in Calls : call'[p].step \in {"waiting", "posted"} => call'[p] = call[p]
  OBVIOUS
<1>3. QED BY <1>1, <1>2 DEF PageInv, OneRefresh, Refreshing

LEMMA ServesSignIn ==
  ASSUME PageInv, NEW q \in Calls, call[q].step = "sent", call[q].kind = "login",
         NEW c \in CallRow, PutCall(q, c), c.step = "answered", c.kind = "login", c.retry = call[q].retry,
         NEW n \in Nat, n = issued + 1, issued' = n,
         NEW s \in ServedRow, s.secret = n, s.reused = FALSE, served' = Append(served, s),
         c.cookie = [sid |-> Len(served'), secret |-> n],
         UNCHANGED <<stale, jar, access, refreshing, refreshes, smooth, page>>
  PROVE  PageInv'
<1>1. call' \in [Calls -> CallRow] /\ call'[q] = c /\ \A p \in Calls : p # q => call'[p] = call[p]
  BY PutsCall
<1>2. PICK l \in Nat : /\ served' \in Seq(ServedRow) /\ l = Len(served) + 1 /\ l = Len(served')
                       /\ DOMAIN served' = DOMAIN served \cup {l} /\ l \notin DOMAIN served
                       /\ served'[l] = s /\ \A t \in DOMAIN served : served'[t] = served[t]
  BY DEF PageInv, PageTyped
<1>3. PageTyped'
  BY <1>1, <1>2 DEF PageInv, PageTyped
<1>4. OneRefresh'
  BY <1>1, KeepsRefresh
<1>5. CallsSound'
  BY <1>1 DEF PageInv, CallsSound, Busy
<1>6. /\ \A d : Ended(d) => Ended(d)'
      /\ \A d : Fresh(d) => Fresh(d)'
  BY <1>2 DEF Fresh, Ended
<1>7. Fresh(c.cookie)'
  <2>1. PICK d : d = [sid |-> l, secret |-> n]
    OBVIOUS
  <2>2. Fresh(d)'
    BY <1>2, <2>1 DEF Fresh
  <2>3. QED BY <1>2, <2>1, <2>2
<1>8. CookiesFresh'
  BY <1>1, <1>2, <1>6, <1>7 DEF PageInv, CookiesFresh, Refreshing
<1>9. TokensValid'
  BY <1>1 DEF PageInv, PageTyped, TokensValid, Valid
<1>10. DraftsOnce'
  BY <1>1 DEF PageInv, DraftsOnce
<1>11. QED BY <1>3, <1>4, <1>5, <1>8, <1>9, <1>10 DEF PageInv

\* The server carries out a call, or answers 401.
LEMMA ServesCall ==
  ASSUME PageInv, NEW q \in Calls, call[q].step = "sent",
         NEW step \in {"answered", "unauthorized"}, Served(q, step),
         step = "unauthorized" => call[q].kind = "login" \/ ~Valid(call[q].token),
         step = "answered" => call[q].kind # "login",
         UNCHANGED <<issued, stale, jar, access, refreshing, refreshes, smooth>>,
         served' = served \/ \E s \in DOMAIN served : served' = [served EXCEPT ![s].over = TRUE],
         page' = IF step = "answered" /\ call[q].kind = "draft" THEN [page EXCEPT !.drafts = @ + 1] ELSE page
  PROVE  PageInv'
<1>1. PICK c \in CallRow : /\ PutCall(q, c) /\ c.step = step /\ c.kind = call[q].kind
                           /\ c.retry = call[q].retry /\ c.cookie = call[q].cookie
  <2>1. PICK old \in CallRow : old = call[q]
    BY Typed
  <2>2. PICK c : c = [old EXCEPT !.step = step]
    OBVIOUS
  <2>3. c \in CallRow /\ c.step = step /\ c.kind = old.kind /\ c.retry = old.retry /\ c.cookie = old.cookie
    BY <2>2 DEF CallRow
  <2>4. PutCall(q, c)
    BY <2>1, <2>2 DEF Served
  <2>5. QED BY <2>1, <2>3, <2>4
<1>2. call' \in [Calls -> CallRow] /\ call'[q] = c /\ \A p \in Calls : p # q => call'[p] = call[p]
  BY <1>1, PutsCall
<1>3. /\ served' \in Seq(ServedRow) /\ DOMAIN served' = DOMAIN served
      /\ \A t \in DOMAIN served :
           /\ served'[t].secret = served[t].secret /\ served'[t].reused = served[t].reused
           /\ served[t].over => served'[t].over
  <2>1. CASE served' = served
    BY <2>1 DEF PageInv, PageTyped
  <2>2. CASE served' # served
    <3>1. PICK s \in DOMAIN served : served' = [served EXCEPT ![s].over = TRUE]
      BY <2>2
    <3>2. PICK old \in ServedRow : old = served[s]
      BY Typed
    <3>3. PICK new : new = [old EXCEPT !.over = TRUE]
      OBVIOUS
    <3>4. new \in ServedRow /\ new.over /\ new.secret = old.secret /\ new.reused = old.reused
      BY <3>2, <3>3 DEF ServedRow
    <3>5. served' = [served EXCEPT ![s] = new] /\ served \in Seq(ServedRow)
      BY <3>1, <3>2, <3>3 DEF PageInv, PageTyped
    <3>6. QED BY <3>2, <3>4, <3>5
  <2>3. QED BY <2>1, <2>2
<1>4. /\ page' \in PageRow /\ page'.loading = page.loading /\ page'.form = page.form
      /\ page'.drafts = IF step = "answered" /\ call[q].kind = "draft" THEN page.drafts + 1 ELSE page.drafts
  <2>1. PICK old \in PageRow : old = page
    BY DEF PageInv, PageTyped
  <2>2. PICK new : new = [old EXCEPT !.drafts = old.drafts + 1]
    OBVIOUS
  <2>3. new \in PageRow /\ new.loading = old.loading /\ new.form = old.form /\ new.drafts = old.drafts + 1
    BY <2>2 DEF PageRow
  <2>4. page' = IF step = "answered" /\ call[q].kind = "draft" THEN new ELSE old
    BY <2>1, <2>2
  <2>5. QED BY <2>1, <2>3, <2>4
<1>5. PageTyped'
  BY <1>2, <1>3, <1>4 DEF PageInv, PageTyped
<1>6. OneRefresh'
  BY <1>1, <1>2, KeepsRefresh
<1>7. call[q].kind \notin {"restore", "none"} /\ (call[q].kind = "me" => step = "answered")
  BY DEF PageInv, CallsSound, TokensValid
<1>8. CallsSound'
  BY <1>1, <1>2, <1>4, <1>7 DEF PageInv, CallsSound, Busy
<1>9. /\ \A d : Ended(d) => Ended(d)'
      /\ \A d : Fresh(d) => Fresh(d)'
  BY <1>3 DEF Fresh, Ended
<1>10. CookiesFresh'
  BY <1>1, <1>2, <1>3, <1>7, <1>9 DEF PageInv, CookiesFresh, Refreshing
<1>11. TokensValid'
  BY <1>1, <1>2, <1>7 DEF PageInv, TokensValid, Valid
<1>12. DraftsOnce'
  <2>1. CASE step = "answered" /\ call[q].kind = "draft"
    <3>1. page.form /\ \A p \in Calls : call[p].kind = "draft" => p = q
      BY <2>1 DEF PageInv, DraftsOnce
    <3>2. page.drafts = 0
      BY <3>1 DEF PageInv, DraftsOnce
    <3>3. QED BY <1>1, <1>2, <1>4, <2>1, <3>1, <3>2 DEF DraftsOnce
  <2>2. CASE ~(step = "answered" /\ call[q].kind = "draft")
    BY <1>1, <1>2, <1>4, <2>2 DEF PageInv, DraftsOnce
  <2>3. QED BY <2>1, <2>2
<1>13. QED BY <1>5, <1>6, <1>8, <1>10, <1>11, <1>12 DEF PageInv

LEMMA Serve ==
  ASSUME PageInv, NEW q \in Calls, serve(q)
  PROVE  PageInv'
<1>0. call[q].step = "sent" /\ UNCHANGED <<stale, jar, access, refreshing, refreshes, smooth>>
  BY DEF serve
<1>1. CASE /\ call[q].kind = "login" /\ NextNumber
           /\ served' = Append(served, [secret |-> issued', over |-> FALSE, reused |-> FALSE])
           /\ PutCall(q, [call[q] EXCEPT !.step = "answered", !.token = issued',
                                         !.cookie = [sid |-> Len(served'), secret |-> issued']])
           /\ UNCHANGED page
  <2>1. PICK n \in Nat : n = issued + 1 /\ issued' = n
    BY <1>1 DEF PageInv, PageTyped, NextNumber
  <2>2. PICK s : s = [secret |-> n, over |-> FALSE, reused |-> FALSE]
    OBVIOUS
  <2>3. s \in ServedRow /\ s.secret = n /\ s.reused = FALSE /\ served' = Append(served, s)
    BY <1>1, <2>1, <2>2 DEF ServedRow
  <2>4. PICK d : d = [sid |-> Len(served'), secret |-> n]
    OBVIOUS
  <2>5. d \in CookieRow
    <3>1. Len(served') \in Nat
      BY <2>3 DEF PageInv, PageTyped
    <3>2. QED BY <2>4, <3>1 DEF CookieRow
  <2>6. PICK old \in CallRow : old = call[q]
    BY Typed
  <2>7. PICK c : c = [old EXCEPT !.step = "answered", !.token = n, !.cookie = d]
    OBVIOUS
  <2>8. c \in CallRow /\ c.step = "answered" /\ c.kind = old.kind /\ c.retry = old.retry /\ c.cookie = d
    BY <2>5, <2>6, <2>7 DEF CallRow
  <2>9. PutCall(q, c)
    BY <1>1, <2>1, <2>4, <2>6, <2>7
  <2>10. QED BY <1>0, <1>1, <2>1, <2>3, <2>4, <2>6, <2>8, <2>9, ServesSignIn
<1>2. CASE /\ IF call[q].kind = "login" THEN ~call[q].ok ELSE ~Valid(call[q].token)
           /\ Served(q, "unauthorized") /\ UNCHANGED <<served, issued, page>>
  BY <1>0, <1>2, ServesCall
<1>3. CASE /\ call[q].kind # "login" /\ Served(q, "answered") /\ UNCHANGED issued
           /\ served' = IF call[q].kind = "logout" /\ call[q].cookie # NoCookie
                        THEN [served EXCEPT ![call[q].cookie.sid].over = TRUE] ELSE served
           /\ page' = IF call[q].kind = "draft" THEN [page EXCEPT !.drafts = @ + 1] ELSE page
  <2>1. PICK s : s = call[q].cookie.sid
    OBVIOUS
  <2>2. served' = served \/ served' = [served EXCEPT ![s].over = TRUE]
    BY <1>3, <2>1
  <2>3. s \notin DOMAIN served => [served EXCEPT ![s].over = TRUE] = served
    BY DEF PageInv, PageTyped
  <2>4. served' = served \/ \E t \in DOMAIN served : served' = [served EXCEPT ![t].over = TRUE]
    BY <2>2, <2>3
  <2>5. QED BY <1>0, <1>3, <2>4, ServesCall
<1>4. QED BY <1>1, <1>2, <1>3 DEF serve

LEMMA ExpireTokens ==
  ASSUME PageInv, expireTokens
  PROVE  PageInv'
<1>0. /\ stale' = issued
      /\ \A q \in Calls : call[q].step = "none" \/ (~call[q].retry /\ call[q].kind \notin {"restore", "me"})
      /\ served' = served /\ issued' = issued /\ jar' = jar /\ access' = access
      /\ refreshing' = refreshing /\ refreshes' = refreshes /\ call' = call /\ page' = page
  BY DEF expireTokens
<1>1. \A q \in Calls : call[q].step \notin {"waiting", "posted"}
  BY <1>0 DEF PageInv, OneRefresh, CallsSound
<1>2. \A i \in DOMAIN refreshes : refreshes[i].step # "rotated"
  BY <1>1, NoRefresh DEF Refreshing
<1>3. TokensValid'
  BY <1>0, <1>2 DEF PageInv, PageTyped, TokensValid, Valid
<1>4. PageTyped'
  BY <1>0 DEF PageInv, PageTyped
<1>5. OneRefresh' /\ CallsSound' /\ CookiesFresh' /\ DraftsOnce'
  BY <1>0 DEF PageInv, OneRefresh, CallsSound, CookiesFresh, DraftsOnce, Refreshing, Busy, Fresh, Ended
<1>6. QED BY <1>3, <1>4, <1>5 DEF PageInv

LEMMA EndSession ==
  ASSUME PageInv, endSession
  PROVE  PageInv'
<1>0. /\ issued' = issued /\ stale' = stale /\ jar' = jar /\ access' = access
      /\ refreshing' = refreshing /\ refreshes' = refreshes /\ call' = call /\ page' = page
  BY DEF endSession
<1>1. PICK s \in DOMAIN served : served' = [served EXCEPT ![s].over = TRUE]
  BY DEF endSession
<1>2. PICK old \in ServedRow : old = served[s]
  BY Typed
<1>3. PICK new : new = [old EXCEPT !.over = TRUE]
  OBVIOUS
<1>4. new \in ServedRow /\ new.over /\ new.secret = old.secret /\ new.reused = old.reused
  BY <1>2, <1>3 DEF ServedRow
<1>5. served' = [served EXCEPT ![s] = new] /\ served \in Seq(ServedRow)
  BY <1>1, <1>2, <1>3 DEF PageInv, PageTyped
<1>6. /\ served' \in Seq(ServedRow) /\ DOMAIN served' = DOMAIN served
      /\ \A t \in DOMAIN served :
           /\ served'[t].secret = served[t].secret /\ served'[t].reused = served[t].reused
           /\ served[t].over => served'[t].over
  BY <1>2, <1>4, <1>5
<1>7. /\ \A d : Ended(d) => Ended(d)'
      /\ \A d : Fresh(d) => Fresh(d)'
  BY <1>6 DEF Fresh, Ended
<1>8. PageTyped'
  BY <1>0, <1>6 DEF PageInv, PageTyped
<1>9. CookiesFresh'
  BY <1>0, <1>6, <1>7 DEF PageInv, CookiesFresh, Refreshing
<1>10. OneRefresh' /\ CallsSound' /\ TokensValid' /\ DraftsOnce'
  BY <1>0 DEF PageInv, OneRefresh, CallsSound, TokensValid, DraftsOnce, Refreshing, Busy, Valid
<1>11. QED BY <1>8, <1>9, <1>10 DEF PageInv
-----------------------------------------------------------------------------
(* Answers *)

\* The rows after a refresh has been answered.
LEMMA DoneRows ==
  ASSUME PageInv, NEW i \in DOMAIN refreshes
  PROVE  /\ Done(i) \in Seq(RefreshRow) /\ DOMAIN Done(i) = DOMAIN refreshes /\ Len(Done(i)) = Len(refreshes)
         /\ Done(i)[i].step = "done" /\ \A j \in DOMAIN refreshes : j # i => Done(i)[j] = refreshes[j]
<1>1. PICK row \in RefreshRow : row = [Refresh("none", NoCookie) EXCEPT !.step = "done"] /\ row.step = "done"
  <2>1. PICK by \in {"page", "all"}, cookie \in CookieRow : by = "page" /\ cookie = jar
    BY DEF PageInv, PageTyped
  <2>2. QED BY <2>1, RefreshRows
<1>2. Done(i) = [refreshes EXCEPT ![i] = row]
  BY <1>1 DEF Done
<1>3. PICK rows : rows = [refreshes EXCEPT ![i] = row]
  OBVIOUS
<1>4. refreshes \in Seq(RefreshRow) /\ i \in 1..Len(refreshes)
  BY DEF PageInv, PageTyped
<1>5. /\ rows \in Seq(RefreshRow) /\ DOMAIN rows = DOMAIN refreshes /\ rows[i] = row
      /\ \A j \in DOMAIN refreshes : j # i => rows[j] = refreshes[j]
  BY <1>3, <1>4
<1>6. Len(rows) = Len(refreshes)
  BY <1>3, <1>4
<1>7. QED BY <1>1, <1>2, <1>3, <1>5, <1>6

\* What the page is after calls of these kinds are rejected.
LEMMA PagesAfter ==
  ASSUME PageInv, NEW kinds, page' = PageAfter(kinds)
  PROVE  /\ page' \in PageRow /\ page'.form = page.form /\ page'.drafts = page.drafts
         /\ page'.loading <=> page.loading /\ kinds \cap {"restore", "me"} = {}
<1>1. PICK old \in PageRow : old = page
  BY DEF PageInv, PageTyped
<1>2. PICK l \in BOOLEAN : l = (old.loading /\ ~(kinds \cap {"restore", "me"} # {}))
  OBVIOUS
<1>3. PICK u \in BOOLEAN : u = (old.user /\ ~(kinds \cap {"restore", "me", "logout"} # {}))
  OBVIOUS
<1>4. page' = [old EXCEPT !.loading = l, !.user = u]
  BY <1>1, <1>2, <1>3 DEF PageAfter
<1>5. page' \in PageRow /\ page'.form = old.form /\ page'.drafts = old.drafts /\ page'.loading = l
  BY <1>4 DEF PageRow
<1>6. QED BY <1>1, <1>2, <1>5

\* A call is rejected that was alone: a sign-in, or the one that restores.
LEMMA Rejects ==
  ASSUME PageInv, NEW q \in Calls, call[q].step = "unauthorized", call[q].retry, Reject(q)
  PROVE  PageInv'
<1>0. /\ PutCall(q, Rejection(call[q])) /\ page' = PageAfter({call[q].kind}) /\ access' = AccessAfter({call[q].kind})
      /\ served' = served /\ issued' = issued /\ stale' = stale /\ jar' = jar
      /\ refreshing' = refreshing /\ refreshes' = refreshes
  BY DEF Reject, serverSide
<1>1. PICK c \in CallRow : /\ c = Rejection(call[q]) /\ c.step = "rejected" /\ c.kind = call[q].kind /\ c.retry = FALSE
                           /\ PutCall(q, c)
  BY <1>0, CallRows
<1>2. call' \in [Calls -> CallRow] /\ call'[q] = c /\ \A p \in Calls : p # q => call'[p] = call[p]
  BY <1>1, PutsCall
<1>3. call[q].kind \in {"login", "restore"}
  BY DEF PageInv, TokensValid
<1>4. \A p \in Calls : p # q => call[p].step = "none" /\ call[p].kind = "none"
  BY <1>3 DEF PageInv, CallsSound, Busy
<1>5. page' \in PageRow /\ page'.form = page.form /\ page'.drafts = page.drafts /\ ~page'.loading
  <2>1. page.loading => call[q].kind = "restore"
    BY <1>3 DEF PageInv, CallsSound, Busy
  <2>2. QED BY <1>0, <2>1, PagesAfter
<1>6. access' \in Nat
  BY <1>0 DEF AccessAfter, PageInv, PageTyped
<1>7. PageTyped'
  BY <1>0, <1>2, <1>5, <1>6 DEF PageInv, PageTyped
<1>8. OneRefresh'
  BY <1>0, <1>1, <1>2, KeepsRefresh
<1>9. CallsSound'
  BY <1>1, <1>2, <1>3, <1>4, <1>5 DEF CallsSound, Busy
<1>10. CookiesFresh'
  BY <1>0, <1>1, <1>2 DEF PageInv, CookiesFresh, Refreshing, Fresh, Ended
<1>11. TokensValid'
  BY <1>0, <1>1, <1>2 DEF PageInv, TokensValid, Valid
<1>12. DraftsOnce'
  BY <1>1, <1>2, <1>3, <1>4, <1>5 DEF PageInv, DraftsOnce
<1>13. QED BY <1>7, <1>8, <1>9, <1>10, <1>11, <1>12 DEF PageInv

\* A call waits for the refresh under way, or for one that it sends.
LEMMA Waits ==
  ASSUME PageInv, NEW q \in Calls, call[q].step = "unauthorized", ~call[q].retry, retryRefreshed(q)
  PROVE  PageInv'
<1>0. /\ served' = served /\ issued' = issued /\ stale' = stale /\ jar' = jar /\ access' = access /\ page' = page
      /\ PutCall(q, [call[q] EXCEPT !.step = "waiting", !.retry = TRUE, !.on = refreshing'])
  BY DEF retryRefreshed, serverSide
<1>1. PICK n \in Nat : n = Len(refreshes) + 1 /\ n \notin DOMAIN refreshes /\ n # 0
  BY Typed
<1>2. PICK row \in RefreshRow : row = Refresh("all", jar) /\ row.step = "sent" /\ row.by = "all" /\ row.cookie = jar
  BY RefreshRows DEF PageInv, PageTyped
<1>3. refreshing = 0 =>
        /\ refreshes' \in Seq(RefreshRow) /\ DOMAIN refreshes' = DOMAIN refreshes \cup {n}
        /\ refreshes'[n] = row /\ \A j \in DOMAIN refreshes : refreshes'[j] = refreshes[j]
        /\ refreshing' = n
  <2>1. SUFFICES ASSUME refreshing = 0
                 PROVE  /\ refreshes' \in Seq(RefreshRow) /\ DOMAIN refreshes' = DOMAIN refreshes \cup {n}
                        /\ refreshes'[n] = row /\ \A j \in DOMAIN refreshes : refreshes'[j] = refreshes[j]
                        /\ refreshing' = n
    OBVIOUS
  <2>2. refreshes' = Append(refreshes, row) /\ refreshing' = Len(refreshes')
    BY <1>2, <2>1 DEF retryRefreshed, SendRefresh
  <2>3. QED BY <1>1, <2>2, AddsRefresh DEF PageInv, PageTyped
<1>4. refreshing # 0 => refreshes' = refreshes /\ refreshing' = refreshing
  BY DEF retryRefreshed
<1>5. refreshing' \in Nat /\ refreshing' # 0
  BY <1>1, <1>3, <1>4 DEF PageInv, PageTyped
<1>6. PICK c \in CallRow : PutCall(q, c) /\ c.step = "waiting" /\ c.kind = call[q].kind /\ c.retry /\ c.on = refreshing'
  <2>1. PICK old \in CallRow : old = call[q]
    BY Typed
  <2>2. PICK c : c = [old EXCEPT !.step = "waiting", !.retry = TRUE, !.on = refreshing']
    OBVIOUS
  <2>3. c \in CallRow /\ c.step = "waiting" /\ c.kind = old.kind /\ c.retry /\ c.on = refreshing'
    BY <1>5, <2>2 DEF CallRow
  <2>4. PutCall(q, c)
    BY <1>0, <2>1, <2>2
  <2>5. QED BY <2>1, <2>3, <2>4
<1>7. call' \in [Calls -> CallRow] /\ call'[q] = c /\ \A p \in Calls : p # q => call'[p] = call[p]
  BY <1>6, PutsCall
<1>8. refreshing = 0 => (\A i \in DOMAIN refreshes : ~Refreshing(i)) /\ Fresh(jar)
  <2>1. ASSUME refreshing = 0, NEW i \in DOMAIN refreshes, Refreshing(i)
        PROVE  FALSE
    <3>1. i # 0
      BY Typed
    <3>2. PICK p \in Calls : call[p].step = "posted"
      BY <2>1, <3>1 DEF PageInv, OneRefresh
    <3>3. q = p
      BY <3>2 DEF PageInv, CallsSound, Busy
    <3>4. QED BY <3>2, <3>3
  <2>2. (\A i \in DOMAIN refreshes : ~Refreshing(i)) => Fresh(jar)
    BY DEF PageInv, CookiesFresh, Refreshing
  <2>3. QED BY <2>1, <2>2
<1>9. PageTyped'
  BY <1>0, <1>3, <1>4, <1>5, <1>7 DEF PageInv, PageTyped
<1>10. OneRefresh'
  <2>1. CASE refreshing = 0
    <3>1. \A p \in Calls : call[p].step \notin {"waiting", "posted"}
      BY <1>8, <2>1 DEF PageInv, OneRefresh
    <3>2. QED BY <1>1, <1>2, <1>3, <1>6, <1>7, <1>8, <2>1, <3>1 DEF OneRefresh, Refreshing
  <2>2. CASE refreshing # 0
    <3>1. \A p \in Calls : call[p].step \in {"waiting", "posted"} => call'[p] = call[p]
      BY <1>7
    <3>2. QED BY <1>4, <1>6, <1>7, <2>2, <3>1 DEF PageInv, OneRefresh, Refreshing
  <2>3. QED BY <2>1, <2>2
<1>11. CallsSound'
  BY <1>0, <1>6, <1>7 DEF PageInv, CallsSound, Busy
<1>12. CookiesFresh'
  <2>1. CASE refreshing = 0
    BY <1>0, <1>2, <1>3, <1>6, <1>7, <1>8, <2>1 DEF PageInv, CookiesFresh, Refreshing, Fresh, Ended
  <2>2. CASE refreshing # 0
    BY <1>0, <1>4, <1>6, <1>7, <2>2 DEF PageInv, CookiesFresh, Refreshing, Fresh, Ended
  <2>3. QED BY <2>1, <2>2
<1>13. TokensValid'
  BY <1>0, <1>2, <1>3, <1>4, <1>6, <1>7 DEF PageInv, TokensValid, Valid
<1>14. DraftsOnce'
  BY <1>0, <1>6, <1>7 DEF PageInv, DraftsOnce
<1>15. QED BY <1>9, <1>10, <1>11, <1>12, <1>13, <1>14 DEF PageInv

LEMMA Unauthorized ==
  ASSUME PageInv, NEW q \in Calls, unauthorized(q)
  PROVE  PageInv'
<1>1. CASE call[q].retry
  BY <1>1, Rejects DEF unauthorized
<1>2. CASE ~call[q].retry
  BY <1>2, Waits DEF unauthorized
<1>3. QED BY <1>1, <1>2

LEMMA Receive ==
  ASSUME PageInv, NEW q \in Calls, receive(q)
  PROVE  PageInv'
<1>0. /\ call[q].step = "answered" /\ PutCall(q, NoCall)
      /\ jar' = IF call[q].kind = "login" THEN call[q].cookie ELSE IF call[q].kind = "logout" THEN NoCookie ELSE jar
      /\ access' = IF call[q].kind = "login" THEN call[q].token ELSE IF call[q].kind = "logout" THEN 0 ELSE access
      /\ served' = served /\ issued' = issued /\ stale' = stale
      /\ refreshing' = refreshing /\ refreshes' = refreshes
  BY DEF receive, serverSide
<1>1. call' \in [Calls -> CallRow] /\ call'[q] = NoCall /\ \A p \in Calls : p # q => call'[p] = call[p]
  BY <1>0, CallRows, PutsCall
<1>2. NoCall.step = "none" /\ NoCall.kind = "none" /\ NoCall.retry = FALSE /\ NoCookie \in CookieRow
  BY CallRows
<1>3. /\ page' \in PageRow /\ page'.loading = (page.loading /\ call[q].kind # "me")
      /\ page'.form = (page.form /\ call[q].kind # "draft") /\ page'.drafts = page.drafts
  <2>1. PICK old \in PageRow : old = page
    BY DEF PageInv, PageTyped
  <2>2. PICK l \in BOOLEAN : l = (old.loading /\ call[q].kind # "me")
    OBVIOUS
  <2>3. PICK u \in BOOLEAN : u = (IF call[q].kind \in {"login", "me"} THEN TRUE ELSE old.user /\ call[q].kind # "logout")
    BY <2>1 DEF PageRow
  <2>4. PICK f \in BOOLEAN : f = (old.form /\ call[q].kind # "draft")
    OBVIOUS
  <2>5. page' = [old EXCEPT !.loading = l, !.user = u, !.form = f]
    BY <2>1, <2>2, <2>3, <2>4 DEF receive
  <2>6. page' \in PageRow /\ page'.loading = l /\ page'.form = f /\ page'.drafts = old.drafts
    BY <2>5 DEF PageRow
  <2>7. QED BY <2>1, <2>2, <2>4, <2>6
<1>4. call[q] \in CallRow
  BY Typed
<1>5. PageTyped'
  <2>1. jar' \in CookieRow /\ access' \in Nat
    BY <1>0, <1>2, <1>4 DEF CallRow, PageInv, PageTyped
  <2>2. QED BY <1>0, <1>1, <1>3, <2>1 DEF PageInv, PageTyped
<1>6. OneRefresh'
  BY <1>0, <1>1, <1>2, KeepsRefresh
<1>7. call[q].kind \in {"restore", "me"} => page.loading
  BY <1>0 DEF PageInv, CallsSound
<1>8. CallsSound'
  BY <1>0, <1>1, <1>2, <1>3, <1>7 DEF PageInv, CallsSound, Busy
<1>9. CookiesFresh'
  <2>1. CASE call[q].kind = "login"
    <3>1. \A p \in Calls : p # q => call[p].step = "none" /\ call[p].kind = "none"
      BY <2>1 DEF PageInv, CallsSound, Busy
    <3>2. \A i \in DOMAIN refreshes : ~Refreshing(i)
      BY <1>0, <3>1, NoRefresh
    <3>3. jar' = call[q].cookie /\ Fresh(call[q].cookie)
      BY <1>0, <2>1 DEF PageInv, CookiesFresh
    <3>4. QED BY <1>0, <1>1, <1>2, <3>1, <3>2, <3>3 DEF PageInv, CookiesFresh, Refreshing, Fresh, Ended
  <2>2. CASE call[q].kind = "logout"
    <3>1. jar' = NoCookie
      BY <1>0, <2>2
    <3>2. QED BY <1>0, <1>1, <1>2, <3>1 DEF PageInv, CookiesFresh, Refreshing, Fresh, Ended
  <2>3. CASE call[q].kind \notin {"login", "logout"}
    <3>1. jar' = jar
      BY <1>0, <2>3
    <3>2. QED BY <1>0, <1>1, <1>2, <3>1 DEF PageInv, CookiesFresh, Refreshing, Fresh, Ended
  <2>4. QED BY <2>1, <2>2, <2>3
<1>10. TokensValid'
  BY <1>0, <1>1, <1>2 DEF PageInv, TokensValid, Valid
<1>11. DraftsOnce'
  BY <1>0, <1>1, <1>2, <1>3 DEF PageInv, DraftsOnce
<1>12. QED BY <1>5, <1>6, <1>8, <1>9, <1>10, <1>11 DEF PageInv

\* The refresh that calls share is the only one, and who waits waits for it;
\* a call that has the page to itself is among them.
LEMMA Shared ==
  ASSUME PageInv, NEW i \in DOMAIN refreshes, Refreshing(i), refreshes[i].by = "all"
  PROVE  /\ \A j \in DOMAIN refreshes : j # i => ~Refreshing(j)
         /\ \A q \in Calls : call[q].step # "posted" /\ (call[q].step = "waiting" <=> q \in Waiting(i))
         /\ \A q \in Waiting(i) :
              /\ q \in Calls /\ call[q].kind \notin {"none", "me"}
              /\ call[q].kind = "restore" => page.loading
              /\ page.loading => call[q].kind = "restore" /\ \A p \in Calls : p # q => call[p].step = "none"
         /\ \A q \in Calls : q \notin Waiting(i) =>
              /\ call[q].kind # "login"
              /\ call[q].kind \in {"restore", "me"} => call[q].step = "rejected"
         /\ page.loading => Waiting(i) # {}
<1>1. \A j \in DOMAIN refreshes : j # i => ~Refreshing(j)
  BY DEF PageInv, OneRefresh
<1>2. refreshing = i
  BY DEF PageInv, OneRefresh
<1>3. \A q \in Calls : call[q].step # "posted" /\ (call[q].step = "waiting" <=> q \in Waiting(i))
  BY <1>1, <1>2 DEF PageInv, OneRefresh, Waiting
<1>4. PICK r \in Calls : call[r].step = "waiting" /\ r \in Waiting(i)
  BY <1>3 DEF PageInv, OneRefresh
<1>5. ASSUME NEW q \in Waiting(i)
      PROVE  /\ q \in Calls /\ call[q].kind \notin {"none", "me"}
             /\ call[q].kind = "restore" => page.loading
             /\ page.loading => call[q].kind = "restore" /\ \A p \in Calls : p # q => call[p].step = "none"
  <2>1. q \in Calls /\ call[q].step = "waiting"
    BY <1>5 DEF Waiting
  <2>2. QED BY <2>1 DEF PageInv, CallsSound, Busy
<1>6. ASSUME NEW q \in Calls, q \notin Waiting(i)
      PROVE  /\ call[q].kind # "login"
             /\ call[q].kind \in {"restore", "me"} => call[q].step = "rejected"
  <2>1. q # r
    BY <1>4, <1>6
  <2>2. QED BY <1>4, <2>1 DEF PageInv, CallsSound, Busy
<1>7. QED BY <1>1, <1>3, <1>4, <1>5, <1>6

\* The refresh is refused: who waits is rejected, and the session is over.
LEMMA RefusesAll ==
  ASSUME PageInv, NEW i \in DOMAIN refreshes, refreshed(i), refreshes[i].step # "rotated"
  PROVE  PageInv' /\ Ended(jar)'
<1>0. /\ refreshes[i].step = "refused" /\ Refreshing(i) /\ refreshes[i].by = "all"
      /\ served' = served /\ issued' = issued /\ stale' = stale /\ jar' = jar /\ access' = 0
      /\ refreshing' = 0 /\ refreshes' = Done(i)
      /\ call' = [q \in Calls |-> IF q \in Waiting(i) THEN Rejection(call[q]) ELSE call[q]]
      /\ page' = PageAfter({call[q].kind : q \in Waiting(i)})
  BY DEF refreshed, serverSide, Refreshing
<1>1. Ended(jar) /\ Ended(jar)'
  <2>1. Ended(jar)
    BY <1>0 DEF PageInv, CookiesFresh, Ended
  <2>2. QED BY <1>0, <2>1 DEF Ended
<1>2. /\ refreshes' \in Seq(RefreshRow) /\ DOMAIN refreshes' = DOMAIN refreshes /\ refreshes'[i].step = "done"
      /\ \A j \in DOMAIN refreshes : j # i => refreshes'[j] = refreshes[j]
  BY <1>0, DoneRows
<1>3. \A j \in DOMAIN refreshes' : ~(Refreshing(j)')
  BY <1>0, <1>2, Shared DEF Refreshing
<1>4. /\ call' \in [Calls -> CallRow]
      /\ \A q \in Calls : /\ q \in Waiting(i) => call'[q].step = "rejected" /\ call'[q].kind = call[q].kind
                                                 /\ call'[q].retry = FALSE
                          /\ q \notin Waiting(i) => call'[q] = call[q]
  <2>1. \A q \in Calls : call[q] \in CallRow
    BY Typed
  <2>2. QED BY <1>0, <2>1, CallRows
<1>5. page' \in PageRow /\ page'.form = page.form /\ page'.drafts = page.drafts /\ ~page'.loading
  <2>1. page.loading => {call[q].kind : q \in Waiting(i)} \cap {"restore", "me"} # {}
    BY <1>0, Shared
  <2>2. QED BY <1>0, <2>1, PagesAfter
<1>6. \A q \in Calls : call'[q].step \notin {"waiting", "posted"}
  BY <1>0, <1>4, Shared
<1>7. PageTyped'
  BY <1>0, <1>2, <1>4, <1>5 DEF PageInv, PageTyped
<1>8. OneRefresh'
  BY <1>0, <1>3, <1>6 DEF OneRefresh
<1>9. CallsSound'
  <2>1. \A q \in Calls : /\ Busy(q)' => Busy(q)
                         /\ call'[q].kind = call[q].kind
                         /\ call'[q].kind \in {"restore", "me"} => call'[q].step = "rejected"
    BY <1>0, <1>4, Shared DEF Busy
  <2>2. \A q \in Waiting(i) : q \in Calls /\ call[q].kind # "none" /\ call[q].step = "waiting"
    BY <1>0, Shared
  <2>3. QED BY <1>4, <1>5, <1>6, <2>1, <2>2 DEF PageInv, CallsSound, Busy
<1>10. CookiesFresh'
  <2>1. \A q \in Calls : /\ ~(call'[q].kind = "login" /\ call'[q].step = "answered")
                         /\ ~(call'[q].kind = "restore" /\ call'[q].step = "unauthorized")
    BY <1>0, <1>4, Shared
  <2>2. Fresh(jar)' /\ \A s \in DOMAIN served' : ~served'[s].reused
    BY <1>0, <1>1 DEF PageInv, CookiesFresh, Fresh
  <2>3. QED BY <1>3, <2>1, <2>2 DEF CookiesFresh
<1>11. TokensValid'
  BY <1>0, <1>2, <1>4 DEF PageInv, TokensValid, Valid
<1>12. DraftsOnce'
  <2>1. \A q \in Calls : /\ call'[q].kind = call[q].kind
                         /\ call[q].step = "answered" => call'[q].step = "answered"
    BY <1>0, <1>4, Shared
  <2>2. QED BY <1>5, <2>1 DEF PageInv, DraftsOnce
<1>13. QED BY <1>1, <1>7, <1>8, <1>9, <1>10, <1>11, <1>12 DEF PageInv

\* The cookie and the token of a refresh that was answered with new ones.
LEMMA Rotated ==
  ASSUME PageInv, NEW i \in DOMAIN refreshes, refreshes[i].step = "rotated"
  PROVE  /\ refreshes[i].gives \in Nat /\ Valid(refreshes[i].gives)
         /\ [sid |-> refreshes[i].cookie.sid, secret |-> refreshes[i].gives] \in CookieRow
         /\ Fresh([sid |-> refreshes[i].cookie.sid, secret |-> refreshes[i].gives])
<1>1. refreshes[i] \in RefreshRow
  BY Typed
<1>2. [sid |-> refreshes[i].cookie.sid, secret |-> refreshes[i].gives] \in CookieRow /\ refreshes[i].gives \in Nat
  BY <1>1 DEF RefreshRow, CookieRow
<1>3. Fresh([sid |-> refreshes[i].cookie.sid, secret |-> refreshes[i].gives])
  BY DEF PageInv, CookiesFresh, Refreshing
<1>4. QED BY <1>2, <1>3 DEF PageInv, TokensValid

\* Everyone who waits is sent again with the new token.
LEMMA SendsAgain ==
  ASSUME PageInv, NEW i \in DOMAIN refreshes, refreshed(i), refreshes[i].step = "rotated",
         {q \in Waiting(i) : call[q].kind = "restore"} = {}
  PROVE  PageInv' /\ \A q \in Calls : call'[q].step = "rejected" => call[q].step = "rejected"
<1>0. /\ Refreshing(i) /\ refreshes[i].by = "all"
      /\ served' = served /\ issued' = issued /\ stale' = stale /\ page' = page
      /\ refreshing' = 0 /\ refreshes' = Done(i)
      /\ jar' = [sid |-> refreshes[i].cookie.sid, secret |-> refreshes[i].gives] /\ access' = refreshes[i].gives
      /\ call' = [q \in Calls |-> IF q \in Waiting(i) THEN Resend(call[q], refreshes[i].gives, jar') ELSE call[q]]
  BY DEF refreshed, serverSide, Refreshing
<1>1. PICK t \in Nat : t = refreshes[i].gives /\ Valid(t)
  BY Rotated
<1>2. jar' \in CookieRow /\ Fresh(jar')
  BY <1>0, Rotated
<1>3. /\ refreshes' \in Seq(RefreshRow) /\ DOMAIN refreshes' = DOMAIN refreshes /\ refreshes'[i].step = "done"
      /\ \A j \in DOMAIN refreshes : j # i => refreshes'[j] = refreshes[j]
  BY <1>0, DoneRows
<1>4. \A j \in DOMAIN refreshes' : ~(Refreshing(j)') /\ refreshes'[j].step # "rotated"
  BY <1>0, <1>3, Shared DEF Refreshing
<1>5. ASSUME NEW q \in Calls
      PROVE  /\ Resend(call[q], t, jar') \in CallRow
             /\ Resend(call[q], t, jar').step = "sent" /\ Resend(call[q], t, jar').kind = call[q].kind
             /\ Resend(call[q], t, jar').token = t
  <2>1. PICK old \in CallRow : old = call[q]
    BY Typed
  <2>2. PICK c : c = [old EXCEPT !.step = "sent", !.token = t, !.cookie = jar']
    OBVIOUS
  <2>3. c \in CallRow /\ c.step = "sent" /\ c.kind = old.kind /\ c.token = t
    BY <1>2, <2>2 DEF CallRow
  <2>4. QED BY <2>1, <2>2, <2>3 DEF Resend
<1>6. /\ call' \in [Calls -> CallRow]
      /\ \A q \in Calls : /\ call'[q].kind = call[q].kind
                          /\ q \in Waiting(i) => call'[q].step = "sent" /\ call'[q].token = t
                          /\ q \notin Waiting(i) => call'[q] = call[q]
  <2>1. \A q \in Calls : call[q] \in CallRow
    BY Typed
  <2>2. QED BY <1>0, <1>1, <1>5, <2>1
<1>7. \A q \in Calls : call'[q].step \notin {"waiting", "posted"}
  BY <1>0, <1>6, Shared
<1>8. ~page.loading
  BY <1>0, Shared
<1>9. PageTyped'
  BY <1>0, <1>1, <1>2, <1>3, <1>6 DEF PageInv, PageTyped
<1>10. OneRefresh'
  BY <1>0, <1>4, <1>7 DEF OneRefresh
<1>11. CallsSound'
  <2>1. \A q \in Calls : q \in Waiting(i) => call[q].step = "waiting" /\ call[q].kind \notin {"none", "restore", "me"}
    BY <1>0, <1>8, Shared
  <2>2. \A q \in Calls : Busy(q)' => Busy(q)
    BY <1>6, <2>1 DEF Busy
  <2>3. QED BY <1>0, <1>6, <1>8, <2>1, <2>2 DEF PageInv, CallsSound, Busy
<1>12. CookiesFresh'
  <2>1. \A q \in Calls : /\ ~(call'[q].kind = "login" /\ call'[q].step = "answered")
                         /\ ~(call'[q].kind = "restore" /\ call'[q].step = "unauthorized")
    BY <1>0, <1>6, Shared
  <2>2. Fresh(jar)' /\ \A s \in DOMAIN served' : ~served'[s].reused
    BY <1>0, <1>2 DEF PageInv, CookiesFresh, Fresh, Ended
  <2>3. QED BY <1>4, <2>1, <2>2 DEF CookiesFresh
<1>13. TokensValid'
  BY <1>0, <1>1, <1>4, <1>6 DEF PageInv, TokensValid, Valid
<1>14. \A q \in Calls : call[q].step = "answered" => call'[q].step = "answered"
  BY <1>0, <1>6, Shared
<1>15. DraftsOnce'
  BY <1>0, <1>6, <1>14 DEF PageInv, DraftsOnce
<1>16. QED BY <1>6, <1>9, <1>10, <1>11, <1>12, <1>13, <1>15 DEF PageInv

\* The refresh that restores the page was refused once, and is sent again.
LEMMA RestoresAgain ==
  ASSUME PageInv, NEW i \in DOMAIN refreshes, refreshed(i), refreshes[i].step = "rotated",
         NEW r \in Waiting(i), call[r].kind = "restore"
  PROVE  PageInv' /\ \A q \in Calls : call'[q].step = "rejected" => call[q].step = "rejected"
<1>0. /\ Refreshing(i) /\ refreshes[i].by = "all"
      /\ served' = served /\ issued' = issued /\ stale' = stale /\ page' = page /\ refreshing' = 0
      /\ jar' = [sid |-> refreshes[i].cookie.sid, secret |-> refreshes[i].gives] /\ access' = refreshes[i].gives
      /\ refreshes' = Append(Done(i), Refresh("page", jar'))
  BY DEF refreshed, serverSide, Refreshing
<1>1. /\ r \in Calls /\ call[r].step = "waiting" /\ page.loading
      /\ \A p \in Calls : p # r => call[p].step = "none" /\ call[p].kind = "none"
  <2>1. r \in Calls /\ page.loading /\ \A p \in Calls : p # r => call[p].step = "none"
    BY <1>0, Shared
  <2>2. QED BY <1>0, <2>1, Shared DEF PageInv, CallsSound
<1>2. jar' \in CookieRow /\ Fresh(jar') /\ access' \in Nat
  BY <1>0, Rotated
<1>3. PICK row \in RefreshRow : row = Refresh("page", jar') /\ row.step = "sent" /\ row.by = "page" /\ row.cookie = jar'
  BY <1>2, RefreshRows
<1>4. PICK n \in Nat : n = Len(Done(i)) + 1 /\ n \notin DOMAIN refreshes /\ n = Len(refreshes')
  <2>1. Len(Done(i)) = Len(refreshes)
    BY DoneRows
  <2>2. Len(refreshes') = Len(Done(i)) + 1
    BY <1>0, <1>3, DoneRows, AddsRefresh
  <2>3. QED BY <2>1, <2>2, Typed
<1>5. /\ refreshes' \in Seq(RefreshRow) /\ DOMAIN refreshes' = DOMAIN refreshes \cup {n} /\ refreshes'[n] = row
      /\ refreshes'[i].step = "done" /\ \A j \in DOMAIN refreshes : j # i => refreshes'[j] = refreshes[j]
  <2>1. /\ refreshes' \in Seq(RefreshRow) /\ DOMAIN refreshes' = DOMAIN Done(i) \cup {n}
        /\ refreshes'[n] = row /\ \A j \in DOMAIN Done(i) : refreshes'[j] = Done(i)[j]
    BY <1>0, <1>3, <1>4, DoneRows, AddsRefresh
  <2>2. QED BY <2>1, DoneRows
<1>6. PICK c \in CallRow : /\ c = [call[r] EXCEPT !.step = "posted", !.on = Len(refreshes')]
                           /\ c.step = "posted" /\ c.kind = "restore" /\ c.on = n
  <2>1. PICK old \in CallRow : old = call[r]
    BY <1>1, Typed
  <2>2. PICK c : c = [old EXCEPT !.step = "posted", !.on = n]
    OBVIOUS
  <2>3. c \in CallRow /\ c.step = "posted" /\ c.kind = old.kind /\ c.on = n
    BY <2>2 DEF CallRow
  <2>4. QED BY <1>4, <2>1, <2>2, <2>3
<1>7. call' \in [Calls -> CallRow] /\ call'[r] = c /\ \A p \in Calls : p # r => call'[p] = call[p]
  <2>1. call' = [q \in Calls |->
                   IF q \in {p \in Waiting(i) : call[p].kind = "restore"}
                   THEN [call[q] EXCEPT !.step = "posted", !.on = Len(refreshes')]
                   ELSE IF q \in Waiting(i) THEN Resend(call[q], refreshes[i].gives, jar') ELSE call[q]]
    BY DEF refreshed
  <2>2. call'[r] = c
    BY <1>1, <1>6, <2>1
  <2>3. \A p \in Calls : p # r => p \notin Waiting(i)
    BY <1>1 DEF Waiting
  <2>4. \A p \in Calls : p # r => call'[p] = call[p]
    BY <2>1, <2>3
  <2>5. \A p \in Calls : call[p] \in CallRow
    BY Typed
  <2>6. \A p \in Calls : call'[p] \in CallRow
    BY <2>2, <2>4, <2>5
  <2>7. QED BY <2>1, <2>2, <2>4, <2>6
<1>8. \A j \in DOMAIN refreshes : ~(Refreshing(j)') /\ refreshes'[j].step # "rotated" /\ j # n
  BY <1>0, <1>4, <1>5, Shared DEF Refreshing
<1>9. \A p \in Calls : p # r => call'[p].step = "none" /\ call'[p].kind = "none"
  BY <1>1, <1>7
<1>10. PageTyped'
  BY <1>0, <1>2, <1>5, <1>7 DEF PageInv, PageTyped
<1>11. OneRefresh'
  <2>1. \A j \in DOMAIN refreshes' : Refreshing(j)' => j = n
    BY <1>5, <1>8
  <2>2. n \in DOMAIN refreshes' /\ Refreshing(n)' /\ refreshes'[n].by = "page"
    BY <1>3, <1>5 DEF Refreshing
  <2>3. \A q \in Calls : call'[q].step # "waiting" /\ (call'[q].step = "posted" => q = r)
    BY <1>6, <1>7, <1>9
  <2>4. r \in Calls /\ call'[r].step = "posted" /\ call'[r].on = n
    BY <1>1, <1>6, <1>7
  <2>5. QED BY <1>0, <2>1, <2>2, <2>3, <2>4 DEF OneRefresh
<1>12. CallsSound'
  <2>1. call'[r].step = "posted" /\ call'[r].kind = "restore" /\ page'.loading
    BY <1>0, <1>1, <1>6, <1>7
  <2>2. QED BY <1>1, <1>9, <2>1 DEF CallsSound, Busy
<1>13. CookiesFresh'
  <2>1. Fresh(jar)' /\ \A s \in DOMAIN served' : ~served'[s].reused
    BY <1>0, <1>2 DEF PageInv, CookiesFresh, Fresh, Ended
  <2>2. \A q \in Calls : call'[q].kind = "restore" => call'[q].step = "posted"
    BY <1>6, <1>7, <1>9
  <2>3. \A q \in Calls : call'[q].kind # "login"
    BY <1>6, <1>7, <1>9
  <2>4. QED BY <1>3, <1>5, <1>8, <2>1, <2>2, <2>3 DEF CookiesFresh
<1>14. TokensValid'
  <2>1. \A q \in Calls : call'[q].step \notin {"sent", "unauthorized"}
    BY <1>6, <1>7, <1>9
  <2>2. \A j \in DOMAIN refreshes' : refreshes'[j].step # "rotated"
    BY <1>3, <1>5, <1>8
  <2>3. QED BY <1>0, <2>1, <2>2 DEF PageInv, TokensValid
<1>15. DraftsOnce'
  BY <1>0, <1>1, <1>6, <1>7, <1>9 DEF PageInv, DraftsOnce
<1>16. QED BY <1>6, <1>7, <1>10, <1>11, <1>12, <1>13, <1>14, <1>15 DEF PageInv

LEMMA Restored ==
  ASSUME PageInv, NEW q \in Calls, restored(q)
  PROVE  PageInv' /\ \A p \in Calls : call'[p].step = "rejected" => call[p].step = "rejected"
<1>1. PICK i : i = call[q].on
  OBVIOUS
<1>2. /\ call[q].step = "posted" /\ i \in DOMAIN refreshes /\ Refreshing(i) /\ refreshes[i].by = "page"
      /\ call[q].kind = "restore" /\ page.loading
  BY <1>1 DEF restored, PageInv, OneRefresh, CallsSound
<1>3. /\ served' = served /\ issued' = issued /\ stale' = stale /\ refreshing' = refreshing /\ page' = page
      /\ refreshes' = Done(i) /\ refreshes[i].step \in {"rotated", "refused"}
  BY <1>1 DEF restored, serverSide
<1>4. /\ refreshes' \in Seq(RefreshRow) /\ DOMAIN refreshes' = DOMAIN refreshes /\ refreshes'[i].step = "done"
      /\ \A j \in DOMAIN refreshes : j # i => refreshes'[j] = refreshes[j]
  BY <1>2, <1>3, DoneRows
<1>5. \A j \in DOMAIN refreshes' : ~(Refreshing(j)') /\ refreshes'[j].step # "rotated"
  BY <1>2, <1>4 DEF PageInv, OneRefresh, Refreshing
<1>6. refreshing = 0
  BY <1>2 DEF PageInv, OneRefresh
<1>7. \A p \in Calls : p # q => call[p].step = "none" /\ call[p].kind = "none"
  BY <1>2 DEF PageInv, CallsSound, Busy
<1>8. PICK old \in CallRow : old = call[q]
  BY Typed
<1>9. CASE refreshes[i].step = "rotated"
  <2>1. PICK t \in Nat : t = refreshes[i].gives /\ Valid(t)
    BY <1>2, <1>9, Rotated
  <2>2. jar' = [sid |-> refreshes[i].cookie.sid, secret |-> refreshes[i].gives] /\ access' = t
    BY <1>1, <1>9, <2>1 DEF restored
  <2>3. jar' \in CookieRow /\ Fresh(jar')
    BY <1>2, <1>9, <2>2, Rotated
  <2>4. PICK c : c = [old EXCEPT !.step = "sent", !.kind = "me", !.token = t, !.cookie = jar', !.retry = FALSE]
    OBVIOUS
  <2>5. c \in CallRow /\ c.step = "sent" /\ c.kind = "me" /\ c.token = t /\ c.retry = FALSE
    BY <1>8, <2>3, <2>4 DEF CallRow
  <2>6. PutCall(q, c)
    BY <1>1, <1>8, <1>9, <2>2, <2>4 DEF restored
  <2>7. call' \in [Calls -> CallRow] /\ call'[q] = c /\ \A p \in Calls : p # q => call'[p] = call[p]
    BY <2>5, <2>6, PutsCall
  <2>8. \A p \in Calls : p # q => call'[p].step = "none" /\ call'[p].kind = "none"
    BY <1>7, <2>7
  <2>9. PageTyped'
    BY <1>3, <1>4, <2>2, <2>1, <2>3, <2>7 DEF PageInv, PageTyped
  <2>10. OneRefresh'
    <3>1. \A p \in Calls : call'[p].step \notin {"waiting", "posted"}
      BY <2>5, <2>7, <2>8
    <3>2. QED BY <1>3, <1>5, <1>6, <3>1 DEF OneRefresh
  <2>11. CallsSound'
    BY <1>2, <1>3, <2>5, <2>7, <2>8 DEF CallsSound, Busy
  <2>12. CookiesFresh'
    <3>1. Fresh(jar)' /\ \A s \in DOMAIN served' : ~served'[s].reused
      BY <1>3, <2>3 DEF PageInv, CookiesFresh, Fresh, Ended
    <3>2. \A p \in Calls : call'[p].kind \notin {"restore", "login"}
      BY <2>5, <2>7, <2>8
    <3>3. QED BY <1>5, <3>1, <3>2 DEF CookiesFresh
  <2>13. TokensValid'
    BY <1>3, <1>5, <2>1, <2>5, <2>7, <2>8 DEF PageInv, TokensValid, Valid
  <2>14. DraftsOnce'
    BY <1>2, <1>3, <1>7, <2>5, <2>7, <2>8 DEF PageInv, DraftsOnce
  <2>15. QED BY <2>5, <2>7, <2>9, <2>10, <2>11, <2>12, <2>13, <2>14 DEF PageInv
<1>10. CASE refreshes[i].step = "refused"
  <2>1. jar' = jar /\ access' = access /\ Served(q, "unauthorized")
    BY <1>1, <1>10 DEF restored
  <2>2. Ended(jar)
    BY <1>2, <1>10 DEF PageInv, CookiesFresh, Ended
  <2>3. PICK c : c = [old EXCEPT !.step = "unauthorized"]
    OBVIOUS
  <2>4. c \in CallRow /\ c.step = "unauthorized" /\ c.kind = "restore"
    BY <1>2, <1>8, <2>3 DEF CallRow
  <2>5. PutCall(q, c)
    BY <1>8, <2>1, <2>3 DEF Served
  <2>6. call' \in [Calls -> CallRow] /\ call'[q] = c /\ \A p \in Calls : p # q => call'[p] = call[p]
    BY <2>4, <2>5, PutsCall
  <2>7. \A p \in Calls : p # q => call'[p].step = "none" /\ call'[p].kind = "none"
    BY <1>7, <2>6
  <2>8. PageTyped'
    BY <1>3, <1>4, <2>1, <2>6 DEF PageInv, PageTyped
  <2>9. OneRefresh'
    <3>1. \A p \in Calls : call'[p].step \notin {"waiting", "posted"}
      BY <2>4, <2>6, <2>7
    <3>2. QED BY <1>3, <1>5, <1>6, <3>1 DEF OneRefresh
  <2>10. CallsSound'
    BY <1>2, <1>3, <2>4, <2>6, <2>7 DEF CallsSound, Busy
  <2>11. CookiesFresh'
    <3>1. Ended(jar)' /\ \A s \in DOMAIN served' : ~served'[s].reused
      BY <1>3, <2>1, <2>2 DEF PageInv, CookiesFresh, Ended
    <3>2. \A p \in Calls : call'[p].kind # "login"
      BY <2>4, <2>6, <2>7
    <3>3. QED BY <1>5, <3>1, <3>2 DEF CookiesFresh, Fresh
  <2>12. TokensValid'
    BY <1>3, <1>5, <2>4, <2>6, <2>7 DEF PageInv, TokensValid, Valid
  <2>13. DraftsOnce'
    BY <1>2, <1>3, <1>7, <2>4, <2>6, <2>7 DEF PageInv, DraftsOnce
  <2>14. QED BY <2>4, <2>6, <2>8, <2>9, <2>10, <2>11, <2>12, <2>13 DEF PageInv
<1>11. QED BY <1>3, <1>9, <1>10

LEMMA Dismiss ==
  ASSUME PageInv, NEW q \in Calls, dismiss(q)
  PROVE  PageInv'
<1>0. /\ call[q].step = "rejected" /\ PutCall(q, NoCall)
      /\ served' = served /\ issued' = issued /\ stale' = stale /\ jar' = jar /\ access' = access
      /\ refreshing' = refreshing /\ refreshes' = refreshes /\ page' = page
  BY DEF dismiss, serverSide
<1>1. call' \in [Calls -> CallRow] /\ call'[q] = NoCall /\ \A p \in Calls : p # q => call'[p] = call[p]
  BY <1>0, CallRows, PutsCall
<1>2. NoCall.step = "none" /\ NoCall.kind = "none" /\ NoCall.retry = FALSE
  BY CallRows
<1>3. PageTyped'
  BY <1>0, <1>1 DEF PageInv, PageTyped
<1>4. OneRefresh'
  BY <1>0, <1>1, <1>2, KeepsRefresh
<1>5. CallsSound'
  BY <1>0, <1>1, <1>2 DEF PageInv, CallsSound, Busy
<1>6. CookiesFresh'
  BY <1>0, <1>1, <1>2 DEF PageInv, CookiesFresh, Refreshing, Fresh, Ended
<1>7. TokensValid'
  BY <1>0, <1>1, <1>2 DEF PageInv, TokensValid, Valid
<1>8. DraftsOnce'
  BY <1>0, <1>1, <1>2 DEF PageInv, DraftsOnce
<1>9. QED BY <1>3, <1>4, <1>5, <1>6, <1>7, <1>8 DEF PageInv
-----------------------------------------------------------------------------
(* The page *)

LEMMA Refreshed ==
  ASSUME PageInv, NEW i \in DOMAIN refreshes, refreshed(i)
  PROVE  /\ PageInv'
         /\ \A q \in Calls : call'[q].step = "rejected" /\ call[q].step # "rejected" => Ended(jar)'
<1>1. CASE refreshes[i].step # "rotated"
  BY <1>1, RefusesAll
<1>2. CASE refreshes[i].step = "rotated" /\ {q \in Waiting(i) : call[q].kind = "restore"} = {}
  BY <1>2, SendsAgain
<1>3. CASE refreshes[i].step = "rotated" /\ \E r \in Waiting(i) : call[r].kind = "restore"
  BY <1>3, RestoresAgain
<1>4. QED BY <1>1, <1>2, <1>3

LEMMA PageStep ==
  ASSUME PageInv, smooth, smooth', ClientNext
  PROVE  PageInv'
<1>1. ASSUME reload \/ openForm \/ expireTokens \/ endSession
      PROVE  PageInv'
  BY <1>1, Reload, OpenForm, ExpireTokens, EndSession
<1>2. ASSUME NEW q \in Calls, PageSends(q) \/ serve(q) \/ PageReceives(q)
      PROVE  PageInv'
  <2>1. CASE PageSends(q)
    BY <2>1, LoadPage, Sends DEF PageSends
  <2>2. CASE serve(q)
    BY <2>2, Serve
  <2>3. CASE PageReceives(q)
    <3>1. ~loseAnswer(q)
      BY DEF loseAnswer
    <3>2. QED BY <2>3, <3>1, Unauthorized, Receive, Restored, Dismiss DEF PageReceives
  <2>4. QED BY <1>2, <2>1, <2>2, <2>3
<1>3. ASSUME NEW i \in DOMAIN refreshes,
             checkRefresh(i) \/ rotateCookie(i) \/ refreshed(i) \/ loseRefresh(i)
      PROVE  PageInv'
  <2>1. ~loseRefresh(i)
    BY DEF loseRefresh
  <2>2. QED BY <1>3, <2>1, CheckRefresh, RotateCookie, Refreshed
<1>4. QED BY <1>1, <1>2, <1>3 DEF ClientNext

\* Once an answer was lost, smooth stays FALSE.
LEMMA SmoothBefore ==
  ASSUME ClientNext, smooth'
  PROVE  smooth
<1>1. ASSUME NEW q \in Calls, PageSends(q) \/ serve(q) \/ PageReceives(q)
      PROVE  smooth
  BY <1>1 DEF PageSends, PageReceives, loadPage, query, logoutPage, submitForm, signIn, send, serve,
              unauthorized, receive, restored, loseAnswer, dismiss
<1>2. ASSUME NEW i \in DOMAIN refreshes,
             checkRefresh(i) \/ rotateCookie(i) \/ refreshed(i) \/ loseRefresh(i)
      PROVE  smooth
  BY <1>2 DEF checkRefresh, rotateCookie, refreshed, loseRefresh
<1>3. ASSUME reload \/ openForm \/ expireTokens \/ endSession
      PROVE  smooth
  BY <1>3 DEF reload, openForm, expireTokens, endSession
<1>4. QED BY <1>1, <1>2, <1>3 DEF ClientNext

LEMMA PageInitially == ClientInit => PageInv
<1>1. SUFFICES ASSUME ClientInit
               PROVE  PageInv
  OBVIOUS
<1>2. /\ served = <<[secret |-> 1, over |-> FALSE, reused |-> FALSE]>> /\ issued = 1 /\ stale = 1
      /\ jar \in {NoCookie, [sid |-> 1, secret |-> 1]}
      /\ access = 0 /\ refreshing = 0 /\ refreshes = <<>>
      /\ call = [q \in Calls |-> NoCall]
      /\ page = [loading |-> TRUE, user |-> FALSE, form |-> FALSE, drafts |-> 0]
  BY <1>1 DEF ClientInit
<1>3. /\ NoCall \in CallRow /\ NoCall.step = "none" /\ NoCall.kind = "none" /\ NoCall.retry = FALSE
      /\ NoCookie \in CookieRow
  BY DEF NoCall, CallRow, NoCookie, CookieRow
<1>4. PICK row : row = [secret |-> 1, over |-> FALSE, reused |-> FALSE]
  OBVIOUS
<1>5. row \in ServedRow /\ row.secret = 1 /\ row.over = FALSE /\ row.reused = FALSE
  BY <1>4 DEF ServedRow
<1>6. /\ served \in Seq(ServedRow) /\ DOMAIN served = {1} /\ served[1] = row
  BY <1>2, <1>4, <1>5
<1>7. jar \in CookieRow /\ (jar = NoCookie \/ (jar.sid = 1 /\ jar.secret = 1))
  BY <1>2, <1>3 DEF CookieRow
<1>8. \A q \in Calls : call[q] = NoCall
  BY <1>2
<1>9. DOMAIN refreshes = {}
  BY <1>2
<1>10. PageTyped
  <2>1. refreshes \in Seq(RefreshRow) /\ call \in [Calls -> CallRow]
    BY <1>2, <1>3
  <2>2. page \in PageRow
    BY <1>2 DEF PageRow
  <2>3. QED BY <1>2, <1>6, <1>7, <2>1, <2>2 DEF PageTyped
<1>11. OneRefresh
  BY <1>2, <1>3, <1>8, <1>9 DEF OneRefresh
<1>12. CallsSound
  BY <1>3, <1>8 DEF CallsSound, Busy
<1>13. CookiesFresh
  BY <1>3, <1>5, <1>6, <1>7, <1>8, <1>9 DEF CookiesFresh, Fresh, Ended
<1>14. TokensValid /\ DraftsOnce
  BY <1>2, <1>3, <1>8, <1>9 DEF TokensValid, DraftsOnce
<1>15. QED BY <1>10, <1>11, <1>12, <1>13, <1>14 DEF PageInv

LEMMA PageInvariance == PageSpec => [](smooth => PageInv)
<1>1. ClientInit => (smooth => PageInv)
  BY PageInitially
<1>2. (smooth => PageInv) /\ [ClientNext]_clientVars => (smooth => PageInv)'
  <2>1. SUFFICES ASSUME smooth => PageInv, [ClientNext]_clientVars, smooth'
                 PROVE  PageInv'
    OBVIOUS
  <2>2. CASE ClientNext
    BY <2>1, <2>2, SmoothBefore, PageStep
  <2>3. CASE UNCHANGED clientVars
    BY <2>1, <2>3 DEF clientVars, PageInv, PageTyped, OneRefresh, CallsSound, CookiesFresh, TokensValid, DraftsOnce,
                      Busy, Refreshing, Fresh, Ended, Valid
  <2>4. QED BY <2>1, <2>2, <2>3
<1>3. QED BY <1>1, <1>2, PTL DEF PageSpec

\* Putting a call that is not rejected rejects none.
LEMMA PutsNoRejection ==
  ASSUME PageInv, NEW p \in Calls, NEW c, PutCall(p, c), c.step # "rejected", NEW q \in Calls, call'[q].step = "rejected"
  PROVE  call[q].step = "rejected"
BY DEF PageInv, PageTyped, PutCall

\* A call that is rejected now, other than a sign-in, has lost its session.
LEMMA OnlyEnded ==
  ASSUME PageInv, smooth, smooth', ClientNext,
         NEW q \in Calls, call'[q].step = "rejected", call[q].step # "rejected", call'[q].kind # "login"
  PROVE  Ended(jar)'
<1>1. ASSUME reload \/ openForm \/ expireTokens \/ endSession
      PROVE  FALSE
  BY <1>1 DEF reload, openForm, expireTokens, endSession
<1>2. ASSUME NEW p \in Calls, PageSends(p)
      PROVE  FALSE
  <2>1. \E c : PutCall(p, c) /\ c.step # "rejected"
    <3>1. ASSUME loadPage(p)
          PROVE  \E c : PutCall(p, c) /\ c.step # "rejected"
      <4>1. PICK new \in CallRow : new = NewCall("restore")
        BY CallRows
      <4>2. PICK c : c = [new EXCEPT !.step = "posted", !.on = Len(refreshes) + 1]
        OBVIOUS
      <4>3. PutCall(p, c) /\ c.step = "posted"
        BY <3>1, <4>1, <4>2 DEF loadPage, CallRow
      <4>4. QED BY <4>3
    <3>2. ASSUME NEW kind \in {"data", "logout", "draft"}, send(p, kind)
          PROVE  \E c : PutCall(p, c) /\ c.step # "rejected"
      BY <3>2, CallRows DEF send
    <3>3. ASSUME signIn(p)
          PROVE  \E c : PutCall(p, c) /\ c.step # "rejected"
      <4>1. PICK new \in CallRow : new = NewCall("login") /\ new.step = "sent"
        BY CallRows
      <4>2. PICK right \in BOOLEAN : PutCall(p, [new EXCEPT !.ok = right])
        BY <3>3, <4>1 DEF signIn
      <4>3. [new EXCEPT !.ok = right].step = "sent"
        BY <4>1 DEF CallRow
      <4>4. QED BY <4>2, <4>3
    <3>4. QED BY <1>2, <3>1, <3>2, <3>3 DEF PageSends, query, logoutPage, submitForm
  <2>2. QED BY <2>1, PutsNoRejection
<1>3. ASSUME NEW p \in Calls, serve(p)
      PROVE  FALSE
  <2>1. PICK old \in CallRow : old = call[p]
    BY Typed
  <2>2. \A step \in {"answered", "unauthorized"} : Served(p, step) => \E c : PutCall(p, c) /\ c.step # "rejected"
    <3>1. \A step \in {"answered", "unauthorized"} : [old EXCEPT !.step = step].step = step
      BY DEF CallRow
    <3>2. QED BY <2>1, <3>1 DEF Served
  <2>3. \A t, d : [old EXCEPT !.step = "answered", !.token = t, !.cookie = d].step = "answered"
    BY DEF CallRow
  <2>4. \E c : PutCall(p, c) /\ c.step # "rejected"
    BY <1>3, <2>1, <2>2, <2>3 DEF serve
  <2>5. QED BY <2>4, PutsNoRejection
<1>4. ASSUME NEW p \in Calls, unauthorized(p)
      PROVE  Ended(jar)'
  <2>1. CASE ~call[p].retry
    <3>1. PICK old \in CallRow : old = call[p]
      BY Typed
    <3>2. [old EXCEPT !.step = "waiting", !.retry = TRUE, !.on = refreshing'].step = "waiting"
      BY DEF CallRow
    <3>3. \E c : PutCall(p, c) /\ c.step # "rejected"
      BY <1>4, <2>1, <3>1, <3>2 DEF unauthorized, retryRefreshed
    <3>4. QED BY <3>3, PutsNoRejection
  <2>2. CASE call[p].retry
    <3>1. Reject(p) /\ call[p].step = "unauthorized" /\ call[p].kind \in {"login", "restore"}
      BY <1>4, <2>2 DEF unauthorized, PageInv, TokensValid
    <3>2. q = p /\ call'[p].kind = call[p].kind
      <4>1. PICK c \in CallRow : PutCall(p, c) /\ c.kind = call[p].kind
        BY <3>1, CallRows DEF Reject
      <4>2. call'[p] = c /\ \A o \in Calls : o # p => call'[o] = call[o]
        BY <4>1, PutsCall
      <4>3. QED BY <1>4, <4>1, <4>2
    <3>3. Ended(jar)
      BY <3>1, <3>2 DEF PageInv, CookiesFresh
    <3>4. QED BY <3>1, <3>3 DEF Reject, Ended, serverSide
  <2>3. QED BY <2>1, <2>2
<1>5. ASSUME NEW p \in Calls, receive(p) \/ dismiss(p)
      PROVE  FALSE
  BY <1>5, CallRows, PutsNoRejection DEF receive, dismiss
<1>6. ASSUME NEW p \in Calls, restored(p)
      PROVE  FALSE
  BY <1>6, Restored
<1>7. ASSUME NEW p \in Calls, loseAnswer(p)
      PROVE  FALSE
  BY <1>7 DEF loseAnswer
<1>8. ASSUME NEW i \in DOMAIN refreshes, checkRefresh(i) \/ rotateCookie(i) \/ loseRefresh(i)
      PROVE  FALSE
  BY <1>8 DEF checkRefresh, rotateCookie, loseRefresh
<1>9. ASSUME NEW i \in DOMAIN refreshes, refreshed(i)
      PROVE  Ended(jar)'
  BY <1>9, Refreshed
<1>10. QED BY <1>1, <1>2, <1>3, <1>4, <1>5, <1>6, <1>7, <1>8, <1>9 DEF ClientNext, PageReceives

(* As long as no answer is lost and nobody signs in beside other calls: the *)
(* page never presents a cookie twice, so the server never ends its session *)
(* for reuse; every call but a sign-in that is rejected has really lost its *)
(* session, whatever calls share a refresh and in whatever order they are   *)
(* answered; and a filing that is sent again is saved once.                 *)
THEOREM ThePageKeepsItsSession == PageSpec => KeepsItsSession
<1>1. (smooth => PageInv) /\ (smooth => PageInv)' /\ [ClientNext]_clientVars =>
        [smooth' =>
           /\ \A s \in DOMAIN served' : ~served'[s].reused
           /\ \A q \in Calls :
                (call'[q].step = "rejected" /\ call'[q].kind # "login" /\ call[q].step # "rejected") => ~CookieLive'
           /\ page'.drafts <= 1]_clientVars
  <2>1. SUFFICES ASSUME smooth => PageInv, (smooth => PageInv)', ClientNext, smooth'
                 PROVE  /\ \A s \in DOMAIN served' : ~served'[s].reused
                        /\ \A q \in Calls :
                             (call'[q].step = "rejected" /\ call'[q].kind # "login" /\ call[q].step # "rejected")
                               => ~CookieLive'
                        /\ page'.drafts <= 1
    OBVIOUS
  <2>2. smooth /\ PageInv /\ PageInv'
    BY <2>1, SmoothBefore
  <2>3. (\A s \in DOMAIN served' : ~served'[s].reused) /\ page'.drafts <= 1
    BY <2>2 DEF PageInv, CookiesFresh, DraftsOnce
  <2>4. Ended(jar)' => ~CookieLive'
    BY DEF Ended, CookieLive
  <2>5. QED BY <2>1, <2>2, <2>3, <2>4, OnlyEnded
<1>2. QED BY <1>1, PageInvariance, PTL DEF PageSpec, KeepsItsSession
-----------------------------------------------------------------------------
(* A behaviour of MCAccounts, which TLC checks, is one of both: what is     *)
(* proved of them holds of it.                                              *)
THEOREM RunsAreBehaviours == Spec => ServerSpec /\ PageSpec
<1>1. Init => HandlersInit /\ AccountsInit(root) /\ ClientInit
  BY DEF Init
<1>2. [Next]_vars => [AccountsNext]_ServerVars /\ [ClientNext]_clientVars
  <2>1. CASE UNCHANGED vars
    BY <2>1 DEF vars, ServerVars
  <2>2. CASE AccountsStep
    <3>1. UNCHANGED clientVars
      BY <2>2 DEF AccountsStep
    <3>2. AccountsNext
      BY <2>2 DEF AccountsStep, AccountsNext, Administer, SignIn
    <3>3. QED BY <3>1, <3>2
  <2>3. CASE ClientNext /\ UNCHANGED <<task, alone, accountVars>>
    BY <2>3 DEF ServerVars
  <2>4. QED BY <2>1, <2>2, <2>3 DEF Next
<1>3. QED BY <1>1, <1>2, PTL DEF Spec, ServerSpec, PageSpec
=============================================================================
