------------------------------ MODULE Accounts ------------------------------
(***************************************************************************)
(* User accounts: their administration (users.service), registration,      *)
(* sign-in, sessions and password resets (auth.service, tokens.service),   *)
(* and the endpoint that restores the demo accounts.                       *)
(*                                                                         *)
(* An access token carries the roles its user had when it was signed and   *)
(* is not looked up again, so what a caller may do is what supers says,    *)
(* not what the roles say.  The lifetime of a mailed token only refuses it *)
(* and is left out; a lock ends on its own.                                *)
(***************************************************************************)
EXTENDS Handlers, SequencesExt, FiniteSetsExt

CONSTANTS
  Users,
  Linked,        \* accounts with records of the platform that may not be lost
  MaxFailures,   \* security.maxFailedLogins
  MaxSessions, MaxTokens, MaxPasswords, MaxRotations   \* bounds
ASSUME LinkedAssumption == Linked \subseteq Users
ASSUME FailuresAssumption == MaxFailures \in Nat

VARIABLES
  user,      \* User rows with their roles; the password is numbered, 0 is the demo one
  session,   \* Session rows: the user, the password it was opened with, how often rotated
  token,     \* EmailToken rows, with how often each was accepted
  supers     \* users with an unexpired access token that says SUPER_ADMIN

accountVars == <<user, session, token, supers>>

NoAccount == [status |-> "none"]
NewAccount(status, roles, verified) ==
  [status |-> status, deleted |-> FALSE, roles |-> roles, verified |-> verified,
   failed |-> 0, locked |-> FALSE, password |-> 0]
UserStatus == {"PENDING_VERIFICATION", "ACTIVE", "SUSPENDED", "DEACTIVATED"}
Disabling == {"SUSPENDED", "DEACTIVATED"}
IdentityRoles == {"INDIVIDUAL", "LAWYER"}
RoleSets == {{"INDIVIDUAL"}, {"SUPER_ADMIN"}, {"SUPER_ADMIN", "LAWYER"}}

Exists(u) == user[u].status # "none"
IsSuper(row) == "SUPER_ADMIN" \in row.roles
SuperAdmins == {u \in Users : Exists(u) /\ IsSuper(user[u]) /\ ~user[u].deleted}

\* The seed and the bootstrap make one super administrator, who is signed in.
AccountsInit(first) ==
  /\ user = [u \in Users |-> IF u = first THEN NewAccount("ACTIVE", {"SUPER_ADMIN"}, TRUE) ELSE NoAccount]
  /\ session = <<>> /\ token = <<>> /\ supers = {first}

SetUser(u, row) == user' = [user EXCEPT ![u] = row]
OnlyUser == UNCHANGED <<session, token, supers>>
RevokeAll(u) ==
  session' = [s \in DOMAIN session |-> IF session[s].user = u THEN [session[s] EXCEPT !.revoked = TRUE] ELSE session[s]]
Target(r) == task[r].user
Seen(r) == task[r].seen
-----------------------------------------------------------------------------
(* Administration.  The caller is a super administrator by its token, or an *)
(* administrator without ROLE_MANAGE.  The target is read first; what       *)
(* follows acts on that reading.                                            *)

Administrator == "administrator"
Callers == supers \cup {Administrator}
assertCanManage(actor, row) == IsSuper(row) => actor # Administrator

Manage(r, step, actor, u, args) ==
  /\ Exists(u) /\ assertCanManage(actor, user[u])
  /\ Begin(r, [step |-> step, user |-> u, seen |-> user[u], actor |-> actor, args |-> args])
  /\ UNCHANGED accountVars

create(r) ==
  /\ \E actor \in Callers, u \in Users, roles \in RoleSets, status \in UserStatus, verified \in BOOLEAN :
       /\ ~Exists(u) /\ ("SUPER_ADMIN" \in roles => actor # Administrator)
       /\ SetUser(u, NewAccount(status, roles, verified))
  /\ AtOnce(r) /\ OnlyUser

\* The status, if it is sent, and the verification: sent, or withdrawn with a new address.
Keep == "keep"
update(r) ==
  \E actor \in Callers, u \in Users, status \in {Keep} \cup UserStatus, verified \in {Keep, "yes", "no"} :
    /\ status \notin {Keep, "ACTIVE"} => actor # u
    /\ Manage(r, IF status \in {Keep, "ACTIVE"} THEN "update" ELSE "updateCount", actor, u,
              [status |-> status, verified |-> verified])

\* Mutant: it counts roles, those of archived users too.
countWithArchived == Cardinality({u \in Users : Exists(u) /\ IsSuper(user[u])})

countActiveSuperAdmins == Cardinality(SuperAdmins)

assertNotLastSuperAdmin(r, next) ==
  /\ IF IsSuper(Seen(r)) /\ countActiveSuperAdmins <= 1 THEN Finish(r)
     ELSE Continue(r, [task[r] EXCEPT !.step = next])
  /\ UNCHANGED accountVars
countForUpdate(r) == At(r, "updateCount") /\ assertNotLastSuperAdmin(r, "update")

\* A changed status other than ACTIVE then ends the sessions, in a call of its own.
setUpdated(r) ==
  /\ At(r, "update") /\ Exists(Target(r))
  /\ LET args == task[r].args IN
     /\ SetUser(Target(r), [user[Target(r)] EXCEPT
          !.status = IF args.status = Keep THEN @ ELSE args.status,
          !.verified = IF args.verified = Keep THEN @ ELSE args.verified = "yes"])
     /\ IF args.status \notin {Keep, "ACTIVE", Seen(r).status}
        THEN Continue(r, [task[r] EXCEPT !.step = "revoke"]) ELSE Finish(r)
  /\ OnlyUser
revokeAllForUser(r) ==
  At(r, "revoke") /\ RevokeAll(Target(r)) /\ Finish(r) /\ UNCHANGED <<user, token, supers>>

setRoles(r) ==
  \E actor \in supers, u \in Users, roles \in RoleSets :
    Exists(u) /\ Manage(r, IF IsSuper(user[u]) /\ "SUPER_ADMIN" \notin roles THEN "rolesCount" ELSE "roles", actor, u, roles)
countForRoles(r) == At(r, "rolesCount") /\ assertNotLastSuperAdmin(r, "roles")
\* The system roles that were read are kept, the identity role is replaced.
setIdentityType(r) ==
  \E actor \in supers, u \in Users, role \in IdentityRoles :
    Exists(u) /\ Manage(r, "roles", actor, u, (user[u].roles \ IdentityRoles) \cup {role})
replaceRoles(r) ==
  /\ At(r, "roles") /\ Exists(Target(r)) /\ SetUser(Target(r), [user[Target(r)] EXCEPT !.roles = task[r].args])
  /\ Finish(r) /\ OnlyUser

NewPassword(row) == [row EXCEPT !.password = @ + 1, !.failed = 0, !.locked = FALSE]
adminResetPassword(r) ==
  \E actor \in Callers, u \in Users :
    Exists(u) /\ user[u].password < MaxPasswords /\ Manage(r, "password", actor, u, {})
setPassword(r) ==
  /\ At(r, "password") /\ Exists(Target(r)) /\ SetUser(Target(r), NewPassword(user[Target(r)]))
  /\ RevokeAll(Target(r)) /\ Finish(r) /\ UNCHANGED <<token, supers>>

archive(r) == \E actor \in Callers : \E u \in Users \ {actor} : Manage(r, "archiveCount", actor, u, {})
countForArchive(r) == At(r, "archiveCount") /\ assertNotLastSuperAdmin(r, "archive")
setArchived(r) ==
  /\ At(r, "archive") /\ Exists(Target(r))
  /\ SetUser(Target(r), [user[Target(r)] EXCEPT !.status = "DEACTIVATED", !.deleted = TRUE])
  /\ RevokeAll(Target(r)) /\ Finish(r) /\ UNCHANGED <<token, supers>>

restore(r) == \E actor \in Callers, u \in Users : Manage(r, "restore", actor, u, {})
setRestored(r) ==
  /\ At(r, "restore") /\ Exists(Target(r))
  /\ SetUser(Target(r), [user[Target(r)] EXCEPT !.status = "ACTIVE", !.deleted = FALSE])
  /\ Finish(r) /\ OnlyUser

\* The records that may not be lost are looked for once, before the deletion.
computeDeleteBlockers(u) == u \in Linked

\* The rows that are not of u, in their order.
Others(rows, u) ==
  LET kept[n \in 0..Len(rows)] ==
        IF n = 0 THEN <<>>
        ELSE IF rows[n].user = u THEN kept[n - 1] ELSE Append(kept[n - 1], rows[n])
  IN  kept[Len(rows)]

\* Its sessions and mailed tokens go with the account.
hardDelete(r) ==
  \E actor \in supers : \E u \in Users \ {actor} :
    ~computeDeleteBlockers(u) /\ Manage(r, "hardDelete", actor, u, {})
setDeleted(r) ==
  /\ At(r, "hardDelete") /\ Exists(Target(r)) /\ SetUser(Target(r), NoAccount)
  /\ session' = Others(session, Target(r)) /\ token' = Others(token, Target(r))
  /\ Finish(r) /\ UNCHANGED supers

\* The demo accounts are found, then made or reset one by one; a reset ends no
\* session.
bootstrap(r) ==
  \E u \in Users : Begin(r, [step |-> "bootstrap", user |-> u, found |-> Exists(u)]) /\ UNCHANGED accountVars
setDemo(r) ==
  /\ At(r, "bootstrap") /\ task[r].found = Exists(Target(r))
  /\ SetUser(Target(r), IF task[r].found
       THEN [user[Target(r)] EXCEPT !.status = "ACTIVE", !.deleted = FALSE, !.verified = TRUE, !.failed = 0,
                                   !.locked = FALSE, !.password = 0, !.roles = @ \cup {"SUPER_ADMIN"}]
       ELSE NewAccount("ACTIVE", {"SUPER_ADMIN"}, TRUE))
  /\ Finish(r) /\ OnlyUser
-----------------------------------------------------------------------------
(* Registration, and the verification of the address *)

Pending(u) == Exists(u) /\ ~user[u].deleted /\ ~user[u].verified /\ user[u].status = "PENDING_VERIFICATION"

register(r) ==
  \E u \in Users :
    /\ ~Exists(u) /\ SetUser(u, NewAccount("PENDING_VERIFICATION", {"INDIVIDUAL"}, FALSE))
    /\ Begin(r, [step |-> "verification", user |-> u]) /\ OnlyUser
\* resendVerification, and register for an account that is still pending.
resendVerification(r) ==
  \E u \in Users : Pending(u) /\ Begin(r, [step |-> "reissue", user |-> u]) /\ UNCHANGED accountVars

\* Mutant: whether a link was used is not asked.
OpenThoughUsed(t) == ~t.withdrawn

Open(t) == t.accepted = 0 /\ ~t.withdrawn
reissueVerification(r) ==
  /\ At(r, "reissue")
  /\ token' = [i \in DOMAIN token |->
       IF token[i].user = Target(r) /\ token[i].kind = "EMAIL_VERIFICATION" THEN [token[i] EXCEPT !.withdrawn = TRUE]
       ELSE token[i]]
  /\ Continue(r, [task[r] EXCEPT !.step = "verification"]) /\ UNCHANGED <<user, session, supers>>
Mail(u, kind) ==
  Len(token) < MaxTokens /\ token' = Append(token, [user |-> u, kind |-> kind, accepted |-> 0, withdrawn |-> FALSE])
issueEmailVerification(r) ==
  At(r, "verification") /\ Mail(Target(r), "EMAIL_VERIFICATION") /\ Finish(r) /\ UNCHANGED <<user, session, supers>>

Accept(r, kind, step) ==
  /\ \E i \in DOMAIN token :
       token[i].kind = kind /\ Open(token[i]) /\ Begin(r, [step |-> step, token |-> i, user |-> token[i].user])
  /\ UNCHANGED accountVars
Accepted(r) == task[r].token \in DOMAIN token /\ token' = [token EXCEPT ![task[r].token].accepted = @ + 1]

\* The account is active afterwards, whatever it was.
verifyEmail(r) == Accept(r, "EMAIL_VERIFICATION", "verify")
setVerified(r) ==
  /\ At(r, "verify") /\ Accepted(r) /\ SetUser(Target(r), [user[Target(r)] EXCEPT !.verified = TRUE, !.status = "ACTIVE"])
  /\ Finish(r) /\ UNCHANGED <<session, supers>>

requestPasswordReset(r) ==
  \E u \in Users : Exists(u) /\ Mail(u, "PASSWORD_RESET") /\ AtOnce(r) /\ UNCHANGED <<user, session, supers>>
resetPassword(r) == Accept(r, "PASSWORD_RESET", "resetStatus")
readStatus(r) ==
  /\ At(r, "resetStatus") /\ Exists(Target(r))
  /\ Continue(r, [step |-> "reset", token |-> task[r].token, user |-> Target(r),
                  activate |-> user[Target(r)].status = "PENDING_VERIFICATION"])
  /\ UNCHANGED accountVars

\* Mutant: the new password makes the account active in any case.
afterResetRevived(row, activate) == [NewPassword(row) EXCEPT !.verified = TRUE, !.status = "ACTIVE"]

afterReset(row, activate) ==
  [NewPassword(row) EXCEPT !.verified = TRUE, !.status = IF activate THEN "ACTIVE" ELSE @]

\* Mutant: the sessions are left open.
setResetOnly(r) ==
  /\ At(r, "reset") /\ Accepted(r) /\ user[Target(r)].password < MaxPasswords
  /\ SetUser(Target(r), afterReset(user[Target(r)], task[r].activate))
  /\ Finish(r) /\ UNCHANGED <<session, supers>>

setReset(r) ==
  /\ At(r, "reset") /\ Accepted(r) /\ user[Target(r)].password < MaxPasswords
  /\ SetUser(Target(r), afterReset(user[Target(r)], task[r].activate))
  /\ Continue(r, [task[r] EXCEPT !.step = "revoke"]) /\ UNCHANGED <<session, supers>>
-----------------------------------------------------------------------------
(* Sessions *)

\* The user is read once: lock, password, status and roles are from then.
login(r) ==
  \E u \in Users, valid \in BOOLEAN :
    /\ Exists(u) /\ ~user[u].deleted /\ ~user[u].locked
    /\ valid => user[u].status \notin Disabling
    /\ Begin(r, [step |-> IF valid THEN "cleared" ELSE "failed", user |-> u, seen |-> user[u]])
    /\ UNCHANGED accountVars
recordFailure(r) ==
  /\ At(r, "failed") /\ Exists(Target(r))
  /\ LET count == Min({Seen(r).failed + 1, MaxFailures}) IN   \* beyond the limit all counts lock
     SetUser(Target(r), [user[Target(r)] EXCEPT !.failed = count, !.locked = count >= MaxFailures])
  /\ Finish(r) /\ OnlyUser
clearFailures(r) ==
  /\ At(r, "cleared") /\ Exists(Target(r))
  /\ SetUser(Target(r), [user[Target(r)] EXCEPT !.failed = 0, !.locked = FALSE])
  /\ Continue(r, [task[r] EXCEPT !.step = "issue"]) /\ OnlyUser
SignAccess(u, row) == supers' = IF IsSuper(row) THEN supers \cup {u} ELSE supers
issue(r) ==
  /\ At(r, "issue") /\ Exists(Target(r)) /\ Len(session) < MaxSessions
  /\ session' = Append(session, [user |-> Target(r), password |-> Seen(r).password, rotated |-> 0, revoked |-> FALSE])
  /\ SignAccess(Target(r), Seen(r)) /\ Finish(r) /\ UNCHANGED <<user, token>>

\* The token presented is the latest of its session, or an earlier one.
refresh(r) ==
  \E s \in DOMAIN session, latest \in BOOLEAN :
    /\ ~session[s].revoked /\ (~latest => session[s].rotated > 0)
    /\ Begin(r, [step |-> IF latest THEN "rotate" ELSE "reuse", session |-> s, user |-> session[s].user])
    /\ UNCHANGED accountVars
rotate(r) ==
  /\ At(r, "rotate") /\ task[r].session \in DOMAIN session /\ session[task[r].session].rotated < MaxRotations
  /\ session' = [session EXCEPT ![task[r].session].rotated = @ + 1]
  /\ Continue(r, [task[r] EXCEPT !.step = "access"]) /\ UNCHANGED <<user, token, supers>>
revokeReused(r) ==
  /\ At(r, "reuse") /\ task[r].session \in DOMAIN session
  /\ session' = [session EXCEPT ![task[r].session].revoked = TRUE]
  /\ Finish(r) /\ UNCHANGED <<user, token, supers>>
refreshAccess(r) ==
  /\ At(r, "access")
  /\ IF user[Target(r)].status = "ACTIVE" THEN SignAccess(Target(r), user[Target(r)]) ELSE UNCHANGED supers
  /\ Finish(r) /\ UNCHANGED <<user, session, token>>
logout(r) ==
  /\ \E s \in DOMAIN session : session' = [session EXCEPT ![s].revoked = TRUE]
  /\ AtOnce(r) /\ UNCHANGED <<user, token, supers>>

\* Time: an access token expires, a lock ends.
expire ==
  \/ (\E u \in supers : supers' = supers \ {u}) /\ UNCHANGED <<task, alone, user, session, token>>
  \/ /\ \E u \in Users : Exists(u) /\ user[u].locked /\ SetUser(u, [user[u] EXCEPT !.locked = FALSE])
     /\ OnlyUser /\ UNCHANGED <<task, alone>>
-----------------------------------------------------------------------------
Administer(r) ==
  \/ create(r) \/ update(r) \/ countForUpdate(r) \/ setUpdated(r) \/ setRoles(r) \/ countForRoles(r)
  \/ setIdentityType(r) \/ replaceRoles(r) \/ archive(r) \/ countForArchive(r) \/ setArchived(r)
  \/ restore(r) \/ setRestored(r) \/ hardDelete(r) \/ setDeleted(r) \/ bootstrap(r) \/ setDemo(r)
  \/ adminResetPassword(r) \/ setPassword(r)
Register(r) ==
  \/ register(r) \/ resendVerification(r) \/ reissueVerification(r) \/ issueEmailVerification(r)
  \/ verifyEmail(r) \/ setVerified(r) \/ requestPasswordReset(r) \/ resetPassword(r) \/ readStatus(r)
  \/ setReset(r)
SignIn(r) ==
  \/ login(r) \/ recordFailure(r) \/ clearFailures(r) \/ issue(r) \/ refresh(r) \/ rotate(r)
  \/ revokeReused(r) \/ refreshAccess(r) \/ logout(r) \/ revokeAllForUser(r)

AccountsNext == expire \/ \E r \in Requests : Administer(r) \/ Register(r) \/ SignIn(r)
-----------------------------------------------------------------------------
(* Only one step takes the last super administrator away, one request at a  *)
(* time: a permanent deletion, which does not count them, by someone who    *)
(* was one when the access token was signed and is no longer.  Neither a    *)
(* status, nor new roles, nor archiving can.                                *)
LastSuperAdminStays ==
  [][(Serial' /\ SuperAdmins # {} /\ SuperAdmins' = {}) =>
       \E r \in Requests : At(r, "hardDelete") /\ task[r].actor \notin SuperAdmins]_<<accountVars, alone>>

(* With nothing in progress, a disabled account has no session left, and    *)
(* every open session was opened with the password of today, unless that    *)
(* was put back to the demo one; as long as requests run one at a time.     *)
SessionsCurrent ==
  (Serial /\ Quiet) => \A s \in DOMAIN session :
    LET u == session[s].user IN
    session[s].revoked \/ (user[u].status \notin Disabling /\ user[u].password \in {session[s].password, 0})

(* One request at a time, a mailed link works once, and of the verification *)
(* links of an account only the last one works.                             *)
LinksWorkOnce ==
  Serial =>
    /\ \A i \in DOMAIN token : token[i].accepted <= 1
    /\ \A i, j \in DOMAIN token :
         (/\ token[i].user = token[j].user /\ {token[i].kind, token[j].kind} = {"EMAIL_VERIFICATION"}
          /\ Open(token[i]) /\ Open(token[j])) => i = j

(* A password reset does not revive a disabled account: one request at a    *)
(* time, only an administrator, the demo endpoint or a verification link    *)
(* that is still open makes it active again.                                *)
ResetRevivesNobody ==
  [][\A u \in Users :
       (Serial' /\ user[u].status \in Disabling /\ user'[u].status = "ACTIVE") =>
         \E r \in Requests : task[r].step \in {"update", "restore", "bootstrap", "verify"}]_<<accountVars, alone>>
=============================================================================
