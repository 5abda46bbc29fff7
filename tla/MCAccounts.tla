----------------------------- MODULE MCAccounts -----------------------------
(***************************************************************************)
(* A behaviour follows the administration of the accounts, whose holders   *)
(* only sign in; or one account next to a signed-in super administrator    *)
(* who stays as it is: with its sessions, or with its mailed links.  Or it *)
(* follows a page of the web client, until an answer is lost.              *)
(***************************************************************************)
EXTENDS Accounts, Client

CONSTANT root   \* the super administrator the seed makes
ASSUME RootAssumption == root \in Users

VARIABLE follows
vars == <<task, alone, follows, accountVars, clientVars>>

Init ==
  /\ HandlersInit /\ AccountsInit(root) /\ ClientInit
  /\ follows \in {"administration", "sessions", "links", "client"}
  /\ follows # "client" => jar = NoCookie

OneHolder ==
  /\ \A i \in DOMAIN session' : session'[i].user # root
  /\ \A i \in DOMAIN token' : token'[i].user # root
  /\ \A r \in Requests : task'[r].step \notin {"roles", "rolesCount"}
  /\ \A r \in Requests : "actor" \in DOMAIN task'[r] => task'[r].actor = root
  /\ \A u \in Users \ {root} : user'[u].status = "none" \/ "INDIVIDUAL" \in user'[u].roles

NamesKept ==
  /\ Len(session') <= 1
  /\ \A u \in Users : user'[u].status # "PENDING_VERIFICATION"
  /\ \A u \in Users : user'[u].status = "none" \/ (user'[u].verified /\ user'[u].password = 0)
  /\ \A r \in Requests : task'[r].step = "update" => task'[r].args.verified = Keep

AccountsStep ==
  /\ UNCHANGED clientVars
  /\ \/ follows = "administration" /\ (expire \/ \E r \in Requests : Administer(r) \/ revokeAllForUser(r)) /\ NamesKept
     \/ follows = "administration" /\ (\E r \in Requests : login(r) \/ clearFailures(r) \/ issue(r)) /\ NamesKept
     \/ /\ follows \in {"sessions", "links"}
        /\ AccountsNext /\ UNCHANGED <<user[root], supers>> /\ OneHolder
        /\ IF follows = "links" THEN Len(session') <= 1
           ELSE Len(token') <= 1 /\ \A u \in Users : user'[u].status = "none" \/ user'[u].verified
Next ==
  /\ UNCHANGED follows
  /\ AccountsStep \/ (follows = "client" /\ smooth /\ ClientNext /\ UNCHANGED <<task, alone, accountVars>>)
Spec == Init /\ [][Next]_vars
=============================================================================
