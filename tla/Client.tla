------------------------------- MODULE Client -------------------------------
(***************************************************************************)
(* One page of the web client and its session.  The page holds an access   *)
(* token; the browser holds a refresh cookie, which the server exchanges   *)
(* for a new pair, once: a cookie presented a second time ends the session *)
(* it belongs to.  Calls that are answered 401 share one refresh and are   *)
(* sent again with its token.                                              *)
(*                                                                         *)
(* Of the server stand here the session rows, and whether an access token  *)
(* is still valid; module Accounts has the rest.  A token outlives the     *)
(* call that is sent again with it.  smooth is TRUE as long as no answer   *)
(* was lost and nobody signed in while other calls were under way.         *)
(***************************************************************************)
EXTENDS Integers, Sequences, FiniteSets

CONSTANTS
  Calls,          \* calls of the page under way at one time
  MaxRefreshes,   \* bound: refreshes that are sent
  MaxSignIns      \* bound: sessions

VARIABLES
  served,      \* the sessions: the secret whose hash is stored, over, ended for reuse
  issued,      \* numbers given to secrets and to the access tokens made with them
  stale,       \* access tokens up to this number have expired
  jar,         \* the refresh cookie of the browser
  access,      \* accessToken of lib/api.ts, 0 for null
  refreshing,  \* the refresh that is shared, 0 for null
  refreshes,   \* refreshes sent, each with the cookie it carries
  call,        \* the calls of the page
  page,        \* what the page shows: loading, a user, the filing form and its drafts
  smooth

clientVars == <<served, issued, stale, jar, access, refreshing, refreshes, call, page, smooth>>
serverSide == <<served, issued, stale>>

NoCookie == [sid |-> 0, secret |-> 0]
NoCall == [step |-> "none", kind |-> "none", token |-> 0, cookie |-> NoCookie, retry |-> FALSE, on |-> 0, ok |-> TRUE]
CallsQuiet == \A q \in Calls : call[q].step = "none"

\* The browser may come with the cookie of an earlier visit.
ClientInit ==
  /\ served = <<[secret |-> 1, over |-> FALSE, reused |-> FALSE]>> /\ issued = 1 /\ stale = 1
  /\ jar \in {NoCookie, [sid |-> 1, secret |-> 1]}
  /\ access = 0 /\ refreshing = 0 /\ refreshes = <<>>
  /\ call = [q \in Calls |-> NoCall]
  /\ page = [loading |-> TRUE, user |-> FALSE, form |-> FALSE, drafts |-> 0]
  /\ smooth = TRUE

PutCall(q, c) == call' = [call EXCEPT ![q] = c]
NewCall(kind) == [NoCall EXCEPT !.step = "sent", !.kind = kind, !.token = access, !.cookie = jar]
Refresh(by, cookie) == [step |-> "sent", by |-> by, cookie |-> cookie, gives |-> 0]
SendRefresh(by) == Append(refreshes, Refresh(by, jar))
Done(i) == [refreshes EXCEPT ![i] = [Refresh("none", NoCookie) EXCEPT !.step = "done"]]
-----------------------------------------------------------------------------
(* The page sends *)

\* bootstrap: a page that was loaded asks for tokens first.
loadPage(q) ==
  /\ page.loading /\ CallsQuiet /\ Len(refreshes) < MaxRefreshes
  /\ refreshes' = SendRefresh("page")
  /\ PutCall(q, [NewCall("restore") EXCEPT !.step = "posted", !.on = Len(refreshes) + 1])
  /\ UNCHANGED <<serverSide, jar, access, refreshing, page, smooth>>
reload ==
  /\ ~page.loading /\ CallsQuiet /\ access' = 0
  /\ page' = [loading |-> TRUE, user |-> FALSE, form |-> FALSE, drafts |-> 0]
  /\ UNCHANGED <<serverSide, jar, refreshing, refreshes, call, smooth>>

\* Pages behind the sign-in are not there before a user is.
ProtectedRoute == ~page.loading /\ page.user
send(q, kind) ==
  /\ ProtectedRoute /\ call[q] = NoCall /\ PutCall(q, NewCall(kind))
  /\ smooth' = (smooth /\ \A p \in Calls : call[p].kind # "login")
  /\ UNCHANGED <<serverSide, jar, access, refreshing, refreshes, page>>
query(q) == send(q, "data")
logoutPage(q) == send(q, "logout")

openForm ==
  /\ ProtectedRoute /\ ~page.form /\ page' = [page EXCEPT !.form = TRUE, !.drafts = 0]
  /\ UNCHANGED <<serverSide, jar, access, refreshing, refreshes, call, smooth>>
\* The button is disabled while the draft is being saved.
submitForm(q) ==
  /\ page.form /\ \A p \in Calls : call[p].kind # "draft"
  /\ send(q, "draft")

\* The sign-in page is public; what it sends may be refused.
signIn(q) ==
  /\ call[q] = NoCall /\ Len(served) < MaxSignIns
  /\ \E right \in BOOLEAN : PutCall(q, [NewCall("login") EXCEPT !.ok = right])
  /\ smooth' = (smooth /\ ~page.loading /\ CallsQuiet)
  /\ UNCHANGED <<serverSide, jar, access, refreshing, refreshes, page>>
-----------------------------------------------------------------------------
(* The server *)

NextNumber == issued' = issued + 1

\* rotate: the session is read and compared, then the new hash is written.
checkRefresh(i) ==
  LET cookie == refreshes[i].cookie IN
  /\ refreshes[i].step = "sent"
  /\ IF cookie = NoCookie \/ served[cookie.sid].over
     THEN refreshes' = [refreshes EXCEPT ![i].step = "refused"] /\ UNCHANGED served
     ELSE IF served[cookie.sid].secret = cookie.secret
     THEN refreshes' = [refreshes EXCEPT ![i].step = "checked"] /\ UNCHANGED served
     ELSE /\ refreshes' = [refreshes EXCEPT ![i].step = "refused"]
          /\ served' = [served EXCEPT ![cookie.sid] = [@ EXCEPT !.over = TRUE, !.reused = TRUE]]
  /\ UNCHANGED <<issued, stale, jar, access, refreshing, call, page, smooth>>
rotateCookie(i) ==
  /\ refreshes[i].step = "checked" /\ NextNumber
  /\ served' = [served EXCEPT ![refreshes[i].cookie.sid].secret = issued']
  /\ refreshes' = [refreshes EXCEPT ![i] = [@ EXCEPT !.step = "rotated", !.gives = issued']]
  /\ UNCHANGED <<stale, jar, access, refreshing, call, page, smooth>>

Valid(t) == t > stale
Served(q, step) == PutCall(q, [call[q] EXCEPT !.step = step])

\* A call with a valid token is carried out; any other is answered 401.
serve(q) ==
  LET c == call[q] IN
  /\ c.step = "sent"
  /\ \/ /\ c.kind = "login" /\ c.ok /\ NextNumber
        /\ served' = Append(served, [secret |-> issued', over |-> FALSE, reused |-> FALSE])
        /\ PutCall(q, [c EXCEPT !.step = "answered", !.token = issued', !.cookie = [sid |-> Len(served'), secret |-> issued']])
        /\ UNCHANGED page
     \/ /\ IF c.kind = "login" THEN ~c.ok ELSE ~Valid(c.token)
        /\ Served(q, "unauthorized") /\ UNCHANGED <<served, issued, page>>
     \/ /\ c.kind # "login" /\ Valid(c.token) /\ Served(q, "answered") /\ UNCHANGED issued
        /\ served' = IF c.kind = "logout" /\ c.cookie # NoCookie THEN [served EXCEPT ![c.cookie.sid].over = TRUE] ELSE served
        /\ page' = IF c.kind = "draft" THEN [page EXCEPT !.drafts = @ + 1] ELSE page
  /\ UNCHANGED <<stale, jar, access, refreshing, refreshes, smooth>>

\* An access token expires; a session is ended elsewhere, or expires.
expireTokens ==
  /\ stale < issued /\ stale' = issued
  /\ \A q \in Calls : call[q].step = "none" \/ (~call[q].retry /\ call[q].kind \notin {"restore", "me"})
  /\ UNCHANGED <<served, issued, jar, access, refreshing, refreshes, call, page, smooth>>
endSession ==
  /\ \E s \in DOMAIN served : ~served[s].over /\ served' = [served EXCEPT ![s].over = TRUE]
  /\ UNCHANGED <<issued, stale, jar, access, refreshing, refreshes, call, page, smooth>>
-----------------------------------------------------------------------------
(* Answers *)

Rejection(c) == [NoCall EXCEPT !.step = "rejected", !.kind = c.kind]
\* What the callers of a rejected call do to the page.
PageAfter(rejected) ==
  [page EXCEPT !.loading = @ /\ ~(rejected \cap {"restore", "me"} # {}),
               !.user = @ /\ ~(rejected \cap {"restore", "me", "logout"} # {})]
AccessAfter(rejected) == IF rejected \cap {"restore", "me", "logout"} # {} THEN 0 ELSE access

Reject(q) ==
  /\ PutCall(q, Rejection(call[q]))
  /\ page' = PageAfter({call[q].kind}) /\ access' = AccessAfter({call[q].kind})
  /\ UNCHANGED <<serverSide, jar, refreshing, refreshes>>

\* Mutant: every call that is answered 401 sends a refresh of its own.
retryAlone(q) ==
  /\ Len(refreshes) < MaxRefreshes /\ refreshes' = SendRefresh("all") /\ refreshing' = Len(refreshes')
  /\ PutCall(q, [call[q] EXCEPT !.step = "waiting", !.retry = TRUE, !.on = refreshing'])
  /\ UNCHANGED <<serverSide, jar, access, page>>

\* The interceptor: a first 401 waits for the refresh under way, or sends one.
retryRefreshed(q) ==
  /\ IF refreshing # 0 THEN UNCHANGED <<refreshes, refreshing>>
     ELSE Len(refreshes) < MaxRefreshes /\ refreshes' = SendRefresh("all") /\ refreshing' = Len(refreshes')
  /\ PutCall(q, [call[q] EXCEPT !.step = "waiting", !.retry = TRUE, !.on = refreshing'])
  /\ UNCHANGED <<serverSide, jar, access, page>>

unauthorized(q) ==
  /\ call[q].step = "unauthorized"
  /\ IF call[q].retry THEN Reject(q) ELSE retryRefreshed(q)
  /\ UNCHANGED smooth

\* What login, logout, restoring and filing do with their answer.
receive(q) ==
  LET c == call[q] IN
  /\ c.step = "answered" /\ PutCall(q, NoCall)
  /\ jar' = IF c.kind = "login" THEN c.cookie ELSE IF c.kind = "logout" THEN NoCookie ELSE jar
  /\ access' = IF c.kind = "login" THEN c.token ELSE IF c.kind = "logout" THEN 0 ELSE access
  /\ page' = [page EXCEPT !.loading = @ /\ c.kind # "me",
                          !.user = IF c.kind \in {"login", "me"} THEN TRUE ELSE @ /\ c.kind # "logout",
                          !.form = @ /\ c.kind # "draft"]
  /\ UNCHANGED <<serverSide, refreshing, refreshes, smooth>>

Waiting(i) == {q \in Calls : call[q].step = "waiting" /\ call[q].on = i}
\* A call is sent again as it was; restoring the page sends a refresh.
Resend(c, t, cookie) == [c EXCEPT !.step = "sent", !.token = t, !.cookie = cookie]

\* refreshAccessToken is answered: everyone waiting goes on at once, and the
\* next 401 will send another.
refreshed(i) ==
  LET w == Waiting(i)
      kinds == {call[q].kind : q \in w}
      restoring == {q \in w : call[q].kind = "restore"} IN
  /\ refreshes[i].step \in {"rotated", "refused"} /\ refreshes[i].by = "all"
  /\ refreshing' = 0
  /\ IF refreshes[i].step = "rotated"
     THEN /\ jar' = [sid |-> refreshes[i].cookie.sid, secret |-> refreshes[i].gives]
          /\ access' = refreshes[i].gives
          /\ (restoring # {} => Len(refreshes) < MaxRefreshes)
          /\ refreshes' = IF restoring = {} THEN Done(i) ELSE Append(Done(i), Refresh("page", jar'))
          /\ call' = [q \in Calls |->
               IF q \in restoring THEN [call[q] EXCEPT !.step = "posted", !.on = Len(refreshes')]
               ELSE IF q \in w THEN Resend(call[q], refreshes[i].gives, jar') ELSE call[q]]
          /\ UNCHANGED page
     ELSE /\ access' = 0 /\ UNCHANGED jar
          /\ refreshes' = Done(i)
          /\ call' = [q \in Calls |-> IF q \in w THEN Rejection(call[q]) ELSE call[q]]
          /\ page' = PageAfter(kinds)
  /\ UNCHANGED <<serverSide, smooth>>

\* The refresh that restores the page is a call like any other: it may be
\* answered 401, and is then sent again after another refresh.
restored(q) ==
  LET i == call[q].on IN
  /\ call[q].step = "posted" /\ refreshes[i].step \in {"rotated", "refused"}
  /\ refreshes' = Done(i)
  /\ IF refreshes[i].step = "rotated"
     THEN /\ jar' = [sid |-> refreshes[i].cookie.sid, secret |-> refreshes[i].gives]
          /\ access' = refreshes[i].gives
          /\ PutCall(q, [call[q] EXCEPT !.step = "sent", !.kind = "me", !.token = access', !.cookie = jar', !.retry = FALSE])
     ELSE Served(q, "unauthorized") /\ UNCHANGED <<jar, access>>
  /\ UNCHANGED <<serverSide, refreshing, page, smooth>>

\* The network loses an answer: the call is rejected, or no token comes of the
\* refresh; the server has done its part.
loseAnswer(q) ==
  /\ call[q].step = "answered" /\ Reject(q) /\ smooth' = FALSE
loseRefresh(i) ==
  /\ refreshes[i].step = "rotated" /\ refreshes[i].by = "all" /\ smooth' = FALSE
  /\ refreshes' = [refreshes EXCEPT ![i].step = "refused"]
  /\ UNCHANGED <<serverSide, jar, access, refreshing, call, page>>

\* The message is read.
dismiss(q) ==
  /\ call[q].step = "rejected" /\ PutCall(q, NoCall)
  /\ UNCHANGED <<serverSide, jar, access, refreshing, refreshes, page, smooth>>
-----------------------------------------------------------------------------
PageSends(q) == loadPage(q) \/ query(q) \/ logoutPage(q) \/ submitForm(q) \/ signIn(q)
PageReceives(q) == unauthorized(q) \/ receive(q) \/ restored(q) \/ loseAnswer(q) \/ dismiss(q)

ClientNext ==
  \/ reload \/ openForm \/ expireTokens \/ endSession
  \/ \E q \in Calls : PageSends(q) \/ serve(q) \/ PageReceives(q)
  \/ \E i \in DOMAIN refreshes : checkRefresh(i) \/ rotateCookie(i) \/ refreshed(i) \/ loseRefresh(i)
-----------------------------------------------------------------------------
(* As long as no answer is lost and nobody signs in while other calls are   *)
(* under way, the page never presents a cookie twice, so it does not end    *)
(* its own session; no call but a sign-in is rejected while the session of  *)
(* the browser is in force; and a filing that is sent again is saved once.  *)
CookieLive == jar # NoCookie /\ ~served[jar.sid].over /\ served[jar.sid].secret = jar.secret
KeepsItsSession ==
  [][smooth' =>
       /\ \A s \in DOMAIN served' : ~served'[s].reused
       /\ \A q \in Calls :
            (call'[q].step = "rejected" /\ call'[q].kind # "login" /\ call[q].step # "rejected") => ~CookieLive'
       /\ page'.drafts <= 1]_clientVars
=============================================================================
