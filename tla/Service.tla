------------------------------- MODULE Service -------------------------------
(***************************************************************************)
(* Formal service of one notice (ServiceService) over the tracked e-mail   *)
(* layer (EmailDeliveryService), which also carries the notifications to   *)
(* the members of the case (NotificationsService).  The mail provider may  *)
(* refuse a mail for now or for good, and reports what became of an        *)
(* accepted one by webhooks that come in any order, any number of times,   *)
(* or never.  A recipient or member has one mail here.                     *)
(***************************************************************************)
EXTENDS Handlers

CONSTANTS
  Recipients,  \* the recipients of the notice
  Members,     \* the case members a notification goes to
  MaxFailures  \* bound: noticeFailure rows of a recipient

VARIABLES
  notice,       \* status of the formalNotice row
  recipient,    \* status of each noticeRecipient row
  accessed,     \* the recipients with noticeAccessEvent rows
  acknowledged, \* the recipients with noticeAcknowledgement rows
  failures,     \* noticeFailure rows of each recipient: open and resolved
  certificate,  \* the serviceCertificate row: the statuses it is sealed with
  delivery,     \* the emailDelivery row of each mail
  notified      \* the members with an in-platform notification

vars == <<task, alone, notice, recipient, accessed, acknowledged, failures, certificate,
          delivery, notified>>
serviceVars == <<notice, recipient, accessed, acknowledged, failures, certificate>>

Mail == Recipients \cup Members
NoticeStatus == {"PORTAL_AVAILABLE", "EMAIL_SENT", "DELIVERY_FAILED", "ACCESSED", "ACKNOWLEDGED",
                 "SUBSTITUTE_SERVICE_REQUIRED", "SERVICE_COMPLETED"}
MaxAttempts == 4
NoMail == [status |-> "NONE", kind |-> "none", attempts |-> 0, next |-> FALSE, known |-> FALSE]
NoCertificate == [sealed |-> FALSE, document |-> FALSE]

Init ==
  /\ HandlersInit
  /\ notice = "NONE"
  /\ recipient = [p \in Recipients |-> "NONE"]
  /\ accessed = {} /\ acknowledged = {} /\ notified = {}
  /\ failures = [p \in Recipients |-> [open |-> 0, resolved |-> 0]]
  /\ certificate = NoCertificate
  /\ delivery = [m \in Mail |-> NoMail]
-----------------------------------------------------------------------------
(* Issuing the notice, and notifying the members: mail by mail *)

\* task.todo: the mails that are still to be dealt with, each with its attempt.
Mails(r, origin, todo) ==
  IF todo = {} THEN Finish(r)
  ELSE \E t \in todo : Continue(r, [step |-> IF origin = "retry" THEN "send" ELSE "queue",
                                    origin |-> origin, m |-> t.m, attempt |-> t.attempt,
                                    todo |-> todo \ {t}])

First(mails) == {[m |-> m, attempt |-> 1] : m \in mails}

\* The notice with its recipients; the mails follow.  emails: who has an address.
issueNotice(r, emails) ==
  /\ notice = "NONE"
  /\ notice' = "PORTAL_AVAILABLE"
  /\ recipient' = [p \in Recipients |-> "PORTAL_AVAILABLE"]
  /\ Begin(r, [step |-> "mails", origin |-> "notice", todo |-> First(emails)])
  /\ UNCHANGED <<accessed, acknowledged, failures, certificate, delivery, notified>>

\* Bound: each member is notified once.  A handler of another service is at work.
notifyCaseMembers(r) ==
  /\ notified = {} /\ Members # {}
  /\ Begin(r, [step |-> "mails", origin |-> "members", todo |-> First(Members)])
  /\ UNCHANGED <<serviceVars, delivery, notified>>

startMails(r) ==
  /\ At(r, "mails")
  /\ Mails(r, task[r].origin, task[r].todo)
  /\ UNCHANGED <<serviceVars, delivery, notified>>

\* sendTracked: the row of the mail, after the notification it is for (dispatch).
sendTracked(r) ==
  /\ At(r, "queue")
  /\ delivery' = [delivery EXCEPT ![task[r].m] = [NoMail EXCEPT !.status = "QUEUED"]]
  /\ notified' = notified \cup ({task[r].m} \cap Members)
  /\ Continue(r, [task[r] EXCEPT !.step = "send"])
  /\ UNCHANGED serviceVars

\* EmailService: the provider accepts the mail, or not (for now, or for good).
send(r) ==
  /\ At(r, "send")
  /\ \E outcome \in {"sent", "TEMPORARY", "PERMANENT"} :
       Continue(r, [step |-> IF outcome = "sent" THEN "accepted" ELSE "refused",
                    kind |-> outcome, origin |-> task[r].origin, m |-> task[r].m,
                    attempt |-> task[r].attempt, todo |-> task[r].todo])
  /\ UNCHANGED <<serviceVars, delivery, notified>>

\* A mail of the notice has its outcome noted on the recipient as well.
Outcome(r, outcome) ==
  IF task[r].origin = "notice" THEN Continue(r, [task[r] EXCEPT !.step = "outcome", !.kind = outcome])
  ELSE Mails(r, task[r].origin, task[r].todo)

\* attemptSend, accepted.  If the row cannot be updated, the catch clause takes the
\* mail for one that failed for now.
markSent(r) ==
  /\ At(r, "accepted")
  /\ \/ /\ delivery' = [delivery EXCEPT ![task[r].m] =
                         [status |-> "SENT", kind |-> "none", attempts |-> task[r].attempt,
                          next |-> FALSE, known |-> TRUE]]
        /\ Outcome(r, "sent")
     \/ /\ Continue(r, [task[r] EXCEPT !.step = "refused", !.kind = "TEMPORARY"])
        /\ UNCHANGED delivery
  /\ UNCHANGED <<serviceVars, notified>>

retryable(t) == t.kind = "TEMPORARY" /\ t.attempt < MaxAttempts

\* Mutant: only a permanent failure is taken for the last word.
markFailedSilently(r) ==
  /\ At(r, "refused")
  /\ delivery' = [delivery EXCEPT ![task[r].m] =
                   [@ EXCEPT !.status = "FAILED", !.kind = task[r].kind,
                             !.attempts = task[r].attempt, !.next = retryable(task[r])]]
  /\ IF task[r].kind = "PERMANENT" /\ task[r].m \in Recipients
     THEN Continue(r, [task[r] EXCEPT !.step = "fallback"])
     ELSE Outcome(r, IF retryable(task[r]) THEN "pending" ELSE "failed")
  /\ UNCHANGED <<serviceVars, notified>>

\* attemptSend, the catch clause.
markFailed(r) ==
  /\ At(r, "refused")
  /\ delivery' = [delivery EXCEPT ![task[r].m] =
                   [@ EXCEPT !.status = "FAILED", !.kind = task[r].kind,
                             !.attempts = task[r].attempt, !.next = retryable(task[r])]]
  /\ IF ~retryable(task[r]) /\ task[r].m \in Recipients
     THEN Continue(r, [task[r] EXCEPT !.step = "fallback"])
     ELSE Outcome(r, IF retryable(task[r]) THEN "pending" ELSE "failed")
  /\ UNCHANGED <<serviceVars, notified>>

\* The rest of issueNotice for one recipient: the status is written over whatever
\* the recipient has done meanwhile.
noteOutcome(r) ==
  /\ At(r, "outcome")
  /\ recipient' = CASE task[r].kind = "sent" -> [recipient EXCEPT ![task[r].m] = "EMAIL_SENT"]
                    [] task[r].kind = "failed" -> [recipient EXCEPT ![task[r].m] = "DELIVERY_FAILED"]
                    [] OTHER -> recipient
  /\ Mails(r, "notice", task[r].todo)
  /\ UNCHANGED <<notice, accessed, acknowledged, failures, certificate, delivery, notified>>
\* The catch clause of issueNotice: the mail's row could not be written.
recordDispatchFailure(r) ==
  /\ At(r, "queue") /\ task[r].origin = "notice"
  /\ failures' = [failures EXCEPT ![task[r].m].open = @ + 1]
  /\ Continue(r, [step |-> "outcome", kind |-> "failed", origin |-> "notice", m |-> task[r].m,
                  attempt |-> task[r].attempt, todo |-> task[r].todo])
  /\ UNCHANGED <<notice, recipient, accessed, acknowledged, certificate, delivery, notified>>
-----------------------------------------------------------------------------
(* raiseManualFallback: three writes, of a failed send or of a webhook *)

failRecipient(r) ==
  /\ At(r, "fallback")
  /\ recipient' = [recipient EXCEPT ![task[r].m] = "DELIVERY_FAILED"]
  /\ Continue(r, [task[r] EXCEPT !.step = "failure"])
  /\ UNCHANGED <<notice, accessed, acknowledged, failures, certificate, delivery, notified>>

recordFailure(r) ==
  /\ At(r, "failure")
  /\ failures' = [failures EXCEPT ![task[r].m].open = @ + 1]
  /\ Continue(r, [task[r] EXCEPT !.step = "require"])
  /\ UNCHANGED <<notice, recipient, accessed, acknowledged, certificate, delivery, notified>>

requireSubstitute(r) ==
  /\ At(r, "require")
  /\ notice' = "SUBSTITUTE_SERVICE_REQUIRED"
  /\ IF task[r].origin = "webhook" THEN Finish(r) ELSE Outcome(r, "failed")
  /\ UNCHANGED <<recipient, accessed, acknowledged, failures, certificate, delivery, notified>>
-----------------------------------------------------------------------------
(* The retry sweep and the provider's webhooks *)

\* Mutant: the kind of the failure is not looked at.
DueWhateverKind(m) == delivery[m].status = "FAILED" /\ delivery[m].attempts < MaxAttempts

Due(m) == /\ delivery[m].status = "FAILED" /\ delivery[m].kind = "TEMPORARY"
          /\ delivery[m].next /\ delivery[m].attempts < MaxAttempts

\* The rows are listed once; the attempt counts on from what was read.
retryDue(r) ==
  LET due == {[m |-> m, attempt |-> delivery[m].attempts + 1] : m \in {m \in Mail : Due(m)}}
  IN  /\ due # {}
      /\ Begin(r, [step |-> "mails", origin |-> "retry", todo |-> due])
      /\ UNCHANGED <<serviceVars, delivery, notified>>

\* opened and clicked are not told apart from delivered, nor complained from bounced.
statusForEvent == [sent |-> "SENT", delivered |-> "DELIVERED", bounced |-> "BOUNCED", failed |-> "FAILED"]
ProviderEvent == DOMAIN statusForEvent \cup {"delivery_delayed"}

\* An event about a message id that no row has is ignored.
handleProviderEvent(r, m, type) ==
  /\ delivery[m].known
  /\ delivery' = [delivery EXCEPT ![m].status =
                    IF type = "delivery_delayed" THEN @ ELSE statusForEvent[type]]
  /\ IF type \in {"bounced", "failed"} /\ m \in Recipients
     THEN /\ failures[m].open + failures[m].resolved < MaxFailures
          /\ Begin(r, [step |-> "fallback", origin |-> "webhook", m |-> m])
     ELSE AtOnce(r)
  /\ UNCHANGED <<serviceVars, notified>>
-----------------------------------------------------------------------------
(* Access, acknowledgement, substitute service, certificate *)

recordAccess(r, p) ==
  /\ notice # "NONE"
  /\ accessed' = accessed \cup {p}
  /\ Begin(r, [step |-> "access", m |-> p])
  /\ UNCHANGED <<notice, recipient, acknowledged, failures, certificate, delivery, notified>>

\* Whatever the status was, an acknowledgement included.
setAccessed(r) ==
  /\ At(r, "access")
  /\ recipient' = [recipient EXCEPT ![task[r].m] = "ACCESSED"]
  /\ Finish(r)
  /\ UNCHANGED <<notice, accessed, acknowledged, failures, certificate, delivery, notified>>

\* Mutant: the last acknowledgement completes the service without a certificate.
acknowledgeLast(r, p) ==
  /\ notice # "NONE"
  /\ recipient' = [recipient EXCEPT ![p] = "ACKNOWLEDGED"]
  /\ acknowledged' = acknowledged \cup {p}
  /\ notice' = IF acknowledged' = Recipients THEN "SERVICE_COMPLETED" ELSE "ACKNOWLEDGED"
  /\ AtOnce(r)
  /\ UNCHANGED <<accessed, failures, certificate, delivery, notified>>

\* One transaction; the acknowledgement of one recipient is that of the notice.
acknowledge(r, p) ==
  /\ notice # "NONE"
  /\ recipient' = [recipient EXCEPT ![p] = "ACKNOWLEDGED"]
  /\ notice' = "ACKNOWLEDGED"
  /\ acknowledged' = acknowledged \cup {p}
  /\ AtOnce(r)
  /\ UNCHANGED <<accessed, failures, certificate, delivery, notified>>

\* The order's row says nothing the properties need.
orderSubstituteService(r) ==
  /\ notice # "NONE"
  /\ notice' = "SUBSTITUTE_SERVICE_REQUIRED"
  /\ Begin(r, [step |-> "resolve"])
  /\ UNCHANGED <<recipient, accessed, acknowledged, failures, certificate, delivery, notified>>

resolveFailures(r) ==
  /\ At(r, "resolve")
  /\ failures' = [p \in Recipients |-> [open |-> 0, resolved |-> failures[p].open + failures[p].resolved]]
  /\ Finish(r)
  /\ UNCHANGED <<notice, recipient, accessed, acknowledged, certificate, delivery, notified>>

allCompleted == \A p \in Recipients : recipient[p] \in {"ACCESSED", "ACKNOWLEDGED"}

\* A certificate is made once.  The recipients are read first.
generateCertificate(r) ==
  /\ notice # "NONE" /\ ~certificate.sealed
  /\ Begin(r, [step |-> "seal", completed |-> allCompleted])
  /\ UNCHANGED <<serviceVars, delivery, notified>>

\* noticeId is unique: a second certificate, and its transaction, fails.
sealCertificate(r) ==
  /\ At(r, "seal")
  /\ IF certificate.sealed THEN Finish(r) /\ UNCHANGED <<certificate, notice>>
     ELSE /\ certificate' = [certificate EXCEPT !.sealed = TRUE]
          /\ notice' = IF task[r].completed THEN "SERVICE_COMPLETED" ELSE notice
          /\ Continue(r, [step |-> "document"])
  /\ UNCHANGED <<recipient, accessed, acknowledged, failures, delivery, notified>>

storeDocument(r) ==
  /\ At(r, "document")
  /\ certificate' = [certificate EXCEPT !.document = TRUE]
  /\ Finish(r)
  /\ UNCHANGED <<notice, recipient, accessed, acknowledged, failures, delivery, notified>>
-----------------------------------------------------------------------------
\* The routes of ServiceController.
ServiceController(r) ==
  \/ \E emails \in SUBSET Recipients : issueNotice(r, emails)
  \/ \E p \in Recipients : recordAccess(r, p) \/ acknowledge(r, p)
  \/ orderSubstituteService(r)
  \/ generateCertificate(r)

\* The routes of the webhook and of the retry sweep.
EmailWebhookController(r) ==
  \/ \E m \in Mail, type \in ProviderEvent : handleProviderEvent(r, m, type)
  \/ retryDue(r)

Work(r) ==
  \/ startMails(r) \/ sendTracked(r) \/ send(r) \/ markSent(r) \/ markFailed(r) \/ noteOutcome(r)
  \/ recordDispatchFailure(r)
  \/ failRecipient(r) \/ recordFailure(r) \/ requireSubstitute(r)
  \/ setAccessed(r) \/ resolveFailures(r) \/ sealCertificate(r) \/ storeDocument(r)

Next == \E r \in Requests : \/ ServiceController(r) \/ EmailWebhookController(r)
                            \/ notifyCaseMembers(r) \/ Work(r)

Spec == Init /\ [][Next]_vars
-----------------------------------------------------------------------------
(* Properties *)

\* E-mail dispatch is never proof of receipt: service is certified as completed only
\* when every recipient opened the notice or acknowledged it, whatever the provider
\* reports and however the handlers interleave.
CompletedIsEvidenced ==
  notice = "SERVICE_COMPLETED" => Recipients \subseteq accessed \cup acknowledged

\* Permanent failures are never retried, and no mail is tried more than four times:
\* of requests that run one at a time, none sends such a mail again.
PermanentNotRetried ==
  Serial => \A r \in Requests :
    At(r, "send") /\ delivery[task[r].m].status = "FAILED" => delivery[task[r].m].next

\* Between requests that run one at a time, a mail of the notice that has failed for
\* good, at once, after its last retry or by the provider's report, has left a
\* failure on record for its recipient, for substitute service to resolve.
FailureIsRecorded ==
  Serial /\ Quiet => \A p \in Recipients :
    \/ delivery[p].status = "BOUNCED"
    \/ delivery[p].status = "FAILED" /\ ~delivery[p].next
    => failures[p].open + failures[p].resolved > 0

Proof ==
  INSTANCE ProofOfService WITH
    evidence <- accessed \cup acknowledged, certified <- certificate.sealed,
    documented <- certificate.document, served <- notice = "SERVICE_COMPLETED"

\* However handlers, retries and reports interleave, and wherever a request stops,
\* they promise of the service what ProofOfService says: the certificate is made
\* once, a notice is completed by its sealing alone, on what is evidenced by then,
\* and no later event completes a notice that was reopened.
ServiceIsProven == Proof!Spec
=============================================================================
