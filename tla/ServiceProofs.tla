---------------------------- MODULE ServiceProofs ----------------------------
(***************************************************************************)
(* Theorems about Service, for any recipients, members, requests and bound *)
(* of failures: however the handlers, the retries and the provider's       *)
(* reports interleave, and wherever a request stops; what becomes of a     *)
(* failed delivery where requests run one at a time.                       *)
(***************************************************************************)
EXTENDS Service, TLAPS

-----------------------------------------------------------------------------
(* The shape of rows and of requests in progress *)

Origin == {"notice", "members", "retry"}
Kind == {"sent", "TEMPORARY", "PERMANENT", "pending", "failed"}
Todo == SUBSET [m : Mail, attempt : Int]

MailTask == [step : {"queue", "send"}, origin : Origin, m : Mail, attempt : Int, todo : Todo]
OutcomeTask == [step : {"accepted", "refused", "outcome", "fallback", "failure", "require"},
                kind : Kind, origin : Origin, m : Mail, attempt : Int, todo : Todo]
WebhookTask == [step : {"fallback", "failure", "require"}, origin : {"webhook"}, m : Mail]

\* Tasks that claim nothing, and the two that do.
PlainTask ==
  {Idle, [step |-> "resolve"]}
  \cup [step : {"mails"}, origin : Origin, todo : Todo]
  \cup MailTask \cup OutcomeTask \cup WebhookTask
AccessTask == [step : {"access"}, m : Recipients]
SealTask == [step : {"seal"}, completed : BOOLEAN] \cup {[step |-> "document"]}

DeliveryRow == [status : {"NONE", "QUEUED", "SENT", "FAILED", "DELIVERED", "BOUNCED"},
                kind : {"none"} \cup Kind, attempts : Int, next : BOOLEAN, known : BOOLEAN]

Shape == /\ task \in [Requests -> PlainTask \cup AccessTask \cup SealTask]
         /\ DOMAIN recipient = Recipients /\ recipient = [p \in Recipients |-> recipient[p]]
         /\ delivery \in [Mail -> DeliveryRow]
         /\ certificate \in [sealed : BOOLEAN, document : BOOLEAN]

(* What is written of the recipients and the notice has its reason on file, *)
(* which is never removed; a request about to write it has seen it.         *)
Evidence == accessed \cup acknowledged
Grounds ==
  /\ \A p \in Recipients : recipient[p] \in {"ACCESSED", "ACKNOWLEDGED"} => p \in Evidence
  /\ \A r \in Requests : task[r].step = "access" => task[r].m \in accessed
  /\ \A r \in Requests : task[r].step = "seal" => (task[r].completed => Recipients \subseteq Evidence)
  /\ \A r \in Requests : task[r].step = "document" => certificate.sealed

IInv == Shape /\ Grounds /\ CompletedIsEvidenced
-----------------------------------------------------------------------------
(* How a request goes on *)

Goes(r) == \E w \in PlainTask : task' = [task EXCEPT ![r] = w]

\* The tasks that write the evidenced statuses are none of the plain ones.
LEMMA PlainStep == \A w \in PlainTask : w.step \notin {"access", "seal", "document"}
BY DEF PlainTask, MailTask, OutcomeTask, WebhookTask, Idle

LEMMA ClaimingStep == /\ \A w \in AccessTask : w.step = "access" /\ w.m \in Recipients
                      /\ \A w \in SealTask : w.step = "document" \/ (w.step = "seal" /\ w.completed \in BOOLEAN)
BY DEF AccessTask, SealTask

\* A request at a step of a mail is a mail's task: it has the fields of one.
LEMMA MailStep ==
  ASSUME Shape, NEW r \in Requests, At(r, "queue") \/ At(r, "send")
  PROVE  task[r] \in MailTask
BY DEF Shape, At, PlainTask, MailTask, OutcomeTask, WebhookTask, AccessTask, SealTask, Idle

LEMMA OutcomeStep ==
  ASSUME Shape, NEW r \in Requests, At(r, "accepted") \/ At(r, "refused") \/ At(r, "outcome")
  PROVE  task[r] \in OutcomeTask
BY DEF Shape, At, PlainTask, MailTask, OutcomeTask, WebhookTask, AccessTask, SealTask, Idle

LEMMA FallbackStep ==
  ASSUME Shape, NEW r \in Requests, At(r, "fallback") \/ At(r, "failure") \/ At(r, "require")
  PROVE  task[r] \in OutcomeTask \cup WebhookTask
BY DEF Shape, At, PlainTask, MailTask, OutcomeTask, WebhookTask, AccessTask, SealTask, Idle

\* A handler that goes through mails takes the next one, or ends.
LEMMA MailsGo ==
  ASSUME NEW r \in Requests, NEW origin \in Origin, NEW todo \in Todo, Mails(r, origin, todo)
  PROVE  Goes(r)
<1>1. CASE todo = {}
  BY <1>1 DEF Mails, Finish, Continue, Goes, PlainTask
<1>2. CASE todo # {}
  <2>1. PICK t \in todo :
          Continue(r, [step |-> IF origin = "retry" THEN "send" ELSE "queue",
                       origin |-> origin, m |-> t.m, attempt |-> t.attempt, todo |-> todo \ {t}])
    BY <1>2 DEF Mails
  <2>2. t.m \in Mail /\ t.attempt \in Int /\ todo \ {t} \in Todo
    BY DEF Todo
  <2>3. [step |-> IF origin = "retry" THEN "send" ELSE "queue",
         origin |-> origin, m |-> t.m, attempt |-> t.attempt, todo |-> todo \ {t}] \in MailTask
    BY <2>2 DEF MailTask
  <2>4. QED BY <2>1, <2>3 DEF Continue, Goes, PlainTask
<1>3. QED BY <1>1, <1>2

LEMMA OutcomeGoes ==
  ASSUME NEW r \in Requests, task[r] \in OutcomeTask, NEW outcome \in Kind, Outcome(r, outcome)
  PROVE  Goes(r)
<1>1. task[r].origin \in Origin /\ task[r].todo \in Todo
  BY DEF OutcomeTask
<1>2. CASE task[r].origin = "notice"
  <2>1. [task[r] EXCEPT !.step = "outcome", !.kind = outcome] \in OutcomeTask
    BY DEF OutcomeTask
  <2>2. QED BY <1>2, <2>1 DEF Outcome, Continue, Goes, PlainTask
<1>3. CASE task[r].origin # "notice"
  BY <1>1, <1>3, MailsGo DEF Outcome
<1>4. QED BY <1>2, <1>3
-----------------------------------------------------------------------------
(* A step that adds to the evidence, and claims no more than there is *)

Grows == accessed \subseteq accessed' /\ acknowledged \subseteq acknowledged'

RowsStep ==
  /\ recipient' = [p \in Recipients |-> recipient'[p]]
  /\ delivery' \in [Mail -> DeliveryRow]
  /\ certificate' \in [sealed : BOOLEAN, document : BOOLEAN] /\ (certificate.sealed => certificate'.sealed)
  /\ \A p \in Recipients : recipient'[p] \in {"ACCESSED", "ACKNOWLEDGED"} =>
       recipient'[p] = recipient[p] \/ p \in Evidence'
  /\ notice' = "SERVICE_COMPLETED" => notice = "SERVICE_COMPLETED" \/ Recipients \subseteq Evidence'

Claims(w) ==
  /\ w.step = "access" => w.m \in accessed'
  /\ w.step = "seal" => (w.completed => Recipients \subseteq Evidence')
  /\ w.step = "document" => certificate'.sealed

LEMMA Preserved ==
  ASSUME IInv, Grows, RowsStep, NEW r \in Requests,
         NEW w \in PlainTask \cup AccessTask \cup SealTask, Claims(w),
         task' = [task EXCEPT ![r] = w]
  PROVE  IInv'
<1>1. \A s \in Requests : task'[s] = IF s = r THEN w ELSE task[s]
  BY DEF IInv, Shape
<1>2. Shape'
  BY DEF IInv, Shape, RowsStep
<1>3. Evidence \subseteq Evidence'
  BY DEF Grows, Evidence
<1>4. \A p \in Recipients : recipient'[p] \in {"ACCESSED", "ACKNOWLEDGED"} => p \in Evidence'
  BY <1>3 DEF RowsStep, IInv, Grounds
<1>5. ASSUME NEW s \in Requests PROVE Claims(task'[s])
  <2>1. CASE s = r
    BY <1>1, <2>1
  <2>2. CASE s # r
    BY <1>1, <1>3, <2>2 DEF Claims, IInv, Grounds, Grows, RowsStep
  <2>3. QED BY <2>1, <2>2
<1>6. Grounds'
  BY <1>4, <1>5 DEF Grounds, Claims
<1>7. CompletedIsEvidenced'
  BY <1>3 DEF RowsStep, CompletedIsEvidenced, IInv, Evidence
<1>8. QED BY <1>2, <1>6, <1>7 DEF IInv

LEMMA PreservedPlain ==
  ASSUME IInv, Grows, RowsStep, NEW r \in Requests, Goes(r)
  PROVE  IInv'
<1>1. PICK w \in PlainTask : task' = [task EXCEPT ![r] = w]
  BY DEF Goes
<1>2. Claims(w)
  BY PlainStep DEF Claims
<1>3. QED BY <1>1, <1>2, Preserved

LEMMA PreservedAtOnce ==
  ASSUME IInv, Grows, RowsStep, UNCHANGED task
  PROVE  IInv'
<1>1. Evidence \subseteq Evidence'
  BY DEF Grows, Evidence
<1>2. Shape'
  BY DEF IInv, Shape, RowsStep
<1>3. Grounds'
  BY <1>1 DEF RowsStep, IInv, Grounds, Grows
<1>4. CompletedIsEvidenced'
  BY <1>1 DEF RowsStep, CompletedIsEvidenced, IInv, Evidence
<1>5. QED BY <1>2, <1>3, <1>4 DEF IInv

\* What the notice and its recipients show is left alone.
LEMMA RowsKept ==
  ASSUME IInv, UNCHANGED <<notice, recipient, accessed, acknowledged, certificate>>, delivery' \in [Mail -> DeliveryRow]
  PROVE  Grows /\ RowsStep
BY DEF IInv, Shape, Grows, RowsStep, Evidence
-----------------------------------------------------------------------------
(* Mails *)

LEMMA FirstTodo == \A mails \in SUBSET Mail : First(mails) \in Todo
BY DEF First, Todo

LEMMA IssueNotice ==
  ASSUME IInv, NEW r \in Requests, NEW emails \in SUBSET Recipients, issueNotice(r, emails)
  PROVE  IInv'
<1>1. First(emails) \in Todo
  BY FirstTodo DEF Mail
<1>2. Goes(r)
  BY <1>1 DEF issueNotice, Begin, Goes, PlainTask, Origin
<1>3. Grows /\ RowsStep
  BY DEF issueNotice, serviceVars, IInv, Shape, Grows, RowsStep
<1>4. QED BY <1>2, <1>3, PreservedPlain

LEMMA NotifyCaseMembers ==
  ASSUME IInv, NEW r \in Requests, notifyCaseMembers(r)
  PROVE  IInv'
<1>1. First(Members) \in Todo
  BY FirstTodo DEF Mail
<1>2. Goes(r)
  BY <1>1 DEF notifyCaseMembers, Begin, Goes, PlainTask, Origin
<1>3. Grows /\ RowsStep
  BY RowsKept DEF notifyCaseMembers, serviceVars, IInv, Shape
<1>4. QED BY <1>2, <1>3, PreservedPlain

LEMMA StartMails ==
  ASSUME IInv, NEW r \in Requests, startMails(r)
  PROVE  IInv'
<1>1. task[r].origin \in Origin /\ task[r].todo \in Todo
  BY DEF startMails, At, IInv, Shape, PlainTask, MailTask, OutcomeTask, WebhookTask,
         AccessTask, SealTask, Idle
<1>2. Goes(r)
  BY <1>1, MailsGo DEF startMails
<1>3. Grows /\ RowsStep
  BY RowsKept DEF startMails, serviceVars, IInv, Shape
<1>4. QED BY <1>2, <1>3, PreservedPlain

LEMMA SendTracked ==
  ASSUME IInv, NEW r \in Requests, sendTracked(r)
  PROVE  IInv'
<1>1. task[r] \in MailTask
  BY MailStep DEF sendTracked, IInv
<1>2. [task[r] EXCEPT !.step = "send"] \in MailTask
  BY <1>1 DEF MailTask
<1>3. Goes(r)
  BY <1>2 DEF sendTracked, Continue, Goes, PlainTask
<1>4. delivery' \in [Mail -> DeliveryRow]
  <2>1. NoMail \in DeliveryRow
    BY DEF NoMail, DeliveryRow
  <2>2. [NoMail EXCEPT !.status = "QUEUED"] \in DeliveryRow
    BY <2>1 DEF DeliveryRow
  <2>3. QED BY <1>1, <2>2 DEF sendTracked, MailTask, IInv, Shape
<1>5. Grows /\ RowsStep
  BY <1>4, RowsKept DEF sendTracked, serviceVars
<1>6. QED BY <1>3, <1>5, PreservedPlain

LEMMA Send ==
  ASSUME IInv, NEW r \in Requests, send(r)
  PROVE  IInv'
<1>1. task[r] \in MailTask
  BY MailStep DEF send, IInv
<1>2. Goes(r)
  BY <1>1 DEF send, Continue, Goes, PlainTask, MailTask, OutcomeTask, Kind
<1>3. Grows /\ RowsStep
  BY RowsKept DEF send, serviceVars, IInv, Shape
<1>4. QED BY <1>2, <1>3, PreservedPlain

LEMMA MarkSent ==
  ASSUME IInv, NEW r \in Requests, markSent(r)
  PROVE  IInv'
<1>1. task[r] \in OutcomeTask
  BY OutcomeStep DEF markSent, IInv
<1>2. Goes(r)
  <2>1. CASE Outcome(r, "sent")
    BY <1>1, <2>1, OutcomeGoes DEF Kind
  <2>2. CASE Continue(r, [task[r] EXCEPT !.step = "refused", !.kind = "TEMPORARY"])
    <3>1. [task[r] EXCEPT !.step = "refused", !.kind = "TEMPORARY"] \in OutcomeTask
      BY <1>1 DEF OutcomeTask, Kind
    <3>2. QED BY <2>2, <3>1 DEF Continue, Goes, PlainTask
  <2>3. QED BY <2>1, <2>2 DEF markSent
<1>3. delivery' \in [Mail -> DeliveryRow]
  <2>1. [status |-> "SENT", kind |-> "none", attempts |-> task[r].attempt,
         next |-> FALSE, known |-> TRUE] \in DeliveryRow
    BY <1>1 DEF DeliveryRow, OutcomeTask
  <2>2. QED BY <1>1, <2>1 DEF markSent, OutcomeTask, IInv, Shape
<1>4. Grows /\ RowsStep
  BY <1>3, RowsKept DEF markSent, serviceVars
<1>5. QED BY <1>2, <1>4, PreservedPlain

LEMMA MarkFailed ==
  ASSUME IInv, NEW r \in Requests, markFailed(r)
  PROVE  IInv'
<1>1. task[r] \in OutcomeTask
  BY OutcomeStep DEF markFailed, IInv
<1>2. Goes(r)
  <2>1. CASE Continue(r, [task[r] EXCEPT !.step = "fallback"])
    <3>1. [task[r] EXCEPT !.step = "fallback"] \in OutcomeTask
      BY <1>1 DEF OutcomeTask
    <3>2. QED BY <2>1, <3>1 DEF Continue, Goes, PlainTask
  <2>2. CASE Outcome(r, IF retryable(task[r]) THEN "pending" ELSE "failed")
    BY <1>1, <2>2, OutcomeGoes DEF Kind
  <2>3. QED BY <2>1, <2>2 DEF markFailed
<1>3. delivery' \in [Mail -> DeliveryRow]
  <2>1. task[r].m \in Mail /\ task[r].kind \in Kind /\ task[r].attempt \in Int
    BY <1>1 DEF OutcomeTask
  <2>2. retryable(task[r]) \in BOOLEAN
    BY DEF retryable
  <2>3. delivery[task[r].m] \in DeliveryRow
    BY <2>1 DEF IInv, Shape
  <2>4. [delivery[task[r].m] EXCEPT !.status = "FAILED", !.kind = task[r].kind,
                                    !.attempts = task[r].attempt, !.next = retryable(task[r])] \in DeliveryRow
    BY <2>1, <2>2, <2>3 DEF DeliveryRow
  <2>5. QED BY <2>1, <2>4 DEF markFailed, IInv, Shape
<1>4. Grows /\ RowsStep
  BY <1>3, RowsKept DEF markFailed, serviceVars
<1>5. QED BY <1>2, <1>4, PreservedPlain

LEMMA NoteOutcome ==
  ASSUME IInv, NEW r \in Requests, noteOutcome(r)
  PROVE  IInv'
<1>1. task[r] \in OutcomeTask
  BY OutcomeStep DEF noteOutcome, IInv
<1>2. task[r].m \in Mail /\ task[r].todo \in Todo
  BY <1>1 DEF OutcomeTask
<1>3. Goes(r)
  BY <1>2, MailsGo DEF noteOutcome, Origin
<1>4. Grows /\ RowsStep
  <2>1. \/ recipient' = recipient
        \/ \E s \in {"EMAIL_SENT", "DELIVERY_FAILED"} : recipient' = [recipient EXCEPT ![task[r].m] = s]
    BY DEF noteOutcome
  <2>2. QED BY <2>1 DEF noteOutcome, IInv, Shape, Grows, RowsStep
<1>5. QED BY <1>3, <1>4, PreservedPlain

LEMMA RecordDispatchFailure ==
  ASSUME IInv, NEW r \in Requests, recordDispatchFailure(r)
  PROVE  IInv'
<1>1. task[r] \in MailTask
  BY MailStep DEF recordDispatchFailure, IInv
<1>2. Goes(r)
  BY <1>1 DEF recordDispatchFailure, Continue, Goes, PlainTask, MailTask, OutcomeTask, Kind, Origin
<1>3. Grows /\ RowsStep
  BY RowsKept DEF recordDispatchFailure, IInv, Shape
<1>4. QED BY <1>2, <1>3, PreservedPlain
-----------------------------------------------------------------------------
(* The manual fallback, retries and webhooks *)

LEMMA FallbackGoes ==
  ASSUME NEW r \in Requests, task[r] \in OutcomeTask \cup WebhookTask,
         NEW step \in {"failure", "require"}, Continue(r, [task[r] EXCEPT !.step = step])
  PROVE  Goes(r)
<1>1. [task[r] EXCEPT !.step = step] \in OutcomeTask \cup WebhookTask
  BY DEF OutcomeTask, WebhookTask
<1>2. QED BY <1>1 DEF Continue, Goes, PlainTask

LEMMA FailRecipient ==
  ASSUME IInv, NEW r \in Requests, failRecipient(r)
  PROVE  IInv'
<1>1. task[r] \in OutcomeTask \cup WebhookTask
  BY FallbackStep DEF failRecipient, IInv
<1>2. Goes(r)
  BY <1>1, FallbackGoes DEF failRecipient
<1>3. Grows /\ RowsStep
  BY DEF failRecipient, IInv, Shape, Grows, RowsStep
<1>4. QED BY <1>2, <1>3, PreservedPlain

LEMMA RecordFailure ==
  ASSUME IInv, NEW r \in Requests, recordFailure(r)
  PROVE  IInv'
<1>1. task[r] \in OutcomeTask \cup WebhookTask
  BY FallbackStep DEF recordFailure, IInv
<1>2. Goes(r)
  BY <1>1, FallbackGoes DEF recordFailure
<1>3. Grows /\ RowsStep
  BY RowsKept DEF recordFailure, IInv, Shape
<1>4. QED BY <1>2, <1>3, PreservedPlain

LEMMA RequireSubstitute ==
  ASSUME IInv, NEW r \in Requests, requireSubstitute(r)
  PROVE  IInv'
<1>1. task[r] \in OutcomeTask \cup WebhookTask
  BY FallbackStep DEF requireSubstitute, IInv
<1>2. Goes(r)
  <2>1. CASE task[r].origin = "webhook"
    BY <2>1 DEF requireSubstitute, Finish, Continue, Goes, PlainTask
  <2>2. CASE task[r].origin # "webhook"
    <3>1. task[r] \in OutcomeTask
      BY <1>1, <2>2 DEF WebhookTask
    <3>2. QED BY <2>2, <3>1, OutcomeGoes DEF requireSubstitute, Kind
  <2>3. QED BY <2>1, <2>2
<1>3. Grows /\ RowsStep
  BY DEF requireSubstitute, IInv, Shape, Grows, RowsStep
<1>4. QED BY <1>2, <1>3, PreservedPlain

LEMMA RetryDue ==
  ASSUME IInv, NEW r \in Requests, retryDue(r)
  PROVE  IInv'
<1>1. \A m \in Mail : delivery[m].attempts + 1 \in Int
  BY DEF IInv, Shape, DeliveryRow
<1>2. {[m |-> m, attempt |-> delivery[m].attempts + 1] : m \in {m \in Mail : Due(m)}} \in Todo
  BY <1>1 DEF Todo
<1>3. Goes(r)
  BY <1>2 DEF retryDue, Begin, Goes, PlainTask, Origin
<1>4. Grows /\ RowsStep
  BY RowsKept DEF retryDue, serviceVars, IInv, Shape
<1>5. QED BY <1>3, <1>4, PreservedPlain

LEMMA HandleProviderEvent ==
  ASSUME IInv, NEW r \in Requests, NEW m \in Mail, NEW type \in ProviderEvent,
         handleProviderEvent(r, m, type)
  PROVE  IInv'
<1>1. delivery' \in [Mail -> DeliveryRow]
  <2>1. type # "delivery_delayed" => statusForEvent[type] \in {"SENT", "DELIVERED", "BOUNCED", "FAILED"}
    BY DEF ProviderEvent, statusForEvent
  <2>2. QED BY <2>1 DEF handleProviderEvent, DeliveryRow, IInv, Shape
<1>2. Grows /\ RowsStep
  BY <1>1, RowsKept DEF handleProviderEvent, serviceVars
<1>3. CASE type \in {"bounced", "failed"} /\ m \in Recipients
  <2>1. Goes(r)
    BY <1>3 DEF handleProviderEvent, Begin, Goes, PlainTask, WebhookTask
  <2>2. QED BY <1>2, <2>1, PreservedPlain
<1>4. CASE ~(type \in {"bounced", "failed"} /\ m \in Recipients)
  <2>1. UNCHANGED task
    BY <1>4 DEF handleProviderEvent, AtOnce
  <2>2. QED BY <1>2, <2>1, PreservedAtOnce
<1>5. QED BY <1>3, <1>4
-----------------------------------------------------------------------------
(* Access, acknowledgement, substitute service, certificate *)

LEMMA RecordAccess ==
  ASSUME IInv, NEW r \in Requests, NEW p \in Recipients, recordAccess(r, p)
  PROVE  IInv'
<1>1. [step |-> "access", m |-> p] \in AccessTask
  BY DEF AccessTask
<1>2. Claims([step |-> "access", m |-> p])
  BY DEF recordAccess, Claims
<1>3. Grows /\ RowsStep
  BY DEF recordAccess, IInv, Shape, Grows, RowsStep
<1>4. task' = [task EXCEPT ![r] = [step |-> "access", m |-> p]]
  BY DEF recordAccess, Begin
<1>5. QED BY <1>1, <1>2, <1>3, <1>4, Preserved

LEMMA SetAccessed ==
  ASSUME IInv, NEW r \in Requests, setAccessed(r)
  PROVE  IInv'
<1>1. task[r].m \in accessed
  BY DEF setAccessed, At, IInv, Grounds
<1>2. Goes(r)
  BY DEF setAccessed, Finish, Continue, Goes, PlainTask
<1>3. Grows /\ RowsStep
  BY <1>1 DEF setAccessed, IInv, Shape, Grows, RowsStep, Evidence
<1>4. QED BY <1>2, <1>3, PreservedPlain

LEMMA Acknowledge ==
  ASSUME IInv, NEW r \in Requests, NEW p \in Recipients, acknowledge(r, p)
  PROVE  IInv'
<1>1. Grows /\ RowsStep
  BY DEF acknowledge, IInv, Shape, Grows, RowsStep, Evidence
<1>2. UNCHANGED task
  BY DEF acknowledge, AtOnce
<1>3. QED BY <1>1, <1>2, PreservedAtOnce

LEMMA OrderSubstituteService ==
  ASSUME IInv, NEW r \in Requests, orderSubstituteService(r)
  PROVE  IInv'
<1>1. Goes(r)
  BY DEF orderSubstituteService, Begin, Goes, PlainTask
<1>2. Grows /\ RowsStep
  BY DEF orderSubstituteService, IInv, Shape, Grows, RowsStep
<1>3. QED BY <1>1, <1>2, PreservedPlain

LEMMA ResolveFailures ==
  ASSUME IInv, NEW r \in Requests, resolveFailures(r)
  PROVE  IInv'
<1>1. Goes(r)
  BY DEF resolveFailures, Finish, Continue, Goes, PlainTask
<1>2. Grows /\ RowsStep
  BY RowsKept DEF resolveFailures, IInv, Shape
<1>3. QED BY <1>1, <1>2, PreservedPlain

\* What was read of the recipients was evidenced then, and is evidenced still.
LEMMA GenerateCertificate ==
  ASSUME IInv, NEW r \in Requests, generateCertificate(r)
  PROVE  IInv'
<1> DEFINE w == [step |-> "seal", completed |-> allCompleted]
<1>1. w \in SealTask
  BY DEF SealTask, allCompleted
<1>2. allCompleted => Recipients \subseteq Evidence
  BY DEF allCompleted, IInv, Grounds
<1>3. Evidence' = Evidence
  BY DEF generateCertificate, serviceVars, Evidence
<1>4. Claims(w)
  BY <1>2, <1>3 DEF Claims
<1>5. Grows /\ RowsStep
  BY RowsKept DEF generateCertificate, serviceVars, IInv, Shape
<1>6. task' = [task EXCEPT ![r] = w]
  BY DEF generateCertificate, Begin
<1> HIDE DEF w
<1>7. QED BY <1>1, <1>4, <1>5, <1>6, Preserved

LEMMA SealCertificate ==
  ASSUME IInv, NEW r \in Requests, sealCertificate(r)
  PROVE  IInv'
<1>1. PICK w \in {Idle, [step |-> "document"]} :
        task' = [task EXCEPT ![r] = w] /\ (w = Idle \/ certificate'.sealed)
  BY DEF sealCertificate, Finish, Continue, IInv, Shape
<1>2. task[r].completed => Recipients \subseteq Evidence
  BY DEF sealCertificate, At, IInv, Grounds
<1>3. Evidence' = Evidence
  BY DEF sealCertificate, Evidence
<1>4. Grows /\ RowsStep
  BY <1>2, <1>3 DEF sealCertificate, IInv, Shape, Grows, RowsStep
<1>5. w \in PlainTask \cup SealTask /\ Claims(w)
  BY <1>1 DEF PlainTask, SealTask, Claims, Idle
<1>6. QED BY <1>1, <1>4, <1>5, Preserved

LEMMA StoreDocument ==
  ASSUME IInv, NEW r \in Requests, storeDocument(r)
  PROVE  IInv'
<1>1. Goes(r)
  BY DEF storeDocument, Finish, Continue, Goes, PlainTask
<1>2. Grows /\ RowsStep
  BY DEF storeDocument, IInv, Shape, Grows, RowsStep, Evidence
<1>3. QED BY <1>1, <1>2, PreservedPlain
-----------------------------------------------------------------------------
(* The theorem *)

LEMMA InitInvariant == Init => IInv
<1> SUFFICES ASSUME Init PROVE IInv
  OBVIOUS
<1>1. \A r \in Requests : task[r] = Idle
  BY DEF Init, HandlersInit
<1>2. NoMail \in DeliveryRow
  BY DEF NoMail, DeliveryRow
<1>3. Shape
  BY <1>2 DEF Init, HandlersInit, Shape, PlainTask, NoCertificate
<1>4. Grounds
  BY <1>1 DEF Init, Grounds, Idle
<1>5. CompletedIsEvidenced
  BY DEF Init, CompletedIsEvidenced
<1>6. QED BY <1>3, <1>4, <1>5 DEF IInv

LEMMA NextInvariant == IInv /\ [Next]_vars => IInv'
<1> SUFFICES ASSUME IInv, [Next]_vars PROVE IInv'
  OBVIOUS
<1>1. CASE UNCHANGED vars
  <2>1. Grows /\ RowsStep /\ UNCHANGED task
    BY <1>1, RowsKept DEF vars, IInv, Shape
  <2>2. QED BY <2>1, PreservedAtOnce
<1>2. CASE Next
  <2>1. PICK r \in Requests : \/ ServiceController(r) \/ EmailWebhookController(r)
                              \/ notifyCaseMembers(r) \/ Work(r)
    BY <1>2 DEF Next
  <2>2. CASE ServiceController(r)
    BY <2>2, IssueNotice, RecordAccess, Acknowledge, OrderSubstituteService, GenerateCertificate
       DEF ServiceController
  <2>3. CASE EmailWebhookController(r)
    BY <2>3, HandleProviderEvent, RetryDue DEF EmailWebhookController
  <2>4. CASE notifyCaseMembers(r)
    BY <2>4, NotifyCaseMembers
  <2>5. CASE Work(r)
    BY <2>5, StartMails, SendTracked, Send, MarkSent, MarkFailed, NoteOutcome,
       RecordDispatchFailure, FailRecipient, RecordFailure, RequireSubstitute,
       SetAccessed, ResolveFailures, SealCertificate, StoreDocument DEF Work
  <2>6. QED BY <2>1, <2>2, <2>3, <2>4, <2>5
<1>3. QED BY <1>1, <1>2

(* Service is certified as completed only on evidence of receipt: every     *)
(* recipient opened the notice or acknowledged it.  The reasoning is that   *)
(* evidence is only ever added, and that a certificate's request read       *)
(* recipients whose every status had its evidence (Grounds).                *)
THEOREM EvidencedService == Spec => []CompletedIsEvidenced
<1>1. IInv => CompletedIsEvidenced
  BY DEF IInv
<1>2. QED BY <1>1, InitInvariant, NextInvariant, PTL DEF Spec
-----------------------------------------------------------------------------
(* What the handlers promise of the service *)

\* A step that neither adds evidence nor seals leaves the promise alone, or
\* reopens a notice that was completed.
LEMMA Aside ==
  ASSUME UNCHANGED <<accessed, acknowledged, certificate>>,
         notice' = "SERVICE_COMPLETED" => notice = "SERVICE_COMPLETED"
  PROVE  [Proof!Next]_Proof!vars
BY DEF Proof!Next, Proof!vars, Proof!Reopen

\* Evidence is added; a completed notice lacked none.
LEMMA Received ==
  ASSUME IInv, NEW p \in Recipients, Evidence' = Evidence \cup {p}, UNCHANGED certificate,
         notice' = notice \/ notice' # "SERVICE_COMPLETED"
  PROVE  [Proof!Next]_Proof!vars
<1>1. CASE (notice = "SERVICE_COMPLETED") = (notice' = "SERVICE_COMPLETED")
  BY <1>1 DEF Proof!Next, Proof!vars, Proof!Receive, Evidence
<1>2. CASE notice = "SERVICE_COMPLETED" /\ notice' # "SERVICE_COMPLETED"
  <2>1. Evidence' = Evidence
    BY <1>2 DEF IInv, CompletedIsEvidenced, Evidence
  <2>2. QED BY <1>2, <2>1 DEF Proof!Next, Proof!vars, Proof!Reopen, Evidence
<1>3. QED BY <1>1, <1>2

LEMMA CertifyProves ==
  ASSUME IInv, NEW r \in Requests, sealCertificate(r)
  PROVE  [Proof!Next]_Proof!vars
<1>1. task[r].completed => Recipients \subseteq Evidence
  BY DEF sealCertificate, At, IInv, Grounds
<1>2. CASE certificate.sealed
  BY <1>2, Aside DEF sealCertificate
<1>3. CASE ~certificate.sealed
  <2>1. certificate'.sealed /\ certificate'.document = certificate.document
    BY <1>3 DEF sealCertificate, IInv, Shape
  <2>2. notice' = notice \/ (notice' = "SERVICE_COMPLETED" /\ Recipients \subseteq Evidence)
    BY <1>1, <1>3 DEF sealCertificate
  <2>3. QED
    BY <1>3, <2>1, <2>2 DEF sealCertificate, Proof!Next, Proof!vars, Proof!Certify, Evidence
<1>4. QED BY <1>2, <1>3

LEMMA StepProves ==
  ASSUME IInv, [Next]_vars
  PROVE  [Proof!Next]_Proof!vars
<1>1. CASE UNCHANGED vars
  BY <1>1, Aside DEF vars
<1>2. CASE Next
  <2>1. PICK r \in Requests : \/ ServiceController(r) \/ EmailWebhookController(r)
                              \/ notifyCaseMembers(r) \/ Work(r)
    BY <1>2 DEF Next
  <2>2. CASE \E emails \in SUBSET Recipients : issueNotice(r, emails)
    BY <2>2, Aside DEF issueNotice
  <2>3. CASE \E p \in Recipients : recordAccess(r, p) \/ acknowledge(r, p)
    <3>1. PICK p \in Recipients : recordAccess(r, p) \/ acknowledge(r, p)
      BY <2>3
    <3>2. Evidence' = Evidence \cup {p} /\ UNCHANGED certificate /\ (notice' = notice \/ notice' = "ACKNOWLEDGED")
      BY <3>1 DEF recordAccess, acknowledge, Evidence
    <3>3. QED BY <3>2, Received
  <2>4. CASE orderSubstituteService(r) \/ generateCertificate(r)
    BY <2>4, Aside DEF orderSubstituteService, generateCertificate, serviceVars
  <2>5. CASE EmailWebhookController(r) \/ notifyCaseMembers(r)
    BY <2>5, Aside DEF EmailWebhookController, handleProviderEvent, retryDue, notifyCaseMembers, serviceVars
  <2>6. CASE startMails(r) \/ sendTracked(r) \/ send(r) \/ markSent(r) \/ markFailed(r) \/ noteOutcome(r)
    BY <2>6, Aside DEF startMails, sendTracked, send, markSent, markFailed, noteOutcome, serviceVars
  <2>7. CASE recordDispatchFailure(r) \/ failRecipient(r) \/ recordFailure(r) \/ requireSubstitute(r)
             \/ setAccessed(r) \/ resolveFailures(r)
    BY <2>7, Aside DEF recordDispatchFailure, failRecipient, recordFailure, requireSubstitute, setAccessed,
       resolveFailures
  <2>8. CASE storeDocument(r)
    <3>1. certificate.sealed /\ certificate'.sealed /\ certificate'.document
      BY <2>8 DEF storeDocument, At, IInv, Grounds, Shape
    <3>2. UNCHANGED <<accessed, acknowledged, notice>>
      BY <2>8 DEF storeDocument
    <3>3. QED BY <3>1, <3>2 DEF Proof!Next, Proof!vars, Proof!Document
  <2>9. CASE sealCertificate(r)
    BY <2>9, CertifyProves
  <2>10. QED
    BY <2>1, <2>2, <2>3, <2>4, <2>5, <2>6, <2>7, <2>8, <2>9 DEF ServiceController, Work
<1>3. QED BY <1>1, <1>2

(* The handlers, the retries and the provider's reports implement            *)
(* ProofOfService: one certificate, a notice completed by its sealing alone, *)
(* on evidence of every recipient.  That a notice may cease to be completed  *)
(* while evidence is added is no step of its own there: a completed notice   *)
(* lacks no evidence.                                                        *)
THEOREM ProvesService == Spec => ServiceIsProven
<1>1. Init => Proof!Init
  BY DEF Init, NoCertificate, Proof!Init
<1>2. QED
  BY <1>1, StepProves, InitInvariant, NextInvariant, PTL DEF Spec, Proof!Spec, ServiceIsProven
-----------------------------------------------------------------------------
(* Requests one at a time *)

(* While no two requests overlap, at most one is at work, and what the rows *)
(* say of a mail is complete but for what that one is about to write.  A    *)
(* mail that is lost has its failure on record, or the request at work is   *)
(* about to record it; a mail is only sent, or lined up to be sent again,   *)
(* when it has not failed for good, and no mail is lined up twice.          *)
Lost(row) == row.status = "BOUNCED" \/ (row.status = "FAILED" /\ ~row.next)
Live(row) == row.status = "FAILED" => row.next

Accounted(d, f, w) ==
  \A p \in Recipients : Lost(d[p]) =>
    \/ f[p].open + f[p].resolved > 0
    \/ w.step \in {"fallback", "failure"} /\ w.m = p

LinedUp(d, todo) ==
  \A t \in todo : Live(d[t.m]) /\ \A u \in todo : t.m = u.m => t = u

MailSteps == {"mails", "queue", "send", "accepted", "refused", "outcome", "fallback", "failure", "require"}

\* What the request at work, at w, leaves the rows d of the mails and f of the failures in.
Good(d, f, w) ==
  /\ Accounted(d, f, w)
  /\ w.step = "send" => Live(d[w.m])
  /\ w.step \in MailSteps =>
       (w.origin = "retry" => /\ LinedUp(d, w.todo)
                              /\ w.step # "mails" => \A t \in w.todo : t.m # w.m)

Counts == [Recipients -> [open : Nat, resolved : Nat]]

SerialInv ==
  /\ alone \in BOOLEAN
  /\ failures \in Counts
  /\ alone => /\ \A r, s \in Requests : task[r] # Idle /\ task[s] # Idle => r = s
              /\ \A r \in Requests : task[r] # Idle => Good(delivery, failures, task[r])
              /\ Quiet => Good(delivery, failures, Idle)

Tasks == PlainTask \cup AccessTask \cup SealTask

\* The request at work goes on, and leaves what it should.
LEMMA SerialMove ==
  ASSUME Shape, SerialInv, NEW r \in Requests, NEW w \in Tasks,
         task' = [task EXCEPT ![r] = w], failures' \in Counts,
         alone' \in BOOLEAN, alone' => (alone /\ (task[r] # Idle \/ Quiet)),
         alone' => Good(delivery', failures', w)
  PROVE  SerialInv'
<1> SUFFICES ASSUME alone'
             PROVE  /\ \A q, s \in Requests : task'[q] # Idle /\ task'[s] # Idle => q = s
                    /\ \A q \in Requests : task'[q] # Idle => Good(delivery', failures', task'[q])
                    /\ (\A q \in Requests : task'[q] = Idle) => Good(delivery', failures', Idle)
  BY DEF SerialInv, Quiet
<1>1. \A s \in Requests : task'[s] = IF s = r THEN w ELSE task[s]
  BY DEF Shape
<1>2. \A s \in Requests \ {r} : task[s] = Idle
  BY DEF SerialInv, Quiet
<1>3. \A s \in Requests \ {r} : task'[s] = Idle
  BY <1>1, <1>2
<1>4. task'[r] = w
  BY <1>1
<1>5. QED BY <1>3, <1>4

\* The same for a step of a handler that has begun.
LEMMA SerialGoes ==
  ASSUME Shape, SerialInv, NEW r \in Requests, task[r] # Idle, UNCHANGED alone,
         failures' \in Counts,
         \E w \in Tasks : task' = [task EXCEPT ![r] = w] /\ (alone => Good(delivery', failures', w))
  PROVE  SerialInv'
BY SerialMove DEF SerialInv

\* What is known of the rows when a request takes a step.
LEMMA AtWork ==
  ASSUME SerialInv, NEW r \in Requests, task[r] # Idle, alone
  PROVE  Good(delivery, failures, task[r])
BY DEF SerialInv

LEMMA IdleNot == \A r \in Requests, step \in MailSteps \cup {"access", "resolve", "seal", "document"} :
                   At(r, step) => task[r] # Idle
BY DEF At, Idle, MailSteps

\* A handler that begins, having changed neither the mails nor the failures.
LEMMA SerialBegin ==
  ASSUME Shape, SerialInv, NEW r \in Requests, NEW w \in Tasks, Begin(r, w),
         UNCHANGED <<delivery, failures>>,
         w.step # "send",
         w.step \in MailSteps => (w.step = "mails" /\ (w.origin = "retry" /\ Quiet /\ alone => LinedUp(delivery, w.todo)))
  PROVE  SerialInv'
<1>1. alone' => (alone /\ Quiet)
  BY DEF Begin
<1>2. ASSUME alone' PROVE Good(delivery', failures', w)
  <2>1. Good(delivery, failures, Idle)
    BY <1>1, <1>2 DEF SerialInv
  <2>2. Accounted(delivery, failures, w)
    BY <2>1 DEF Good, Accounted, Idle
  <2>3. QED BY <1>1, <1>2, <2>2 DEF Good
<1>3. alone' \in BOOLEAN
  BY DEF Begin, Quiet
<1>4. QED BY <1>1, <1>2, <1>3, SerialMove DEF Begin, SerialInv

\* One that is done at once.
LEMMA SerialAtOnce ==
  ASSUME SerialInv, NEW r \in Requests, AtOnce(r), UNCHANGED failures,
         \A p \in Recipients : Lost(delivery'[p]) => Lost(delivery[p])
  PROVE  SerialInv'
<1>1. alone' => (alone /\ Quiet)
  BY DEF AtOnce
<1>2. ASSUME alone' PROVE Good(delivery', failures', Idle)
  <2>1. Good(delivery, failures, Idle)
    BY <1>1, <1>2 DEF SerialInv
  <2>2. QED BY <2>1 DEF Good, Accounted, Idle, MailSteps
<1>3. QED BY <1>1, <1>2 DEF AtOnce, SerialInv, Quiet

\* A handler that goes through mails takes the next one, or ends.
LEMMA SerialMails ==
  ASSUME NEW r \in Requests, NEW origin \in Origin, NEW todo \in Todo, Mails(r, origin, todo),
         NEW d, NEW f, NEW b \in BOOLEAN, b => Accounted(d, f, Idle), b /\ origin = "retry" => LinedUp(d, todo)
  PROVE  UNCHANGED alone /\ \E w \in Tasks : task' = [task EXCEPT ![r] = w] /\ (b => Good(d, f, w))
<1>1. CASE todo = {}
  <2>1. task' = [task EXCEPT ![r] = Idle] /\ UNCHANGED alone
    BY <1>1 DEF Mails, Finish, Continue
  <2>2. b => Good(d, f, Idle)
    BY DEF Good, Idle, MailSteps
  <2>3. Idle \in Tasks
    BY DEF Tasks, PlainTask
  <2>4. QED BY <2>1, <2>2, <2>3
<1>2. CASE todo # {}
  <2>1. PICK t \in todo :
          Continue(r, [step |-> IF origin = "retry" THEN "send" ELSE "queue",
                       origin |-> origin, m |-> t.m, attempt |-> t.attempt, todo |-> todo \ {t}])
    BY <1>2 DEF Mails
  <2>2. PICK w : w = [step |-> IF origin = "retry" THEN "send" ELSE "queue",
                      origin |-> origin, m |-> t.m, attempt |-> t.attempt, todo |-> todo \ {t}]
    OBVIOUS
  <2>3. t.m \in Mail /\ t.attempt \in Int /\ todo \ {t} \in Todo
    BY DEF Todo
  <2>4. w \in Tasks
    BY <2>2, <2>3 DEF Tasks, PlainTask, MailTask
  <2>5. w.step \in {"send", "queue"} /\ w.origin = origin /\ w.m = t.m /\ w.todo = todo \ {t}
        /\ (w.step = "send" <=> origin = "retry")
    BY <2>2
  <2>6. ASSUME b PROVE Good(d, f, w)
    <3>1. Accounted(d, f, w)
      BY <2>5, <2>6 DEF Accounted, Idle
    <3>2. w.step = "send" => Live(d[w.m])
      BY <2>5, <2>6 DEF LinedUp
    <3>3. origin = "retry" => LinedUp(d, w.todo) /\ \A u \in w.todo : u.m # w.m
      BY <2>5, <2>6 DEF LinedUp
    <3>4. QED BY <2>5, <3>1, <3>2, <3>3 DEF Good
  <2>7. QED BY <2>1, <2>2, <2>4, <2>6 DEF Continue
<1>3. QED BY <1>1, <1>2

LEMMA SerialOutcome ==
  ASSUME NEW r \in Requests, task[r] \in OutcomeTask, NEW outcome \in Kind, Outcome(r, outcome),
         NEW d, NEW f, NEW b \in BOOLEAN, b => Accounted(d, f, Idle),
         b /\ task[r].origin = "retry" => LinedUp(d, task[r].todo)
  PROVE  UNCHANGED alone /\ \E w \in Tasks : task' = [task EXCEPT ![r] = w] /\ (b => Good(d, f, w))
<1>1. task[r].origin \in Origin /\ task[r].todo \in Todo
  BY DEF OutcomeTask
<1>2. CASE task[r].origin = "notice"
  <2>1. PICK w : w = [task[r] EXCEPT !.step = "outcome", !.kind = outcome]
    OBVIOUS
  <2>2. w \in OutcomeTask /\ w.step = "outcome" /\ w.origin = "notice"
    BY <1>2, <2>1 DEF OutcomeTask
  <2>3. b => Good(d, f, w)
    BY <2>2 DEF Good, Accounted, Idle
  <2>4. QED BY <1>2, <2>1, <2>2, <2>3 DEF Outcome, Continue, Tasks, PlainTask
<1>3. CASE task[r].origin # "notice"
  BY <1>1, <1>3, SerialMails DEF Outcome
<1>4. QED BY <1>2, <1>3

LEMMA Settled ==
  ASSUME NEW d, NEW f, NEW w, Accounted(d, f, w), w.step \notin {"fallback", "failure"}
  PROVE  \A v : Accounted(d, f, v)
BY DEF Accounted

LEMMA TasksAre == PlainTask \subseteq Tasks /\ MailTask \subseteq Tasks /\ OutcomeTask \subseteq Tasks
                  /\ WebhookTask \subseteq Tasks
BY DEF Tasks, PlainTask

\* A mail's row is written by the request that deals with the mail.
LEMMA RowWritten ==
  ASSUME Shape, NEW m \in Mail, NEW row, NEW d, d = [delivery EXCEPT ![m] = row]
  PROVE  /\ d[m] = row
         /\ \A n \in Mail \ {m} : d[n] = delivery[n]
         /\ \A todo \in Todo : LinedUp(delivery, todo) /\ (\A t \in todo : t.m # m) => LinedUp(d, todo)
         /\ \A f, w : Accounted(delivery, f, w) =>
              \A v : (Lost(row) => (v.step = "fallback" /\ v.m = m) \/ m \notin Recipients)
                     /\ w.step \notin {"fallback", "failure"} => Accounted(d, f, v)
<1>1. d[m] = row /\ \A n \in Mail \ {m} : d[n] = delivery[n]
  BY DEF Shape
<1>2. \A todo \in Todo : LinedUp(delivery, todo) /\ (\A t \in todo : t.m # m) => LinedUp(d, todo)
  BY <1>1 DEF LinedUp, Todo
<1>3. ASSUME NEW f, NEW w, NEW v, Accounted(delivery, f, w), w.step \notin {"fallback", "failure"},
             Lost(row) => (v.step = "fallback" /\ v.m = m) \/ m \notin Recipients
      PROVE  Accounted(d, f, v)
  BY <1>1, <1>3 DEF Accounted, Mail
<1>4. QED BY <1>1, <1>2, <1>3

\* A request with a mail in hand knows of the others what Good says.
LEMMA InHand ==
  ASSUME SerialInv, NEW r \in Requests, task[r] # Idle, task[r].step \in MailSteps, alone
  PROVE  /\ Accounted(delivery, failures, task[r])
         /\ task[r].step = "send" => Live(delivery[task[r].m])
         /\ task[r].origin = "retry" =>
              /\ LinedUp(delivery, task[r].todo)
              /\ task[r].step # "mails" => \A t \in task[r].todo : t.m # task[r].m
BY AtWork DEF Good

LEMMA SerialIssueNotice ==
  ASSUME Shape, SerialInv, NEW r \in Requests, NEW emails \in SUBSET Recipients, issueNotice(r, emails)
  PROVE  SerialInv'
<1>1. PICK w : w = [step |-> "mails", origin |-> "notice", todo |-> First(emails)]
  OBVIOUS
<1>2. First(emails) \in Todo
  BY FirstTodo DEF Mail
<1>3. w \in Tasks /\ w.step = "mails" /\ w.origin = "notice"
  BY <1>1, <1>2 DEF Tasks, PlainTask, Origin
<1>4. QED BY <1>1, <1>3, SerialBegin DEF issueNotice

LEMMA SerialNotify ==
  ASSUME Shape, SerialInv, NEW r \in Requests, notifyCaseMembers(r)
  PROVE  SerialInv'
<1>1. PICK w : w = [step |-> "mails", origin |-> "members", todo |-> First(Members)]
  OBVIOUS
<1>2. First(Members) \in Todo
  BY FirstTodo DEF Mail
<1>3. w \in Tasks /\ w.step = "mails" /\ w.origin = "members"
  BY <1>1, <1>2 DEF Tasks, PlainTask, Origin
<1>4. QED BY <1>1, <1>3, SerialBegin DEF notifyCaseMembers, serviceVars

\* The mails that are due have not failed for good, and are listed once each.
LEMMA SerialRetryDue ==
  ASSUME Shape, SerialInv, NEW r \in Requests, retryDue(r)
  PROVE  SerialInv'
<1>1. PICK due : due = {[m |-> m, attempt |-> delivery[m].attempts + 1] : m \in {m \in Mail : Due(m)}}
  OBVIOUS
<1>2. PICK w : w = [step |-> "mails", origin |-> "retry", todo |-> due]
  OBVIOUS
<1>3. \A m \in Mail : delivery[m].attempts + 1 \in Int
  BY DEF Shape, DeliveryRow
<1>4. due \in Todo
  BY <1>1, <1>3 DEF Todo
<1>5. w \in Tasks /\ w.step = "mails" /\ w.todo = due
  BY <1>2, <1>4 DEF Tasks, PlainTask, Origin
<1>6. LinedUp(delivery, due)
  <2>1. \A t \in due : \E m \in Mail : t.m = m /\ t = [m |-> m, attempt |-> delivery[m].attempts + 1] /\ Due(m)
    BY <1>1
  <2>2. \A t \in due : Live(delivery[t.m])
    BY <2>1 DEF Due, Live
  <2>3. \A t, u \in due : t.m = u.m => t = u
    BY <2>1
  <2>4. QED BY <2>2, <2>3 DEF LinedUp
<1>7. Begin(r, w) /\ UNCHANGED <<delivery, failures>>
  BY <1>1, <1>2 DEF retryDue, serviceVars
<1>8. QED BY <1>5, <1>6, <1>7, SerialBegin

LEMMA SerialStartMails ==
  ASSUME Shape, SerialInv, NEW r \in Requests, startMails(r)
  PROVE  SerialInv'
<1>1. task[r] # Idle /\ task[r].step = "mails"
  BY DEF startMails, At, Idle
<1>2. task[r].origin \in Origin /\ task[r].todo \in Todo
  BY DEF startMails, At, Shape, PlainTask, MailTask, OutcomeTask, WebhookTask, AccessTask, SealTask, Idle
<1>3. ASSUME alone
      PROVE  Accounted(delivery, failures, Idle) /\ (task[r].origin = "retry" => LinedUp(delivery, task[r].todo))
  BY <1>1, <1>3, InHand, Settled DEF MailSteps
<1>4. alone \in BOOLEAN
  BY DEF SerialInv
<1>5. UNCHANGED alone /\ \E w \in Tasks : task' = [task EXCEPT ![r] = w] /\ (alone => Good(delivery, failures, w))
  BY <1>2, <1>3, <1>4, SerialMails DEF startMails
<1>6. QED BY <1>1, <1>5, SerialGoes DEF startMails, serviceVars, SerialInv

LEMMA SerialSendTracked ==
  ASSUME Shape, SerialInv, NEW r \in Requests, sendTracked(r)
  PROVE  SerialInv'
<1>1. task[r] \in MailTask /\ task[r] # Idle /\ task[r].step = "queue"
  BY MailStep DEF sendTracked, At, Idle
<1>2. PICK m \in Mail : m = task[r].m
  BY <1>1 DEF MailTask
<1>3. PICK row : row = [NoMail EXCEPT !.status = "QUEUED"]
  OBVIOUS
<1>4. ~Lost(row) /\ Live(row) /\ delivery' = [delivery EXCEPT ![m] = row]
  BY <1>2, <1>3 DEF NoMail, Lost, Live, sendTracked
<1>5. PICK w : w = [task[r] EXCEPT !.step = "send"]
  OBVIOUS
<1>6. w \in MailTask /\ w.step = "send" /\ w.m = m /\ w.origin = task[r].origin /\ w.todo = task[r].todo
      /\ w.todo \in Todo
  BY <1>1, <1>2, <1>5 DEF MailTask
<1>7. ASSUME alone PROVE Good(delivery', failures, w)
  <2>1. Accounted(delivery', failures, w)
    BY <1>1, <1>4, <1>7, InHand, RowWritten DEF MailSteps
  <2>2. w.origin = "retry" => LinedUp(delivery', w.todo) /\ \A t \in w.todo : t.m # w.m
    <3>1. w.origin = "retry" => LinedUp(delivery, w.todo) /\ \A t \in w.todo : t.m # m
      BY <1>1, <1>2, <1>6, <1>7, InHand DEF MailSteps
    <3>2. \A todo \in Todo : LinedUp(delivery, todo) /\ (\A t \in todo : t.m # m) => LinedUp(delivery', todo)
      BY <1>4, RowWritten
    <3>3. QED BY <1>6, <3>1, <3>2
  <2>3. Live(delivery'[w.m])
    BY <1>4, <1>6, RowWritten
  <2>4. QED BY <1>6, <2>1, <2>2, <2>3 DEF Good
<1>8. task' = [task EXCEPT ![r] = w] /\ UNCHANGED <<alone, failures>> /\ w \in Tasks
  BY <1>5, <1>6, TasksAre DEF sendTracked, Continue, serviceVars
<1>9. QED BY <1>1, <1>7, <1>8, SerialGoes DEF SerialInv

LEMMA SerialSend ==
  ASSUME Shape, SerialInv, NEW r \in Requests, send(r)
  PROVE  SerialInv'
<1>1. task[r] \in MailTask /\ task[r] # Idle /\ task[r].step = "send"
  BY MailStep DEF send, At, Idle
<1>2. PICK outcome \in {"sent", "TEMPORARY", "PERMANENT"} :
        Continue(r, [step |-> IF outcome = "sent" THEN "accepted" ELSE "refused",
                     kind |-> outcome, origin |-> task[r].origin, m |-> task[r].m,
                     attempt |-> task[r].attempt, todo |-> task[r].todo])
  BY DEF send
<1>3. PICK w : w = [step |-> IF outcome = "sent" THEN "accepted" ELSE "refused",
                    kind |-> outcome, origin |-> task[r].origin, m |-> task[r].m,
                    attempt |-> task[r].attempt, todo |-> task[r].todo]
  OBVIOUS
<1>4. w \in OutcomeTask /\ w.step \in {"accepted", "refused"} /\ w.m = task[r].m
      /\ w.origin = task[r].origin /\ w.todo = task[r].todo
  BY <1>1, <1>3 DEF MailTask, OutcomeTask, Kind
<1>5. ASSUME alone PROVE Good(delivery, failures, w)
  BY <1>1, <1>4, <1>5, InHand, Settled DEF Good, MailSteps
<1>6. QED BY <1>1, <1>2, <1>3, <1>4, <1>5, SerialGoes, TasksAre DEF send, Continue, serviceVars, SerialInv

LEMMA SerialMarkSent ==
  ASSUME Shape, SerialInv, NEW r \in Requests, markSent(r)
  PROVE  SerialInv'
<1>1. task[r] \in OutcomeTask /\ task[r] # Idle /\ task[r].step = "accepted"
  BY OutcomeStep DEF markSent, At, Idle
<1>2. PICK m \in Mail : m = task[r].m
  BY <1>1 DEF OutcomeTask
<1>3. task[r].todo \in Todo
  BY <1>1 DEF OutcomeTask
<1>4. UNCHANGED failures
  BY DEF markSent, serviceVars
<1>5. CASE UNCHANGED delivery /\ Continue(r, [task[r] EXCEPT !.step = "refused", !.kind = "TEMPORARY"])
  <2>1. PICK w : w = [task[r] EXCEPT !.step = "refused", !.kind = "TEMPORARY"]
    OBVIOUS
  <2>2. w \in OutcomeTask /\ w.step = "refused" /\ w.m = task[r].m
        /\ w.origin = task[r].origin /\ w.todo = task[r].todo
    BY <1>1, <2>1 DEF OutcomeTask, Kind
  <2>3. ASSUME alone PROVE Good(delivery, failures, w)
    BY <1>1, <2>2, <2>3, InHand, Settled DEF Good, MailSteps
  <2>4. QED BY <1>1, <1>4, <1>5, <2>1, <2>2, <2>3, SerialGoes, TasksAre DEF Continue, SerialInv
<1>6. CASE Outcome(r, "sent") /\ delivery' = [delivery EXCEPT ![task[r].m] =
                                    [status |-> "SENT", kind |-> "none", attempts |-> task[r].attempt,
                                     next |-> FALSE, known |-> TRUE]]
  <2>1. PICK row : row = [status |-> "SENT", kind |-> "none", attempts |-> task[r].attempt,
                          next |-> FALSE, known |-> TRUE]
    OBVIOUS
  <2>2. ~Lost(row) /\ delivery' = [delivery EXCEPT ![m] = row]
    BY <1>2, <1>6, <2>1 DEF Lost
  <2>3. ASSUME alone
        PROVE  /\ Accounted(delivery', failures, Idle)
               /\ task[r].origin = "retry" => LinedUp(delivery', task[r].todo)
    <3>1. Accounted(delivery', failures, Idle)
      BY <1>1, <2>2, <2>3, InHand, RowWritten DEF MailSteps
    <3>2. task[r].origin = "retry" => LinedUp(delivery', task[r].todo)
      <4>1. task[r].origin = "retry" => LinedUp(delivery, task[r].todo) /\ \A t \in task[r].todo : t.m # m
        BY <1>1, <1>2, <2>3, InHand DEF MailSteps
      <4>2. LinedUp(delivery, task[r].todo) /\ (\A t \in task[r].todo : t.m # m)
            => LinedUp(delivery', task[r].todo)
        BY <1>3, <2>2, RowWritten
      <4>3. QED BY <4>1, <4>2
    <3>3. QED BY <3>1, <3>2
  <2>4. UNCHANGED alone /\ \E w \in Tasks : task' = [task EXCEPT ![r] = w] /\ (alone => Good(delivery', failures, w))
    BY <1>1, <1>6, <2>3, SerialOutcome DEF Kind, SerialInv
  <2>5. QED BY <1>1, <1>4, <2>4, SerialGoes DEF SerialInv
<1>7. QED BY <1>5, <1>6 DEF markSent

LEMMA SerialMarkFailed ==
  ASSUME Shape, SerialInv, NEW r \in Requests, markFailed(r)
  PROVE  SerialInv'
<1>1. task[r] \in OutcomeTask /\ task[r] # Idle /\ task[r].step = "refused"
  BY OutcomeStep DEF markFailed, At, Idle
<1>2. PICK m \in Mail : m = task[r].m
  BY <1>1 DEF OutcomeTask
<1>3. task[r].todo \in Todo
  BY <1>1 DEF OutcomeTask
<1>4. UNCHANGED failures
  BY DEF markFailed, serviceVars
<1>5. PICK old \in DeliveryRow : old = delivery[m]
  BY DEF Shape
<1>6. PICK row : row = [old EXCEPT !.status = "FAILED", !.kind = task[r].kind,
                                   !.attempts = task[r].attempt, !.next = retryable(task[r])]
  OBVIOUS
<1>7. row.status = "FAILED" /\ row.next = retryable(task[r])
  BY <1>6 DEF DeliveryRow
<1>8. delivery' = [delivery EXCEPT ![m] = row]
  BY <1>2, <1>5, <1>6 DEF markFailed
<1>9. Lost(row) <=> ~retryable(task[r])
  BY <1>7 DEF Lost
<1>10. ASSUME alone, task[r].origin = "retry"
       PROVE  LinedUp(delivery', task[r].todo) /\ \A t \in task[r].todo : t.m # m
  BY <1>1, <1>2, <1>3, <1>8, <1>10, InHand, RowWritten DEF MailSteps
<1>11. CASE ~retryable(task[r]) /\ m \in Recipients
  <2>1. PICK w : w = [task[r] EXCEPT !.step = "fallback"]
    OBVIOUS
  <2>2. w \in OutcomeTask /\ w.step = "fallback" /\ w.m = m /\ w.origin = task[r].origin /\ w.todo = task[r].todo
    BY <1>1, <1>2, <2>1 DEF OutcomeTask
  <2>3. ASSUME alone PROVE Good(delivery', failures, w)
    <3>1. Accounted(delivery', failures, w)
      BY <1>1, <1>8, <2>2, <2>3, InHand, RowWritten DEF MailSteps
    <3>2. QED BY <1>10, <2>2, <2>3, <3>1 DEF Good
  <2>4. Continue(r, w)
    BY <1>2, <1>11, <2>1 DEF markFailed
  <2>5. QED BY <1>1, <1>4, <2>2, <2>3, <2>4, SerialGoes, TasksAre DEF Continue, SerialInv
<1>12. CASE retryable(task[r]) \/ m \notin Recipients
  <2>1. ASSUME alone PROVE Accounted(delivery', failures, Idle)
    BY <1>1, <1>8, <1>9, <1>12, <2>1, InHand, RowWritten DEF MailSteps
  <2>2. PICK outcome \in Kind : Outcome(r, outcome)
    BY <1>2, <1>12 DEF markFailed, Kind
  <2>3. UNCHANGED alone /\ \E w \in Tasks : task' = [task EXCEPT ![r] = w] /\ (alone => Good(delivery', failures, w))
    BY <1>1, <1>10, <2>1, <2>2, SerialOutcome DEF SerialInv
  <2>4. QED BY <1>1, <1>4, <2>3, SerialGoes DEF SerialInv
<1>13. QED BY <1>11, <1>12

LEMMA SerialNoteOutcome ==
  ASSUME Shape, SerialInv, NEW r \in Requests, noteOutcome(r)
  PROVE  SerialInv'
<1>1. task[r] \in OutcomeTask /\ task[r] # Idle /\ task[r].step = "outcome"
  BY OutcomeStep DEF noteOutcome, At, Idle
<1>2. task[r].todo \in Todo
  BY <1>1 DEF OutcomeTask
<1>3. ASSUME alone PROVE Accounted(delivery, failures, Idle)
  BY <1>1, <1>3, InHand, Settled DEF MailSteps
<1>4. UNCHANGED alone /\ \E w \in Tasks : task' = [task EXCEPT ![r] = w] /\ (alone => Good(delivery, failures, w))
  BY <1>2, <1>3, SerialMails DEF noteOutcome, Origin, SerialInv
<1>5. QED BY <1>1, <1>4, SerialGoes DEF noteOutcome, SerialInv
-----------------------------------------------------------------------------
(* Failures are put on record, and never taken off *)

\* f counts as many failures as there were, or more.
LEMMA RecordKept ==
  ASSUME NEW d, NEW f \in Counts, NEW g \in Counts,
         \A p \in Recipients : f[p].open + f[p].resolved > 0 => g[p].open + g[p].resolved > 0
  PROVE  \A w : Accounted(d, f, w) => Accounted(d, g, w)
BY DEF Accounted

LEMMA OneMore ==
  ASSUME SerialInv, NEW m \in Mail, failures' = [failures EXCEPT ![m].open = @ + 1]
  PROVE  /\ failures' \in Counts
         /\ \A p \in Recipients :
              failures[p].open + failures[p].resolved > 0 => failures'[p].open + failures'[p].resolved > 0
         /\ m \in Recipients => failures'[m].open + failures'[m].resolved > 0
<1>1. CASE m \notin Recipients
  BY <1>1 DEF SerialInv, Counts
<1>2. CASE m \in Recipients
  <2>1. PICK old \in [open : Nat, resolved : Nat] : old = failures[m]
    BY <1>2 DEF SerialInv, Counts
  <2>2. PICK new : new = [old EXCEPT !.open = old.open + 1]
    OBVIOUS
  <2>3. new \in [open : Nat, resolved : Nat] /\ new.open + new.resolved > 0
    BY <2>1, <2>2
  <2>4. failures' = [failures EXCEPT ![m] = new]
    BY <2>1, <2>2
  <2>5. QED BY <1>2, <2>3, <2>4 DEF SerialInv, Counts
<1>3. QED BY <1>1, <1>2

LEMMA SerialDispatchFailure ==
  ASSUME Shape, SerialInv, NEW r \in Requests, recordDispatchFailure(r)
  PROVE  SerialInv'
<1>1. task[r] \in MailTask /\ task[r] # Idle /\ task[r].step = "queue"
  BY MailStep DEF recordDispatchFailure, At, Idle
<1>2. PICK m \in Mail : m = task[r].m
  BY <1>1 DEF MailTask
<1>3. failures' \in Counts /\ \A w : Accounted(delivery, failures, w) => Accounted(delivery, failures', w)
  BY <1>2, OneMore, RecordKept DEF recordDispatchFailure, SerialInv
<1>4. PICK w : w = [step |-> "outcome", kind |-> "failed", origin |-> "notice", m |-> task[r].m,
                    attempt |-> task[r].attempt, todo |-> task[r].todo]
  OBVIOUS
<1>5. w \in OutcomeTask /\ w.step = "outcome" /\ w.origin = "notice"
  BY <1>1, <1>4 DEF MailTask, OutcomeTask, Kind, Origin
<1>6. ASSUME alone PROVE Good(delivery, failures', w)
  BY <1>1, <1>3, <1>5, <1>6, InHand, Settled DEF Good, MailSteps
<1>7. QED BY <1>1, <1>3, <1>4, <1>5, <1>6, SerialGoes, TasksAre DEF recordDispatchFailure, Continue

\* The next step of the fallback is the same task one step on.
LEMMA NextOfFallback ==
  ASSUME NEW r \in Requests, task[r] \in OutcomeTask \cup WebhookTask, NEW step \in {"failure", "require"},
         NEW w, w = [task[r] EXCEPT !.step = step]
  PROVE  /\ w \in Tasks /\ w.step = step /\ w.m = task[r].m /\ w.origin = task[r].origin
         /\ w.origin = "retry" => w.todo = task[r].todo
<1>1. CASE task[r] \in OutcomeTask
  BY <1>1, TasksAre DEF OutcomeTask
<1>2. CASE task[r] \in WebhookTask
  BY <1>2, TasksAre DEF WebhookTask
<1>3. QED BY <1>1, <1>2

LEMMA SerialFailRecipient ==
  ASSUME Shape, SerialInv, NEW r \in Requests, failRecipient(r)
  PROVE  SerialInv'
<1>1. task[r] \in OutcomeTask \cup WebhookTask /\ task[r] # Idle /\ task[r].step = "fallback"
  BY FallbackStep DEF failRecipient, At, Idle
<1>2. PICK w : w = [task[r] EXCEPT !.step = "failure"]
  OBVIOUS
<1>3. /\ w \in Tasks /\ w.step = "failure" /\ w.m = task[r].m /\ w.origin = task[r].origin
      /\ w.origin = "retry" => w.todo = task[r].todo
  BY <1>1, <1>2, NextOfFallback
<1>4. ASSUME alone PROVE Good(delivery, failures, w)
  <2>1. Accounted(delivery, failures, w)
    BY <1>1, <1>3, <1>4, InHand DEF Accounted, MailSteps
  <2>2. QED BY <1>1, <1>3, <1>4, <2>1, InHand DEF Good, MailSteps
<1>5. QED BY <1>1, <1>2, <1>3, <1>4, SerialGoes DEF failRecipient, Continue, SerialInv

LEMMA SerialRecordFailure ==
  ASSUME Shape, SerialInv, NEW r \in Requests, recordFailure(r)
  PROVE  SerialInv'
<1>1. task[r] \in OutcomeTask \cup WebhookTask /\ task[r] # Idle /\ task[r].step = "failure"
  BY FallbackStep DEF recordFailure, At, Idle
<1>2. PICK m \in Mail : m = task[r].m
  BY <1>1 DEF OutcomeTask, WebhookTask
<1>3. /\ failures' \in Counts
      /\ \A v : Accounted(delivery, failures, v) => Accounted(delivery, failures', v)
      /\ m \in Recipients => failures'[m].open + failures'[m].resolved > 0
  BY <1>2, OneMore, RecordKept DEF recordFailure, SerialInv
<1>4. PICK w : w = [task[r] EXCEPT !.step = "require"]
  OBVIOUS
<1>5. /\ w \in Tasks /\ w.step = "require" /\ w.m = task[r].m /\ w.origin = task[r].origin
      /\ w.origin = "retry" => w.todo = task[r].todo
  BY <1>1, <1>4, NextOfFallback
<1>6. ASSUME alone PROVE Good(delivery, failures', w)
  <2>1. Accounted(delivery, failures', task[r])
    BY <1>1, <1>3, <1>6, InHand DEF MailSteps
  <2>2. Accounted(delivery, failures', w)
    BY <1>2, <1>3, <2>1 DEF Accounted
  <2>3. QED BY <1>1, <1>5, <1>6, <2>2, InHand DEF Good, MailSteps
<1>7. QED BY <1>1, <1>3, <1>4, <1>5, <1>6, SerialGoes DEF recordFailure, Continue

LEMMA SerialRequire ==
  ASSUME Shape, SerialInv, NEW r \in Requests, requireSubstitute(r)
  PROVE  SerialInv'
<1>1. task[r] \in OutcomeTask \cup WebhookTask /\ task[r] # Idle /\ task[r].step = "require"
  BY FallbackStep DEF requireSubstitute, At, Idle
<1>2. ASSUME alone PROVE Accounted(delivery, failures, Idle)
  BY <1>1, <1>2, InHand, Settled DEF MailSteps
<1>3. UNCHANGED <<delivery, failures>>
  BY DEF requireSubstitute
<1>4. CASE task[r].origin = "webhook"
  <2>1. Idle \in Tasks
    BY TasksAre DEF PlainTask
  <2>2. ASSUME alone PROVE Good(delivery, failures, Idle)
    BY <1>2, <2>2 DEF Good, Idle, MailSteps
  <2>3. QED BY <1>1, <1>3, <1>4, <2>1, <2>2, SerialGoes DEF requireSubstitute, Finish, Continue, SerialInv
<1>5. CASE task[r].origin # "webhook"
  <2>1. task[r] \in OutcomeTask
    BY <1>1, <1>5 DEF WebhookTask
  <2>2. ASSUME alone, task[r].origin = "retry" PROVE LinedUp(delivery, task[r].todo)
    BY <1>1, <2>2, InHand DEF MailSteps
  <2>3. UNCHANGED alone /\ \E w \in Tasks : task' = [task EXCEPT ![r] = w] /\ (alone => Good(delivery, failures, w))
    BY <1>2, <1>5, <2>1, <2>2, SerialOutcome DEF requireSubstitute, Kind, SerialInv
  <2>4. QED BY <1>1, <1>3, <2>3, SerialGoes DEF SerialInv
<1>6. QED BY <1>4, <1>5

LEMMA SerialResolve ==
  ASSUME Shape, SerialInv, NEW r \in Requests, resolveFailures(r)
  PROVE  SerialInv'
<1>1. task[r] # Idle /\ task[r].step = "resolve"
  BY DEF resolveFailures, At, Idle
<1>2. failures' \in Counts
      /\ \A p \in Recipients :
           failures[p].open + failures[p].resolved > 0 => failures'[p].open + failures'[p].resolved > 0
  BY DEF resolveFailures, SerialInv, Counts
<1>3. Idle \in Tasks
  BY TasksAre DEF PlainTask
<1>4. ASSUME alone PROVE Good(delivery, failures', Idle)
  <2>1. Accounted(delivery, failures, Idle)
    BY <1>1, <1>4, AtWork, Settled DEF Good
  <2>2. Accounted(delivery, failures', Idle)
    BY <1>2, <2>1, RecordKept DEF SerialInv
  <2>3. QED BY <2>2 DEF Good, Idle, MailSteps
<1>5. QED BY <1>1, <1>2, <1>3, <1>4, SerialGoes DEF resolveFailures, Finish, Continue
-----------------------------------------------------------------------------
(* The provider's reports, and the handlers that deal with no mail *)

\* A report that a mail is lost is followed by the fallback of its recipient.
LEMMA SerialProviderEvent ==
  ASSUME Shape, SerialInv, NEW r \in Requests, NEW m \in Mail, NEW type \in ProviderEvent,
         handleProviderEvent(r, m, type)
  PROVE  SerialInv'
<1>1. PICK old \in DeliveryRow : old = delivery[m]
  BY DEF Shape
<1>2. PICK row : row = [old EXCEPT !.status = IF type = "delivery_delayed" THEN old.status
                                              ELSE statusForEvent[type]]
  OBVIOUS
<1>3. row.status = (IF type = "delivery_delayed" THEN old.status ELSE statusForEvent[type])
      /\ row.next = old.next
  BY <1>2 DEF DeliveryRow
<1>4. delivery' = [delivery EXCEPT ![m] = row]
  BY <1>1, <1>2 DEF handleProviderEvent
<1>5. UNCHANGED failures
  BY DEF handleProviderEvent, serviceVars
<1>6. Lost(row) => Lost(old) \/ type \in {"bounced", "failed"}
  BY <1>3 DEF Lost, statusForEvent, ProviderEvent
<1>7. \A p \in Recipients : p # m => delivery'[p] = delivery[p]
  BY <1>4 DEF Shape, Mail
<1>8. delivery'[m] = row
  BY <1>4 DEF Shape
<1>9. CASE type \in {"bounced", "failed"} /\ m \in Recipients
  <2>1. PICK w : w = [step |-> "fallback", origin |-> "webhook", m |-> m]
    OBVIOUS
  <2>2. w \in WebhookTask /\ w.step = "fallback" /\ w.origin = "webhook" /\ w.m = m
    BY <2>1 DEF WebhookTask
  <2>3. Begin(r, w)
    BY <1>9, <2>1 DEF handleProviderEvent
  <2>4. alone' => alone /\ Quiet
    BY <2>3 DEF Begin
  <2>5. ASSUME alone' PROVE Good(delivery', failures', w)
    <3>1. Accounted(delivery, failures, Idle)
      BY <2>4, <2>5 DEF SerialInv, Good
    <3>2. Accounted(delivery', failures', w)
      BY <1>5, <1>7, <2>2, <3>1 DEF Accounted, Idle
    <3>3. QED BY <2>2, <3>2 DEF Good
  <2>6. alone' \in BOOLEAN
    BY <2>3 DEF Begin, Quiet
  <2>7. QED BY <1>5, <2>2, <2>3, <2>4, <2>5, <2>6, SerialMove, TasksAre DEF Begin, SerialInv
<1>10. CASE ~(type \in {"bounced", "failed"} /\ m \in Recipients)
  <2>1. AtOnce(r)
    BY <1>10 DEF handleProviderEvent
  <2>2. \A p \in Recipients : Lost(delivery'[p]) => Lost(delivery[p])
    BY <1>1, <1>6, <1>7, <1>8, <1>10
  <2>3. QED BY <1>5, <2>1, <2>2, SerialAtOnce
<1>11. QED BY <1>9, <1>10

LEMMA SerialAccess ==
  ASSUME Shape, SerialInv, NEW r \in Requests, NEW p \in Recipients, recordAccess(r, p)
  PROVE  SerialInv'
<1>1. PICK w : w = [step |-> "access", m |-> p]
  OBVIOUS
<1>2. w \in Tasks /\ w.step = "access"
  BY <1>1 DEF Tasks, AccessTask
<1>3. QED BY <1>1, <1>2, SerialBegin DEF recordAccess, MailSteps

LEMMA SerialAcknowledge ==
  ASSUME SerialInv, NEW r \in Requests, NEW p \in Recipients, acknowledge(r, p)
  PROVE  SerialInv'
BY SerialAtOnce DEF acknowledge

LEMMA SerialOrder ==
  ASSUME Shape, SerialInv, NEW r \in Requests, orderSubstituteService(r)
  PROVE  SerialInv'
<1>1. PICK w : w = [step |-> "resolve"]
  OBVIOUS
<1>2. w \in Tasks /\ w.step = "resolve"
  BY <1>1 DEF Tasks, PlainTask
<1>3. QED BY <1>1, <1>2, SerialBegin DEF orderSubstituteService, MailSteps

LEMMA SerialCertificate ==
  ASSUME Shape, SerialInv, NEW r \in Requests, generateCertificate(r)
  PROVE  SerialInv'
<1>1. PICK w : w = [step |-> "seal", completed |-> allCompleted]
  OBVIOUS
<1>2. w \in Tasks /\ w.step = "seal"
  BY <1>1 DEF Tasks, SealTask, allCompleted
<1>3. QED BY <1>1, <1>2, SerialBegin DEF generateCertificate, MailSteps, serviceVars

\* The end of such a handler, or its next step.
LEMMA SerialElse ==
  ASSUME Shape, SerialInv, NEW r \in Requests, setAccessed(r) \/ sealCertificate(r) \/ storeDocument(r)
  PROVE  SerialInv'
<1>1. task[r] # Idle /\ task[r].step \in {"access", "seal", "document"}
  BY DEF setAccessed, sealCertificate, storeDocument, At, Idle
<1>2. PICK w \in {Idle, [step |-> "document"]} : Continue(r, w)
  BY DEF setAccessed, sealCertificate, storeDocument, Finish
<1>3. w \in Tasks /\ w.step \in {"idle", "document"}
  BY <1>2 DEF Tasks, PlainTask, SealTask, Idle
<1>4. UNCHANGED <<delivery, failures>>
  BY DEF setAccessed, sealCertificate, storeDocument
<1>5. ASSUME alone PROVE Good(delivery, failures, w)
  BY <1>1, <1>3, <1>5, AtWork, Settled DEF Good, MailSteps
<1>6. QED BY <1>1, <1>2, <1>3, <1>4, <1>5, SerialGoes DEF Continue, SerialInv
-----------------------------------------------------------------------------

LEMMA SerialInit == Init => SerialInv
<1> SUFFICES ASSUME Init PROVE SerialInv
  OBVIOUS
<1>1. \A r \in Requests : task[r] = Idle
  BY DEF Init, HandlersInit
<1>2. failures \in Counts /\ alone \in BOOLEAN
  BY DEF Init, HandlersInit, Counts
<1>3. Good(delivery, failures, Idle)
  BY DEF Init, Good, Accounted, Lost, NoMail, Idle, MailSteps, Mail
<1>4. QED BY <1>1, <1>2, <1>3 DEF SerialInv

LEMMA SerialNext == IInv /\ SerialInv /\ [Next]_vars => SerialInv'
<1> SUFFICES ASSUME IInv, SerialInv, [Next]_vars PROVE SerialInv'
  OBVIOUS
<1>1. Shape
  BY DEF IInv
<1>2. CASE UNCHANGED vars
  BY <1>2 DEF vars, SerialInv, Quiet
<1>3. CASE Next
  <2>1. PICK r \in Requests : \/ ServiceController(r) \/ EmailWebhookController(r)
                              \/ notifyCaseMembers(r) \/ Work(r)
    BY <1>3 DEF Next
  <2>2. CASE ServiceController(r)
    BY <1>1, <2>2, SerialIssueNotice, SerialAccess, SerialAcknowledge, SerialOrder, SerialCertificate
       DEF ServiceController
  <2>3. CASE EmailWebhookController(r)
    BY <1>1, <2>3, SerialProviderEvent, SerialRetryDue DEF EmailWebhookController
  <2>4. CASE notifyCaseMembers(r)
    BY <1>1, <2>4, SerialNotify
  <2>5. CASE Work(r)
    BY <1>1, <2>5, SerialStartMails, SerialSendTracked, SerialSend, SerialMarkSent, SerialMarkFailed,
       SerialNoteOutcome, SerialDispatchFailure, SerialFailRecipient, SerialRecordFailure,
       SerialRequire, SerialResolve, SerialElse DEF Work
  <2>6. QED BY <2>1, <2>2, <2>3, <2>4, <2>5
<1>4. QED BY <1>2, <1>3

LEMMA SerialInvariance == Spec => []SerialInv
BY InitInvariant, NextInvariant, SerialInit, SerialNext, PTL DEF Spec

\* Of requests that run one at a time, none sends a mail again that has failed for
\* good: permanently, after the fourth attempt, or by the provider's report.
THEOREM NoRetryAfterTheLast == Spec => []PermanentNotRetried
<1>1. SerialInv => PermanentNotRetried
  BY DEF SerialInv, PermanentNotRetried, Serial, At, Idle, Good, Live
<1>2. QED BY <1>1, SerialInvariance, PTL

\* Between requests that run one at a time, a mail of the notice that has failed for
\* good has left a failure on record for its recipient.
THEOREM FailuresAreOnRecord == Spec => []FailureIsRecorded
<1>1. SerialInv => FailureIsRecorded
  BY DEF SerialInv, FailureIsRecorded, Serial, Good, Accounted, Lost, Idle
<1>2. QED BY <1>1, SerialInvariance, PTL
=============================================================================
