# A TLA+ verification of the arbitration platform

The platform administers arbitration cases: it appoints tribunals, collects
deposits, keeps the procedural rules and their versions, serves notices, counts
deadlines and issues awards. Its core is `src/apps/api`, a NestJS service over
PostgreSQL (Prisma); `src/apps/web` is its web client. This directory holds TLA+
models of both, the TLC runs that check them on small instances, and proofs
checked by TLAPS.

Paths below are relative to `src/apps/api/src` unless they start with `src/`.

## How the code runs, and how that is modelled

Every operation is an `async` HTTP handler that awaits one database call after
another. Only what is inside `prisma.$transaction` is atomic, and PostgreSQL runs
it at its default level, READ COMMITTED. There is no locking, no version column
and no scheduler: the "sweeps" (expiring invitations, declaring defaults,
escalating deadlines, retrying mail) are endpoints somebody calls. So the
interesting behaviour is: what a handler read may be stale when it writes; two
handlers interleave between any two calls; a process may stop between two calls.

Each module models this in the same way:

- the tables are variables: sets, sequences or functions of records;
- `task[r]` is the request `r` in progress: the step it is at, and the identities
  and values it read before. A handler is an action that begins it, with its first
  reads and guards, and one action for each later database call or transaction;
- a request may stop anywhere. In `Tribunal`, `Deposits` and `RuleVersions` that is
  an action, `Crash`, when the constant `Crashes` allows it; in the modules over
  `Handlers` no step need ever be taken, so a request that stops is one that is
  never scheduled again;
- two calls are one action only where no other handler can tell them apart: the
  comment at the action says why. A read of a row that never changes once written
  is joined with the step that uses it. A transaction is one action where each of
  its statements writes rows by key, absolutely, or where the transactions that
  touch the same rows lock the same row first; it is two actions where at READ
  COMMITTED its first statement can miss a concurrent commit (`Supersede` and
  `Activate` in `RuleVersions`).

Callers are taken to be authenticated and entitled, except where a handler's
decision rests on who they are (the team of a case, super administrators). Audit
rows, formatting and wording are left out, because no modelled decision reads them.

### One request at a time, and more

Most guards of this code hold only as long as one request runs at a time, because
a handler reads, then writes what it read. A property says which it means:

- in the modules over `Handlers`, `alone` is TRUE until a request is begun while
  another is in progress; `Serial => P` is a statement about the guards, in every
  order of requests and with each of them free to stop half-way; a bare `P` holds
  under every interleaving too;
- in `MCDeposits` and `MCRuleVersions`, `mode` chooses between one request at a
  time and two with crashes; `MCTribunalSerial` has one request, `MCTribunal` two.

Without the proviso TLC refutes the serial properties: two payments on one share
lose one sum, two activations both see the other not there, two decisions on one
measure both pass the guard, two removals of super administrators each still see
the other. `tribunal_race_constitute` keeps one such counterexample, on the claim the code
makes in so many words.

## Inventory

State and operations of each part; `PROJECT.json` lists all of them with their
files and status, and the hazards at their lines.

| Part | State | What is hard | What makes it correct |
|---|---|---|---|
| Tribunal appointment (`appointments/`) | invitations, disclosures, the tribunal and its members, active case-team roles, challenges | guards on reads that are stale at the write; an upheld challenge takes four separate calls | access to the deliberations exactly while seated; nobody sits undisclosed; constituted only when complete, unchallenged and clear; what is over stays over |
| Allocation engine, deposits, ledger (`fees/`) | requests, shares, payments, defaults, refunds, ledger entries | rounding; amounts read before the transaction that writes their sum; a row and its ledger entry in separate calls | shares fair to the cent; payments never without their entry; books agree between requests; a covered deposit is paid |
| Rule versions, pinning, acceptance (`rules/rule-review`, `rules/rules`) | versions, texts, reviews, the version of a case, acceptances | state derived from rows read earlier; two activations | one version in force; live only if signed off and clear; the law of a case does not change |
| Deadlines and rules engine (`deadlines/`, `rules/rule-engine`) | deadlines, their log, reminders, escalations, events, executions | sweeps that write over what changed since they read; a deadline and its execution in separate calls | due dates accounted for and computed right; one escalation; the engine's record is true |
| Service and mail (`service/`, `deliverability/`, `notifications/`) | the notice and its recipients, certificate, failures, mails | duplicated, reordered, lost reports; a retry of what was sent | completion rests on evidence; a definitive failure is on record; what failed for good is not retried |
| Stage of a case (`registry/`, `compliance/`, `awards/`, `cases/`) | stage and its history, parties, checks, holds, awards | four writers of one field; a hold that arrives between check and use; an award and its stage in two transactions | history ends at the stage; nothing moves past an unreleased risk; an award goes out once and signed |
| Applications (`filings/`, `interim/`, `defaults/`, `casetracks/`, `evidence/`) | one record each, with its decision | decision and its effect in separate calls; late answers | decisions stand; relief rests on its grounds when taken; a correction replaces, nothing is edited |
| Hearings (`hearings/`) | the hearing, provider rooms, links | the provider call between two writes | cancelled stays cancelled |
| Invoices (`payments/`) | invoices, allocations, payments | status from a sum read earlier | paid exactly when covered |
| Accounts (`users/`, `auth/`, `admin/`) | users, roles, sessions, mailed tokens | roles in signed tokens; counts read before the write | a super administrator stays; no session outlives its password or its account's disabling |
| Retention (`retention/`) | the policy and its draft, holds, sweeps | a draft written back whole; flag and hold in separate calls | only what was approved governs; nothing under a hold is deleted |
| Correspondence (`messages/`, `documents/`, `parties/`) | team, messages, documents, orders | recipients and numbers read before the write | no one-sided contact; numbers without gap or repetition |
| Seed (`src/apps/api/prisma/seed*.ts`) | the first rows of a database | no transaction; reruns on every deploy | nothing written twice; a top-up mends |
| Web client (`src/apps/web/src/lib/api.ts`, `auth/`) | token, cookie, calls under way | calls answered 401 share one refresh | the page keeps its session; nothing is filed twice |

How the parts interact: appointments ask deadlines for a response window and
compliance for a hold, and write the case's stage, as the registry, submission and
awards do; an acceptance, a new party and a registration trigger a screening, which
may place the very hold that later blocks constitution or a transition; deposits
call the allocation engine; procedural events run the rules engine, which creates
deadlines; notices and notifications are sent as tracked mails whose provider calls
back; a retention sweep reads the legal-hold flag of a case. All of it is by rows of
one database and by calls awaited inside a handler; there are no queues.

## The modules

| Module | Models |
|---|---|
| `Handlers` | what all handlers share: `task`, `Begin`, `Continue`, `Finish`, `AtOnce`, `Serial` |
| `DeliberationAccess` | abstract specification: who may enter the deliberations |
| `Tribunal` | `AppointmentsService`, with the response windows and the hold; implements `DeliberationAccess` |
| `Allocation`, `ShareLedger` | `allocation-engine.ts` as operators over cents; the engine in use |
| `Deposits` | `DepositsService` |
| `RuleVersions` | `RuleReviewService`, and `assignToCase`, `acceptRules` of `RulesService` |
| `DeadlineEngine` | `deadline-engine.ts`: counting days, reminders, and the reference definition |
| `Deadlines` | `DeadlinesService`, `RuleEngineService`, `recordEvent` |
| `ProofOfService` | abstract specification: when a notice counts as served |
| `Service` | `ServiceService` over `EmailDeliveryService`; `NotificationsService`; the mail provider; implements `ProofOfService` |
| `CaseStage` | `RegistryService`, `ComplianceService`, `AwardsService`, submission, `addParty` |
| `Applications` | filings, production, interim measures, defaults, expedited track, joinder, evidence |
| `Hearings`, `Invoices` | `HearingsService` with the video provider; `PaymentsService` |
| `Accounts` | `UsersService`, `AuthService`, `TokensService`, the bootstrap endpoint |
| `Client` | one page of the web client and the session rows it uses |
| `Retention` | `RetentionService` |
| `Correspondence` | `MessagesService`, `DocumentsService`, team and representatives, procedural orders |
| `Seed`, `SeedRows` | the seed, top-up and showcase scripts; the rows they write |
| `MC*` | instances and compositions for TLC |
| `*Proofs` | theorems |

Modules that share no rows are composed by choice, not by product: in `MCCase`,
`MCRecords` and `MCAccounts` the variable `follows` picks, in the first state, which
part a behaviour follows while the others keep still. Nothing is lost, because the
parts read nothing of each other.

### Tribunal

One case. `invitation`, `member`, `team`, `challenge`, `tribunal`, `stage` are the
rows of the tables of those names (`team` holds only the *active* rows with a
tribunal case role, since those are what grants access); `disclosed` is the set of
arbitrators with a disclosure on file; `window[i]` abstracts the invitation's
deadline to whether its due moment has passed and whether it is running, suspended
or waived; `hold` is the existence of an ACTIVE hold on the case. The four vacancy
statuses are one, `"VACATED"`. `Elapse` fires at any moment: how long a window is
does not matter to any property.

| Code | Actions |
|---|---|
| `createInvitation`, `invite`, `defaultAppoint`, `replaceMember`, `nominateChair` | `createInvitation` (shared write), `invite`, `replaceMember`, `nominateChair`, `CreateChairInvitation`, then `AdvanceStage` |
| `submitConflictDisclosure` | `submitConflictDisclosure`, `FileDisclosure`, `ToConflictCheckStatus`, `AdvanceStage` |
| `respond` | `respond`, then `Decline`, or `RefuseAcceptance` / `Accept` and `Rescreen` |
| `expireStaleInvitations` | `expireStaleInvitations`, `SweepDeadlines`, `Expire` |
| `constitute` | `constitute`, `CheckChallenges`, `CheckHold`, `SetConstituted`, `AdvanceStage` |
| `recordVacancy`, `vacateMember` | `recordVacancy`, `Vacate` |
| `raiseChallenge`, `decideChallenge` | `raiseChallenge`, `decideChallenge`, `Dismiss`, or `Uphold`, `FindSeat`, `VacateChallenged`, `Withdraw` |
| deadlines of invitations, holds | `extend`, `suspend`, `resume`, `waive`, `Elapse` (time); `raiseHold`, `releaseHold` |

### Allocation, ShareLedger, Deposits

`distribute` is largest-remainder rounding in integer cents; the sort by fractional
part is a `rank`. `ShareLedger` starts from every split within its bounds and applies
payments, of any size, to any share. In `Deposits`, `share[q][p]` is the allocation of
party `p` in deposit request `q`, `open[q, p]` the number of its OPEN defaults, `ledger`
a set of entries, each identified by the row that caused it, with a signed amount. A
party's own and a substitute's payment differ in the status a covered share takes.

| Code | Actions |
|---|---|
| `createRequest` | `createRequest`, `Charge` |
| `recordPayment` | `recordPayment` (reads the share), `Pay` (the transaction), `Cure`, then recompute |
| `recomputeDepositStatus` | `Recompute` (reads), `WriteStatus` |
| `declareDefaults` | `declareDefaults` (reads), `Declare` once per share, then recompute |
| `refund` | `recordRefund`, `LedgerRefund` |

### RuleVersions

One rule set. A rule's text is the number of times it was edited; `item[v][u].of`
and `signed[v]` record which text a decision or a sign-off was about: history, which
no guard reads.

| Code | Actions |
|---|---|
| `createDraftVersion` | `createDraftVersion` (reads the source whole), `Clone` |
| `updateRuleText`, `recordReview` | `updateRuleText`, `WriteText`, `ResetItem`; `recordReview`, `WriteItem` |
| `recordChapterReview`, `recomputeReviewState` | `recordChapterReview`, `WriteChapter`, `Summarise`, `ReadSignOff`, `WriteState` |
| `signOff`, `activateVersion`, `archiveVersion` | `signOff`, `CheckClear`, `Sign`; `activateVersion`, `Recheck`, `Supersede`, `Activate`; `archiveVersion`, `Archive` |
| `assignToCase`, `acceptRules` | `assignToCase`, `Pin` (the unique row per case decides); `acceptRules`, `AcceptRow` |

### Deadlines, DeadlineEngine

Time is counted in days; a due moment and the instants of its day are not told
apart. `DeadlineEngine` counts as the code does, day by day; `IsDue` says what the rules
ask for without counting, and `DueAsComputed` compares the two on every row. `log[d]` is
the append-only log of orders about deadline `d`. `applyEvent` goes through the actions
of the event's triggers one by one (`executeAction`), looks for a deadline made before,
makes it (`makeDeadline`) and records the execution (`recordDeadline`) in calls of their own; a
registry request may generate the same deadline meanwhile. The sweeps list their
rows once and handle them one by one.

### Service

One notice, one mail per recipient or member. `delivery[m]` is the tracked row of mail
`m`; the provider accepts, refuses for now or refuses for good, and its reports
(`EmailWebhookController`) come in any order, any number of times, or never. `accessed` and
`acknowledged` are the evidence rows. `generateCertificate` reads the recipients, then
seals and stores in two more steps.

### CaseStage, Applications, Hearings, Invoices (`MCCase`)

`CaseStage` has the registrar's `transition` behind `assertCaseClearedToProceed`; screening
(`screenSubject`, `createCheck`, `setResult`, `raiseHoldOnMatch`), review, expiry and release; `advanceStage`
as appointments and awards share it, two steps; and the awards. `Applications` follows one
matter of any `kind`; `row` is its record with the rows that hang on it, and the
create handlers make the rows behaviours start from. `Hearings` follows one hearing
and its rooms, with a provider that may fail, and the links given out. `Invoices` are
numbered by how many the case has, while the number is unique over all cases; of an
invoice's payments the row keeps their number and their sum, which is all the handler
reads of them.

### Accounts, Client (`MCAccounts`)

`supers` says, for a signed access token, whether its holder was a super
administrator when it was signed: the code does not look again. A password is a
number that counts changes, 0 being the demo password. `Client` is one page, its access token,
the browser's cookie `jar`, the calls under way with their retries, and the shared
`refreshing` promise; of the server it keeps the session rows, a rotation being a
read and a write. `smooth` is TRUE as long as no answer was lost and nobody signed in
while other calls were under way.

### Retention, Correspondence, Seed (`MCRecords`)

The policy is its stored overrides; `approved` is history: what the drafts that
reviews approved contained. `hold`, `record` and `swept` are the LegalHold, Case and
RetentionSweepRecord rows. `team` are the active memberships, each with a side; a
document number is a count plus one, read after the file was stored. The rows of
the base seed, in their order, are the parameter `Base`, and `SeedRows` has those of the
source. A script is a list of sections, each a part of `Base` whose rows are written one by
one in that order; `Marks` pairs each row a script looks for with the rows it stands
for. Every script may stop after any row and is run again.

## The runs

`tlc -workers 2 -config X.cfg M` in this directory. Each property is stated at its
definition; `PROJECT.json` names, for each, a plausible bug (an operator marked
"Mutant" in the module) under which TLC finds it violated.

| Run | Instance | Shows |
|---|---|---|
| `tribunal_concurrent` | two requests, crashes, 1 arbitrator, 2 invitations, 1 challenge | `AccessIffSeated`, `SeatNeedsDisclosure` and the refinement `DeliberationsGuarded`, under every interleaving and loss |
| `tribunal_serial` | one request; a sole arbitrator among two, or a panel of three | `ConstitutedCompletely`; `OutcomesStand`: no closed invitation revived, none expired early, no challenge decided twice |
| `tribunal_race_constitute` | two requests; **violation** | `ConstitutedCompletely` does not survive a second request |
| `deposits` | serial and fair, or two requests with crashes; or the engine with up to 3 parties, 7 cents, weights -1..3 | `FairShares`, `PaymentsAreLedgered`, `BooksAgree`, and the liveness property `CoveredIsPaid` |
| `deposits_refund` | one request, 2 refunds; **violation** | `RefundWithinPayment` fails for two legal refunds of one payment |
| `rules` | 3 versions, 2 chapters, 1 rule, 1 case; serial, or two requests with crashes | `ReviewHolds`, `OneInForce`, `PinnedIsNoDraft`, `LawKept` |
| `rules_edit_after_sign_off` | one request; **violation** | `ActivatedAsSigned` fails when a rule is edited after sign-off |
| `deadlines` | 2 deadlines, 2 definitions, 1 event with 5 actions, 3 days, 2 orders | `DueAccountedFor`, `DueAsComputed`, `RemindersMatchDue`, `EscalatedOnce`, `ExecutedOnce` |
| `service` | 2 recipients, 1 member, 4 attempts | `FailureIsRecorded`, `PermanentNotRetried`, and the refinement `ServiceIsProven`, which includes that completion rests on evidence |
| `case` | 2 parties, 2 checks, 1 award; a hearing; 2 invoices; one matter of each kind | `StageFollowsHistory`, `ProceedsScreened`, `IssuedAsSigned`, `InvoiceCurrent`, `CancelledForGood`, `CorrectionReplaces`, `DecisionStands`, `GroundedWhenTaken` |
| `accounts` | 2 users, 2 sessions, 2 tokens; a page with 2 calls and 4 refreshes | `LastSuperAdminStays`, `SessionsCurrent`, `LinksWorkOnce`, `ResetRevivesNobody`, `KeepsItsSession` |
| `records` | 2 cases, 2 holds; 4 people; 2 documents; 4 overrides; 2 crashes of the scripts | `PolicyApproved`, `HeldCaseKept`, `NoExParte`, `NumberedInOrder`, `SeededOnce`, `MendedByTopUp` |

Bounds, and why they are enough:

- two requests are the least with which a stale read can happen, and every hazard
  listed is between two; the proofs cover any number where it matters most. Over
  `Handlers`, requests overlap once in a behaviour: those in progress run to their
  end or stop, in every order, and no other begins. A bare property is thus checked
  in every state one overlap leads to, from every state serial requests lead to;
- `accounts` has one request: its properties are about sequences of requests; the race
  of two rotations is in `Client`, whose calls overlap freely;
- constraints keep apart what shares nothing: `Bounds` of `MCTribunalSerial` (a sole
  arbitrator or a panel; the panel answers in time and is not challenged), `OneAtATime` (two deadlines overlap only
  when one event makes both), `FewMails` (two mails while requests run one at a
  time, one when they overlap), and in `MCAccounts` a mailed link next to one
  session or sessions next to one link;
- `Client` is followed until an answer is lost or a sign-in meets other calls: after
  that the session may end, as listed below;
- one challenge, one or two invitations per arbitrator: an invitation answered twice
  and an arbitrator vacated and re-appointed both occur; three arbitrators are the
  least that make a panel;
- 7 cents among 3 parties with weights up to 3 reach every remainder with equal and
  unequal fractions, zero and negative weights, and fewer cents than parties; three
  payments of 1 or 2 cents on shares of 2 and 1 underpay, cover and overpay;
- three versions: one in force, one superseded or archived, and one draft; two
  chapters tell "some" from "all"; one edit tells the text decided on from the present;
- two definitions, one in business and one in calendar days, triggered on every day from
  Monday to Wednesday, so that periods end before, on and after a weekend;
- two crashes of the seed scripts: a script that stopped, and a mending that stopped.

Deadlock checking is off where the bounded sets of rows run out, and then nothing
more need happen. Symmetry is used in runs without liveness only.

### Fairness

Only `deposits` has a liveness property, `CoveredIsPaid`, for behaviours with one request at a
time. `MCSpec` adds weak fairness of `Step`: a handler that was entered keeps being
scheduled, as the event loop and the database do for a request that is not lost. No
request is obliged to be sent, no sweep to be called, and time need not pass. The
property fails if requests may be lost, because the status is recomputed after the
payment. Elsewhere nothing is obliged to happen: the code has no scheduler.

## Where the code and its comments part

The three violation runs; `PROJECT.json` "findings" quotes the lines.

1. `appointments/appointments.service.ts:541`: a vacancy, challenge or hold recorded while `constitute` runs is not noticed.
2. `fees/deposits.service.ts:286`: refunds of one payment may together exceed it.
3. `rules/rule-review.service.ts:193`: a rule edited after sign-off goes live without a new one.

Also seen while modelling, modelled as the code has it, and no run's question:

*Appointments, deposits, rules*
- a disclosure filed after declining re-opens the invitation (`appointments.service.ts:416`), which may then be accepted;
- an upheld challenge is recorded before the seat is vacated and cannot be recorded again: a failure in between leaves the arbitrator seated;
- any payment, however small, cures every open default of its share (`deposits.service.ts:199`);
- the rounding cents go to the largest *fractions*, not to the largest share as the header of `allocation-engine.ts:10-11` says;
- activation looks at chapters and sign-off, not at every rule's clearance as `src/apps/api/prisma/schema.prisma:1235-1238` says;
- a draft archived without any review is no longer a DRAFT and may be pinned to a case (`rules.service.ts:104`).

*Deadlines and service*
- deadlines the rules engine makes get no reminders;
- a repeated bounce report records a second failure, although the webhook is called idempotent; a notice is ACKNOWLEDGED when only one recipient acknowledged; opening a notice after acknowledging it moves the recipient back to ACCESSED;
- a certificate whose document was lost in a crash can never be generated again.

*The stage of a case*
- compliance holds stop the registrar, not the stages that appointments and awards advance (comment at `registry.service.ts:62-63`);
- a failed rescreening is swallowed although the service is called fail-closed (`compliance.service.ts:96-97`); a renamed party keeps its old CLEAR result; an ESCALATED review of a CLEAR check has no hold;
- an award may be signed, and its document generated, after it was issued; two concurrent issues deliver it twice; a failure between the issue and the stage leaves the stage behind for good.

*Applications, hearings, invoices*
- a withdrawn joinder can be decided; a measure that was never granted can be modified or discharged; a terminated or declined expedited track can be activated, and a consent after activation writes over ACTIVE; produced documents can be objected to afterwards;
- an invoice number is counted per case and unique over all: the second case's first invoice fails.

*Retention, documents, team*
- `closedAt` is never written and `assertNoLegalHold` never called; a legal hold on a DELETED case overwrites its status;
- a review of an overtaken draft writes it back over the newer one, and an activation deletes a newer draft unseen;
- a failed upload leaves a stored file no document names; an uploader's chosen side is not checked against their own; adding a team member again may move them to the other side; `virusScan` stays PENDING and `Document.deletedAt` is never written.

*Accounts and client*
- verifying an e-mail address makes a suspended account active; suspended super administrators count as active ones (`users.service.ts:123-124`); someone who is one no longer, by a token signed before, can delete the last one; the bootstrap endpoint resets passwords without ending sessions; PENDING users can sign in but not refresh;
- two concurrent rotations both succeed, and the next refresh with the loser's cookie revokes the session as reused. A lost refresh answer, a second tab, or in development React's double effect does the same;
- a failed sign-out clears the page but leaves cookie and session; a wrong password at sign-in refreshes an earlier session; a draft whose answer is lost can be submitted twice.

*Seed*
- a base seed that stops after its first row is never completed by a rerun ("self-skips", `src/apps/api/prisma/seed.ts:81`); one that stops inside the rules makes every later top-up throw; a top-up of an empty database makes a later base seed fail; the showcase invoice is PARTIALLY_PAID although its payments cover it (`src/apps/api/prisma/seed-showcase.ts:247-256`).

## The proofs

`tlapm M.tla` checks every obligation of the eight proof modules. The theorems hold
for any number of rows and of concurrent requests, and for all values of the constants
that satisfy the named `ASSUME`s of the modules. TLC evaluates these in the runs, and the
code justifies each: requests in progress, payments and chapters of the rules are finite
in number (`RequestsAssumption`, `RowsAssumption`, `ChaptersAssumption`); the parties of a
deposit are numbered, its totals and amounts are cents (`PartiesAssumption`,
`MoneyAssumption`, `TotalsAssumption`, `EngineAssumption`); definitions count a natural
number of days, and orders name dates (`DefinitionsAssumption`, `DatesAssumption`); the base
seed writes no row twice and the rows the scripts look for before what they stand for
(`BaseAssumption`); the
other assumptions say of which kind a constant is, or that a person named is one of the people.

All the properties that the passing runs check but one, `CoveredIsPaid`, are theorems. Those about
every interleaving are proved with any requests at once, those a module means for
requests that run one at a time with that proviso and no other: such requests come in any
order, any number of times. The main inductive
invariants were checked by TLC on the runs' instances before they were proved.

The proofs of the serial properties have one shape. While requests run one at a time at most one
is at work, and the invariant says how far it has come: `Steady(w)`, `Good(w)`,
`Free(w)` or `InOrder(w)`, for the work `w` of that request, is the promise of the module less
what `w` has still to do, and with what `w` has read being still so. With no work left it is the
promise itself. Over `Handlers` a request that stopped half-way is one that stays in
progress: the promise is proved of the state it leaves, and another request that begins
then ends the proviso. In `Tribunal` a lost request makes room for the next, and the theorems are
about any sequence of requests each of which may be lost.

**TribunalProofs.** `AccessFollowsSeat`, `DisclosureBeforeSeat`, `TypeCorrect`,
`Invariance`, `GuardsDeliberations`; `ConstitutedWhenComplete`, `WhatIsOverStays`.
`AccessIffSeated` and `SeatNeedsDisclosure` are
not inductive alone: `Accept` seats whoever the invitation names, and
`VacateChallenged` writes to the seat of whoever the challenge names, so
both rest on what an earlier read found. `IInv` adds: rows that exist name an
arbitrator (`RowsNamed`), and what a request in progress has read still exists,
and for a vacancy the seat has been taken before (`TasksNamed`): rows are never
deleted and never change whom they are about. `GuardsDeliberations` proves the refinement:
initial states map to initial states, and every step of a handler discloses, seats
a disclosed user with the access, empties a seat with the access, or stutters.
The last two theorems have the hypothesis `Alone`, that there is one request: it is what
`tribunal_serial` checks and `tribunal_race_constitute` shows to be needed. Time still
passes, and a request may be lost, between any two of its steps. `SerialInv` says that what
`constitute`, an answer, a sweep and a decision have read still holds when they write.

**RuleVersionsProofs.** `NoDraftGoverns`, `PinIsFinal`, `TypeCorrect`, `Invariance`;
`ReviewsHold`, `OneVersionInForce`, `LawIsKept`.
`assignToCase` reads that a version is no draft and pins it in a later call, so
`PinnedIsNoDraft` needs `PinPending`: the version a pinning request holds is no
draft *now*. That is inductive because no action makes a version a draft that has
left that status. `PinIsFinal` needs the unique row per case. In the serial invariant a sign-off
may stand on chapters that are no longer clear only while the request that reopened one has
still to recompute the state of the review (`SignOffsFollow`), and a decision may be about an
older text only while the edit has still to reset it (`DecisionsFollow`).

**DepositsProofs.** `LedgeredPayments`, `SharesAreFair`, `NothingPaidUnreceived`,
`BooksAlwaysAgree`. The module begins with what it needs of sums. The sums of the model are folds over finite
sets, defined by a recursive function on them; that there is such a function, and that
its values are those of a sum, is proved by induction on the size of a set, the induction being that a
set of naturals with 0 and the successor of each of its members is `Nat` (`Upward`). From
there: a sum over parts, a sum with one term changed, bounds by terms, equal terms.
- `SharesAreFair` is the allocation engine for any number of parties, total and weights: largest
  remainders are within one cent of the quota and add up to the total, because the
  cents left over are fewer than the parties; and whatever payments follow, what the
  engine calls outstanding is what is lacking.
- `NothingPaidUnreceived`: with any number of requests and any of them lost, a share is
  never shown paid with more than was received. Two payments may lose a sum (the stale read
  of `recordPayment`), never invent one: a request about to write a sum has read at most what was received (`Backed`).
- `BooksAlwaysAgree`: the books, for requests one at a time. `Entered` says that the
  ledger, with the entry the request at work has still to write, is exactly the charges,
  payments and refunds made; `Flagged` and `Current` that defaults and statuses are right
  but for the one it has still to mend.
- `LedgeredPayments` adds that the amount a request is about to pay is positive, which
  tells a payment made from a row not yet there.

**DeadlinesProofs.** `DatesAreAccountedFor`, `DatesAreAsComputed`, `RemindersFollow`,
`OverdueNotifiedOnce`, `RulesExecutedOnce`. The engine counts days in loops that step over
weekends and holidays. `AlongLoop` is induction along a loop that comes nearer to its end each time; with it
every loop of `DeadlineEngine` is shown to be defined and to end on the day `IsDue` asks
for, for any period, in business and calendar days. `RulesExecutedOnce` holds with
any requests at once because one request handles an event: it is about to make only a
deadline that no execution names yet (`Ahead`). The others rest on the log
being append-only, and those for one order at a time on `Steady`.

**ServiceProofs.** `EvidencedService`, `ProvesService`, `NoRetryAfterTheLast`, `FailuresAreOnRecord`. That
a certificate says SERVICE_COMPLETED was
decided on recipients read two steps before, in a handler that others overtake. The
invariant adds `Grounds`: a recipient's status ACCESSED or ACKNOWLEDGED has its
evidence row, a request about to write ACCESSED has written that row, and one
about to seal a completed certificate saw evidence of every recipient. It is
inductive because evidence is never removed, whatever the provider reports. `ProvesService` is the
refinement: a step of a handler adds evidence, seals, stores the document, reopens the notice, or
stutters, and the same invariant gives what the sealing asks for. For the
retries, `Accounted` follows one mail through its attempts: lost for good it is on record or
the request at work has still to record it, and a mail a sweep has lined up can still be sent (`LinedUp`).

**CaseProofs.** `AwardsGoOutSigned`, `FilingsAreReplaced`, `HistoryIsTheStages`,
`NoCaseProceedsUnscreened`, `CancelledHearingsStay`, `DecisionsStand`, `ReliefIsGrounded`,
`InvoicesSayHowFarPaid`. A behaviour of `MCCase` keeps the invariant of the part it follows
(`StageInv`, `HearingInv`, `InvoiceInv`, `ApplicationInv`) and leaves the rest as it began. In
`StageInv` every party of a registered case is screened or on the list of the screening at
work, and the registrar's `transition` finds the case as it was cleared. In
`ApplicationInv` a correction that is being approved is still pending and its version is
the last. In `InvoiceInv` the status of an invoice is behind its payments only while the
request that recorded one has still to add them up.

**AccountsProofs.** `ASuperAdminStays`, `DisabledAccountsStay`, `OpenSessionsAreCurrent`,
`MailedLinksWorkOnce`, `ThePageKeepsItsSession`, `RunsAreBehaviours`. The theorems are about
the server and the page without the restrictions by which `accounts` follows one at a
time; `RunsAreBehaviours` is that a behaviour of the run is one of theirs. `SessionsSound`
says whose work may leave a session open behind a new password. For the page,
`PageInv` relates the cookie in the jar, the rotations under way and the shared promise:
at most one call holds the cookie that is in force, and every other waits for that one.

**RecordsProofs.** `ApprovedPolicy`, `NumberedPapers`, `HeldCases`, `NobodyIsLeftOut`,
`NothingSeededTwice`, `TopUpMends`. For the policy the
invariant adds `Approved`: what a request that activates has read, and what it has merged,
was approved. For the numbers it adds that a number a request holds is the next
one or is taken (`Numbered`), and counts files: documents and the requests that still
owe one are together no more than the files stored, which takes the finiteness of
`Requests`. For the holds, `OneByOne` says that of requests one at a time only the one
at work may have placed a hold without its flag, and that what a sweep has still to
delete has no hold; `Deletions` that a case once swept is deleted and never comes back.
`HeldCases` is an action property: only `sweepCase` deletes (`OnlySweepsDelete`). For the
messages, the recipients a request has gathered are those of the team there is (`Told`). For
the scripts, `Led` says of the rows there are, and of these with what is left of the section at
work, that wherever some row of a part is, the mark of the part is too. Writing in the order of the
base seed keeps that at every place to stop, so a script that does not find the mark finds none of
the rows; `Mended` says how far a top-up has come.

What stays with TLC: the liveness property `CoveredIsPaid`, which needs ENABLED, and what the
violation runs refute. The library's induction theorems take an operator as a parameter and cannot be
used; induction over sets of naturals and over finite sets, as above, takes their place.

## What is not modelled

Reads and exports; authentication and permissions of the caller; audit rows and
wording; the fee calculator; arbitrator and lawyer profiles; content and dashboards; the
pages of the web client; start-up and health checks; migrations. They are stateless
computation, presentation, or single rows no modelled decision reads.

In the modelled services: `sendReminder` of appointments (counts reminders), `addComment`,
`recordOverride`, `recordException`, deliberation and administrative notes and fields,
`updateParty`, `issueNotice` and `recordCompliance` of interim measures (a log),
`verifyIdentity`, `acknowledgeIsolation`, `declareIndependence` (flags nobody reads), `dismissEmailDelivery`,
in-app notification rows and SMS. Time zones and the cut-off hour of a deadline,
and currencies and fractions of a cent, are below the models' grain. `PROJECT.json`
gives the status of each part and the reason.

## Plan

The properties of the runs are proved, but for liveness; what is left to model:

1. The create handlers of `Applications` as actions, and the matters of one case side by side.
2. Civil dates and instants in `DeadlineEngine`: the offset taken at a guessed instant
   (`deadlines/deadline-engine.ts:79`) near a change of the clock.
