---------------------------- MODULE Applications ----------------------------
(***************************************************************************)
(* What the parties put before the tribunal or the registry, and how it is *)
(* disposed of: document production, interim measures, joinder, default    *)
(* proceedings, the expedited track, corrections of filings, witnesses,    *)
(* experts and objections to evidence.  The services share no rows, so a   *)
(* behaviour follows one matter, of any kind: row holds its record and the *)
(* rows that hang on it.  The create handlers make the rows behaviours     *)
(* start from.                                                             *)
(*                                                                         *)
(* A handler whose one write depends on nothing it read is one step.  A    *)
(* request the role check refuses changes nothing and is left out.         *)
(***************************************************************************)
EXTENDS Handlers

CONSTANTS
  Factors,     \* the due-process factors of a default (nine in the code)
  Users,       \* the party users who may consent to the expedited track
  MaxRows      \* bound: corrections, statements, reports of a matter

VARIABLES kind, row

applicationVars == <<kind, row>>

Granted == {"GRANTED", "GRANTED_IN_PART"}
Decision == Granted \cup {"DENIED"}
NoDecision == "none"

NewProductionRequest == [status |-> "REQUESTED", decision |-> NoDecision, documents |-> FALSE]
NewInterimMeasure == [status |-> "APPLIED", decision |-> NoDecision]
NewJoinderRequest == [status |-> "REQUESTED", decision |-> NoDecision]
NewDefaultProceeding ==
  [stage |-> "OPENED", satisfied |-> {}, report |-> "none", decision |-> NoDecision]
NewExpeditedTrack(basis) ==
  [status |-> "PROPOSED", basis |-> basis, consent |-> [u \in Users |-> "none"]]
NewFiling == [versions |-> <<[status |-> "SUBMITTED", receipt |-> TRUE]>>, corrections |-> <<>>]
NewWitness == [status |-> "PROPOSED", oath |-> "NONE", versions |-> <<>>]
NewExpert(status) == [status |-> status, versions |-> <<>>]
NewObjection == [status |-> "RAISED"]

ApplicationsInit ==
  \/ kind = "production" /\ row = NewProductionRequest
  \/ kind = "interim" /\ row = NewInterimMeasure
  \/ kind = "joinder" /\ row = NewJoinderRequest
  \/ kind = "default" /\ row = NewDefaultProceeding
  \/ kind = "expedited" /\ \E basis \in {"PARTY_AGREEMENT", "RULES_THRESHOLD"} : row = NewExpeditedTrack(basis)
  \/ kind = "filing" /\ row = NewFiling
  \/ kind = "witness" /\ row = NewWitness
  \/ kind = "expert" /\ \E status \in {"APPOINTED", "PROPOSED"} : row = NewExpert(status)
  \/ kind = "objection" /\ row = NewObjection

\* One write; or the row is read, and the writes follow.
Set(r, new) == row' = new /\ AtOnce(r) /\ UNCHANGED kind
Read(r, step, args) == Begin(r, [step |-> step, seen |-> row, args |-> args]) /\ UNCHANGED <<kind, row>>
Put(r, new, step) ==
  /\ row' = new
  /\ IF step = "done" THEN Finish(r) ELSE Continue(r, [task[r] EXCEPT !.step = step])
  /\ UNCHANGED kind
-----------------------------------------------------------------------------
(* Document production: an objection, a reply or a decision may come at any *)
(* time, after an earlier decision too.                                     *)

object(r) == kind = "production" /\ Set(r, [row EXCEPT !.status = "OBJECTED"])
reply(r) == kind = "production" /\ Set(r, [row EXCEPT !.status = "REPLIED"])
flagNonCompliance(r) == kind = "production" /\ Set(r, [row EXCEPT !.status = "NON_COMPLIANCE"])
decideProduction(r, decision) ==
  kind = "production" /\ Set(r, [row EXCEPT !.status = decision, !.decision = decision])

produce(r) == kind = "production" /\ row.status \in Granted /\ Read(r, "documents", {})
addDocuments(r) == At(r, "documents") /\ Put(r, [row EXCEPT !.documents = TRUE], "produced")
setProduced(r) == At(r, "produced") /\ Put(r, [row EXCEPT !.status = "PRODUCED"], "done")
-----------------------------------------------------------------------------
(* Interim measures.  The events are a log and are left out. *)

oppose(r) == kind = "interim" /\ Set(r, [row EXCEPT !.status = "OPPOSED"])
modify(r) == kind = "interim" /\ Set(r, [row EXCEPT !.status = "MODIFIED"])
discharge(r) == kind = "interim" /\ Set(r, [row EXCEPT !.status = "DISCHARGED"])

\* Mutant: whether it has been decided is not asked.
decideInterimAgain(r, decision) == kind = "interim" /\ Read(r, "decideInterim", decision)

decideInterim(r, decision) ==
  kind = "interim" /\ row.decision = NoDecision /\ Read(r, "decideInterim", decision)
setInterim(r) ==
  At(r, "decideInterim")
  /\ Put(r, [row EXCEPT !.status = task[r].args, !.decision = task[r].args], "done")
-----------------------------------------------------------------------------
(* Joinder and consolidation.  A withdrawn request may still be decided. *)

comment(r) == kind = "joinder" /\ row.status = "REQUESTED" /\ Read(r, "comment", {})
openComments(r) == At(r, "comment") /\ Put(r, [row EXCEPT !.status = "COMMENTS_OPEN"], "done")

decideJoinder(r, decision) ==
  kind = "joinder" /\ row.decision = NoDecision /\ Read(r, "decideJoinder", decision)
setJoinder(r) ==
  At(r, "decideJoinder")
  /\ Put(r, [row EXCEPT !.status = task[r].args, !.decision = task[r].args], "done")

withdraw(r) == kind = "joinder" /\ row.decision = NoDecision /\ Read(r, "withdraw", {})
setWithdrawn(r) == At(r, "withdraw") /\ Put(r, [row EXCEPT !.status = "WITHDRAWN"], "done")
-----------------------------------------------------------------------------
(* Default proceedings *)

NoticeStage == {"WARNING_ISSUED", "FINAL_REMINDER_ISSUED"}
issueNotice(r, stage) == kind = "default" /\ Set(r, [row EXCEPT !.stage = stage])

\* The factor is noted; the stage follows if it was an early one when read.
reviewFactor(r, f, satisfied) ==
  kind = "default" /\ Read(r, "factor", [factor |-> f, satisfied |-> satisfied])
setFactor(r) ==
  /\ At(r, "factor")
  /\ LET f == task[r].args.factor IN
     Put(r, [row EXCEPT !.satisfied = IF task[r].args.satisfied THEN @ \cup {f} ELSE @ \ {f}],
         IF task[r].seen.stage \in NoticeStage \cup {"OPENED"} THEN "review" ELSE "done")
setRegistrarReview(r) == At(r, "review") /\ Put(r, [row EXCEPT !.stage = "REGISTRAR_REVIEW"], "done")

fileRegistrarReport(r, report) == kind = "default" /\ Read(r, "report", report)
setReport(r) == At(r, "report") /\ Put(r, [row EXCEPT !.report = task[r].args], "reported")
setReported(r) == At(r, "reported") /\ Put(r, [row EXCEPT !.stage = "TRIBUNAL_REVIEW"], "done")

MayProceed(x) == x.satisfied = Factors /\ x.report = "verified"

\* Mutant: any report will do.
decideDefaultUnverified(r, outcome) ==
  /\ kind = "default" /\ row.decision = NoDecision
  /\ outcome = "PROCEED" => row.satisfied = Factors /\ row.report # "none"
  /\ Read(r, "decideDefault", outcome)

decideDefault(r, outcome) ==
  /\ kind = "default" /\ row.decision = NoDecision
  /\ outcome = "PROCEED" => MayProceed(row)
  /\ Read(r, "decideDefault", outcome)

\* The decision is unique: a second one fails.
recordDefault(r) ==
  /\ At(r, "decideDefault")
  /\ IF row.decision = NoDecision THEN Put(r, [row EXCEPT !.decision = task[r].args], "defaultStage")
     ELSE Put(r, row, "done")
setDefaultStage(r) ==
  At(r, "defaultStage")
  /\ Put(r, [row EXCEPT !.stage = CASE task[r].args = "PROCEED" -> "PROCEED_AUTHORISED"
                                    [] task[r].args = "REFUSE" -> "PROCEED_REFUSED"
                                    [] OTHER -> "CURED"], "done")
-----------------------------------------------------------------------------
(* Expedited track *)

Agreement(x) == (\E u \in Users : x.consent[u] = "yes") /\ (\A u \in Users : x.consent[u] # "no")

\* The consent, then the consents of all, then the track if its status changes.
consent(r, u, answer) == kind = "expedited" /\ Read(r, "consent", [user |-> u, answer |-> answer])
setConsent(r) ==
  At(r, "consent")
  /\ Put(r, [row EXCEPT !.consent = [@ EXCEPT ![task[r].args.user] = task[r].args.answer]], "consents")
readConsents(r) ==
  /\ At(r, "consents")
  /\ LET status == IF \E u \in Users : row.consent[u] = "no" THEN "DECLINED" ELSE "AGREED"
     IN  IF status = task[r].seen.status THEN Finish(r)
         ELSE Continue(r, [task[r] EXCEPT !.step = "track", !.args = status])
  /\ UNCHANGED <<kind, row>>
setTrack(r) == At(r, "track") /\ Put(r, [row EXCEPT !.status = task[r].args], "done")

\* A track that was terminated may be activated again.
activate(r) ==
  /\ kind = "expedited" /\ row.status # "ACTIVE"
  /\ row.basis = "PARTY_AGREEMENT" => Agreement(row)
  /\ Read(r, "activate", {})
setActive(r) == At(r, "activate") /\ Put(r, [row EXCEPT !.status = "ACTIVE"], "done")

terminate(r) == kind = "expedited" /\ Set(r, [row EXCEPT !.status = "TERMINATED"])
-----------------------------------------------------------------------------
(* Filings: a version is never edited, a correction adds one *)

requestFilingCorrection(r, v) ==
  /\ kind = "filing" /\ Len(row.corrections) < MaxRows
  /\ v \in DOMAIN row.versions /\ row.versions[v].status # "SUPERSEDED"
  /\ Set(r, [row EXCEPT !.corrections =
               Append(@, [of |-> v, approval |-> "PENDING", new |-> 0])])

decideCorrection(r, c, approve) ==
  /\ kind = "filing" /\ c \in DOMAIN row.corrections /\ row.corrections[c].approval = "PENDING"
  /\ Read(r, IF approve THEN "version" ELSE "reject", c)

rejectCorrection(r) ==
  At(r, "reject") /\ Put(r, [row EXCEPT !.corrections[task[r].args].approval = "REJECTED"], "done")

\* supersedesId is unique: a filing that has a later version cannot get another.
createVersion(r) ==
  /\ At(r, "version")
  /\ LET of == row.corrections[task[r].args].of IN
     IF of < Len(row.versions) THEN Put(r, row, "done")
     ELSE Put(r, [row EXCEPT !.versions = Append(@, [status |-> "SUBMITTED", receipt |-> FALSE])], "supersede")

\* Mutant: the superseded version keeps its status.
supersedeNothing(r) == At(r, "supersede") /\ Put(r, row, "approve")

supersede(r) ==
  At(r, "supersede")
  /\ Put(r, [row EXCEPT !.versions[row.corrections[task[r].args].of].status = "SUPERSEDED"], "approve")
approveCorrection(r) ==
  /\ At(r, "approve")
  /\ LET c == task[r].args IN
     Put(r, [row EXCEPT !.corrections[c] =
               [@ EXCEPT !.approval = "APPROVED", !.new = row.corrections[c].of + 1]], "receipt")
issueReceipt(r) ==
  At(r, "receipt")
  /\ Put(r, [row EXCEPT !.versions[row.corrections[task[r].args].of + 1].receipt = TRUE], "done")
-----------------------------------------------------------------------------
(* Evidence: witnesses, experts, objections *)

\* A statement or report gets the version after the number of those there are.
submitStatement(r) ==
  /\ kind \in {"witness", "expert"} /\ Len(row.versions) < MaxRows
  /\ Read(r, "submit", Len(row.versions) + 1)
addVersion(r) ==
  At(r, "submit")
  /\ Put(r, [row EXCEPT !.versions = Append(@, task[r].args)],
         IF kind = "expert" THEN "reported by expert" ELSE "done")
setExpertReported(r) == At(r, "reported by expert") /\ Put(r, [row EXCEPT !.status = "REPORTED"], "done")

\* Without an oath the status that was read is written back.
recordOath(r, oath) == kind = "witness" /\ Read(r, "oath", oath)
setOath(r) ==
  At(r, "oath")
  /\ Put(r, [row EXCEPT !.oath = task[r].args,
                        !.status = IF task[r].args = "NONE" THEN task[r].seen.status ELSE "TESTIFIED"], "done")

ruleObjection(r, ruling) == kind = "objection" /\ Set(r, [row EXCEPT !.status = ruling])
-----------------------------------------------------------------------------
FilingsController(r) ==
  \/ object(r) \/ reply(r) \/ produce(r) \/ flagNonCompliance(r)
  \/ \E d \in Decision : decideProduction(r, d)
  \/ kind = "filing" /\ \E i \in 1..(MaxRows + 1) :
       requestFilingCorrection(r, i) \/ \E approve \in BOOLEAN : decideCorrection(r, i, approve)
InterimController(r) ==
  oppose(r) \/ modify(r) \/ discharge(r) \/ \E d \in Decision : decideInterim(r, d)
DefaultsController(r) ==
  \/ \E stage \in NoticeStage : issueNotice(r, stage)
  \/ \E f \in Factors, s \in BOOLEAN : reviewFactor(r, f, s)
  \/ \E report \in {"verified", "unverified"} : fileRegistrarReport(r, report)
  \/ \E outcome \in {"PROCEED", "REFUSE", "CURED"} : decideDefault(r, outcome)
CaseTracksController(r) ==
  \/ \E u \in Users, answer \in {"yes", "no"} : consent(r, u, answer)
  \/ activate(r) \/ terminate(r)
  \/ comment(r) \/ withdraw(r) \/ \E d \in {"GRANTED", "DENIED"} : decideJoinder(r, d)
EvidenceController(r) ==
  \/ submitStatement(r)
  \/ \E oath \in {"NONE", "OATH"} : recordOath(r, oath)
  \/ \E ruling \in {"UPHELD", "DISMISSED", "DEFERRED"} : ruleObjection(r, ruling)

Work(r) ==
  \/ addDocuments(r) \/ setProduced(r) \/ setInterim(r)
  \/ openComments(r) \/ setJoinder(r) \/ setWithdrawn(r)
  \/ setFactor(r) \/ setRegistrarReview(r) \/ setReport(r) \/ setReported(r) \/ recordDefault(r) \/ setDefaultStage(r)
  \/ setConsent(r) \/ readConsents(r) \/ setTrack(r) \/ setActive(r)
  \/ rejectCorrection(r) \/ createVersion(r) \/ supersede(r) \/ approveCorrection(r) \/ issueReceipt(r)
  \/ addVersion(r) \/ setExpertReported(r) \/ setOath(r)

ApplicationsNext == \E r \in Requests :
  \/ FilingsController(r) \/ InterimController(r) \/ DefaultsController(r)
  \/ CaseTracksController(r) \/ EvidenceController(r) \/ Work(r)
-----------------------------------------------------------------------------
(* Properties *)

\* A decision once recorded is not replaced: of an interim measure or a joinder as
\* long as requests run one at a time (each asks whether there is one, and writes
\* later), of a default whatever the interleaving.  A decided joinder is not
\* withdrawn or opened for comments either.
DecisionStands ==
  [][/\ ((kind = "default" \/ (kind \in {"interim", "joinder"} /\ Serial)) /\ row.decision # NoDecision
           => row'.decision = row.decision)
     /\ (kind = "joinder" /\ Serial /\ row.decision # NoDecision => row'.status = row.status)]_<<alone, applicationVars>>

\* Relief rests on what it needs at the moment it takes effect, when requests run one
\* at a time: documents are produced under a grant, a default proceeds with every
\* factor satisfied and service verified, and a track based on the parties' agreement
\* becomes active with the agreement of those who answered.
GroundedWhenTaken ==
  [][Serial =>
       /\ (kind = "production" /\ row'.status = "PRODUCED" => row.decision \in Granted)
       /\ (kind = "default" /\ row'.stage = "PROCEED_AUTHORISED" /\ row.stage # row'.stage
            => MayProceed(row))
       /\ (kind = "expedited" /\ row'.status = "ACTIVE" /\ row.status # "ACTIVE"
              /\ row.basis = "PARTY_AGREEMENT"
            => Agreement(row))]_<<alone, applicationVars>>

\* A filed document is never silently replaced: whatever the interleaving, and
\* wherever a request stops, an approved correction has its own later version and its
\* filing is marked superseded.  Of requests that run one at a time, one version of a
\* filing is current between them, and a rejected correction made none.
CorrectionReplaces ==
  kind = "filing" =>
    /\ \A i \in DOMAIN row.corrections :
         LET c == row.corrections[i] IN
         c.approval = "APPROVED" =>
           c.new > c.of /\ c.new \in DOMAIN row.versions /\ row.versions[c.of].status = "SUPERSEDED"
    /\ Serial /\ Quiet =>
         /\ \A v \in DOMAIN row.versions : row.versions[v].status = "SUPERSEDED" <=> v < Len(row.versions)
         /\ Len(row.versions) = 1 + Cardinality({i \in DOMAIN row.corrections : row.corrections[i].approval = "APPROVED"})
=============================================================================
