------------------------------ MODULE SeedRows ------------------------------
(***************************************************************************)
(* The rows of the base seed in the order of its source: those that a      *)
(* script looks for, and one or two of every section.  Of the chapters of  *)
(* the rules two stand here whose rules are triggered by an event, one of  *)
(* which defines a deadline.                                               *)
(***************************************************************************)
EXTENDS Seed, SequencesExt

CreateUsers(names) == [i \in DOMAIN names |-> createUser(names[i])]

seedStaff == CreateUsers(<<"superadmin", "registrar", "council", "admin">>)
seedLawyers == <<createUser("lawyers"), <<"lawyerProfiles">>>>
seedClients == <<createUser("clients")>>
seedArbitrators == <<createUser("arbitrators"), arbitratorProfiles>>

chapterContent ==
  <<[number |-> 3, triggeringEvent |-> "CASE_REGISTERED", deadline |-> FALSE],
    [number |-> 5, triggeringEvent |-> "NOTICE_SERVED", deadline |-> TRUE]>>

versionRows(v) ==
  <<Version(v)>> \o
  FlattenSeq([i \in DOMAIN chapterContent |->
    <<<<"rule", v, i>>>> \o IF chapterContent[i].deadline THEN <<<<"definition", v, i>>>> ELSE <<>>])

ruleRows == <<ruleSet>> \o versionRows("1.0") \o versionRows("2.0") \o versionRows("3.0-draft") \o <<calendar>>

seedTribunal == <<<<"tribunal">>, <<"seat">>, <<"note">>>>
seedAcceptance == <<"acceptance", "case2">>
seedDeadline == <<"deadline", "case2">>
noticeRows == <<<<"notice", "notice">>, <<"notice", "attempts">>, <<"notice", "substituteOrder">>>>

\* Both shares of the deposit: the claimant pays its own, the respondent
\* defaults and the claimant pays that one too.
depositRows ==
  <<depositRequest, <<"deposit", "charge">>, <<"deposit", "CLAIMANT paid">>,
    <<"deposit", "RESPONDENT default">>, <<"deposit", "RESPONDENT paid">>, <<"deposit", "request paid">>>>

seedContent == <<<<"news">>, <<"publication">>, <<"setting">>>>

Showcase(names) == [i \in DOMAIN names |-> <<"showcase", names[i]>>]
showcaseTribunal == Showcase(<<"tribunal", "seat", "invitations", "challenge">>)
showcaseRecords == Showcase(<<"documents", "messages", "deadline">>)
showcaseHearings == Showcase(<<"hearings">>)
showcaseEmails == Showcase(<<"emailDeliveries">>)
showcaseFinance == Showcase(<<"invoice", "invoicePayments", "award">>)
showcaseCompliance == Showcase(<<"checks", "hold", "legalHold">>)
showcaseReview == Showcase(<<"reviewItems", "chapterReviews", "reviewState">>)
showcaseRows ==
  <<showcaseCase>> \o Showcase(<<"pin", "acceptance">>) \o showcaseTribunal \o showcaseRecords
  \o showcaseHearings \o showcaseEmails \o showcaseFinance \o showcaseCompliance \o showcaseReview

BaseSeed ==
  seedStaff \o seedLawyers \o seedClients \o seedArbitrators \o ruleRows
  \o <<seedCase("case1"), seedCase("case2")>> \o seedTribunal
  \o <<seedPin("case1"), seedPin("case2"), seedAcceptance, <<"event", "case2">>, seedDeadline>> \o noticeRows
  \o <<feeSchedule>> \o depositRows \o <<seedCase("case3")>> \o seedContent \o showcaseRows
=============================================================================
