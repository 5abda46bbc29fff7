----------------------------- MODULE MCService -----------------------------
(* Instances of Service for TLC. *)
EXTENDS Service, TLC

\* Mails share nothing: two are followed while requests run one at a time, and of
\* overlapping requests one.  A member's mail is followed by itself.
FewMails ==
  LET mailed == {m \in Mail : delivery[m].status # "NONE"}
  IN  Cardinality(mailed) <= (IF Serial /\ mailed \cap Members = {} THEN 2 ELSE 1)

Symmetry == Permutations(Requests) \cup Permutations(Recipients)
=============================================================================
