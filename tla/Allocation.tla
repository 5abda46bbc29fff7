----------------------------- MODULE Allocation -----------------------------
(***************************************************************************)
(* The pure engine that splits a deposit among a case's parties and keeps  *)
(* their shares (allocation-engine.ts).  Amounts are integer cents, as the *)
(* engine computes them; parties are the positions 1..n of a list, and a   *)
(* weight is a claim value or an agreed weight in whole units.             *)
(***************************************************************************)
EXTENDS Integers, FiniteSets, Functions

Even == {"EQUAL", "BY_PARTY_COUNT", "BY_TRIBUNAL"}
ByValue == {"BY_CLAIM_VALUE", "BY_CLAIM_AND_COUNTERCLAIM"}
ByWeight == {"BY_AGREEMENT", "CUSTOM"}
AllocationMethod == Even \cup ByValue \cup ByWeight

NonNegative(n) == IF n > 0 THEN n ELSE 0
Total(f) == FoldFunction(LAMBDA x, y : x + y, 0, f)

\* The weights a method takes from the parties' claim values and agreed weights.
weightsOf(method, party) ==
  [i \in DOMAIN party |->
     IF method \in Even THEN 1
     ELSE NonNegative(IF method \in ByValue THEN party[i].claimValue ELSE party[i].weight)]

\* An even split when no weight is positive.
EvenIfZero(weights) ==
  IF Total(weights) <= 0 THEN [i \in DOMAIN weights |-> 1] ELSE weights

quota(total, w, i) == (total * w[i]) \div Total(w)
fraction(total, w, i) == (total * w[i]) % Total(w)

\* The place of i when fractional parts are sorted, largest first (a stable sort).
rank(total, w, i) ==
  Cardinality({j \in DOMAIN w :
    \/ fraction(total, w, j) > fraction(total, w, i)
    \/ fraction(total, w, j) = fraction(total, w, i) /\ j < i})

\* Mutant: the cents lost by rounding down are not handed out.
distributeFloor(total, weights) ==
  LET w == EvenIfZero(weights)
  IN [i \in DOMAIN w |-> quota(total, w, i)]

\* Every quota rounded down; the leftover cents go to the largest fractions.
distribute(total, weights) ==
  LET w == EvenIfZero(weights)
      leftover == total - Total([i \in DOMAIN w |-> quota(total, w, i)])
  IN [i \in DOMAIN w |-> quota(total, w, i)
        + (IF rank(total, w, i) < leftover THEN 1 ELSE 0)]

allocate(total, method, party) == distribute(total, weightsOf(method, party))

outstanding(share) == NonNegative(share.shareAmount - share.paidAmount)

applyPayment(share, amount) == [share EXCEPT !.paidAmount = @ + amount]

isInDefault(share, pastDue) == pastDue /\ outstanding(share) > 0

totalOutstanding(shares) == Total([i \in DOMAIN shares |-> outstanding(shares[i])])
=============================================================================
