----------------------------- MODULE ShareLedger -----------------------------
(***************************************************************************)
(* The allocation engine in use: a deposit of any total and method is      *)
(* split among parties with any claim values and weights, then payments    *)
(* are applied to the shares one after the other.                          *)
(***************************************************************************)
EXTENDS Allocation

CONSTANTS
  MaxParties,   \* bound: number of parties
  MaxTotal,     \* bound: cents deposited
  MaxWeight,    \* bound: a claim value or weight, -1 standing for any negative one
  MaxPayment,   \* bound: cents in one payment
  MaxPayments   \* bound: number of payments

VARIABLES
  total,    \* the deposit, in cents
  weights,  \* the weights of its method
  shares,   \* the ledger of the parties' shares
  paid      \* the payments applied so far: party and amount

vars == <<total, weights, shares, paid>>

Party == [claimValue : {-1} \cup 0..MaxWeight, weight : {0}]

Init ==
  /\ total \in 0..MaxTotal
  /\ \E n \in 1..MaxParties, method \in {"EQUAL", "BY_CLAIM_VALUE"} :
       \E party \in [1..n -> Party] :
          /\ weights = weightsOf(method, party)
          /\ shares = [i \in 1..n |-> [shareAmount |-> allocate(total, method, party)[i],
                                      paidAmount |-> 0]]
  /\ paid = {}

Pay(i, amount) ==
  /\ Cardinality(paid) < MaxPayments
  /\ shares' = [shares EXCEPT ![i] = applyPayment(shares[i], amount)]
  /\ paid' = paid \cup {[n |-> Cardinality(paid), party |-> i, amount |-> amount]}
  /\ UNCHANGED <<total, weights>>

Next == \E i \in DOMAIN shares, amount \in 1..MaxPayment : Pay(i, amount)

Spec == Init /\ [][Next]_vars
-----------------------------------------------------------------------------
(* Properties *)

Asked == [i \in DOMAIN shares |-> shares[i].shareAmount]
Received(i) == {p \in paid : p.party = i}
ReceivedTotal(i) == Total([p \in Received(i) |-> p.amount])

\* The shares of distribute() add up to the deposit to the cent.
SumsExactly == Total(Asked) = total

\* distribute() is fair: each share is its exact quota rounded up or down, so
\* parties of equal weight differ by a cent at most.
WithinOneCent ==
  LET w == EvenIfZero(weights)
  IN \A i \in DOMAIN shares :
       /\ Asked[i] * Total(w) < total * w[i] + Total(w)
       /\ Asked[i] * Total(w) > total * w[i] - Total(w)

\* distribute() never lets a party with a larger claim owe less than another.
LargerClaimLargerShare ==
  \A i, j \in DOMAIN shares :
    weights[i] > weights[j] => Asked[i] >= Asked[j]

\* What another party may still cover is exactly the sum of what each share
\* lacks, whatever was overpaid elsewhere: covering it leaves nobody in default.
OutstandingIsShortfall ==
  totalOutstanding(shares) =
    Total([i \in DOMAIN shares |-> NonNegative(Asked[i] - ReceivedTotal(i))])

\* Every party is asked for its fair part: the engine splits a deposit to the
\* cent, by weight, and what it calls outstanding is what is lacking.
FairShares == SumsExactly /\ WithinOneCent /\ LargerClaimLargerShare /\ OutstandingIsShortfall
=============================================================================
