----------------------------- MODULE MCDeposits -----------------------------
(***************************************************************************)
(* Instances of Deposits for TLC: the parties and their claims.  A         *)
(* behaviour has its requests one at a time, each going on to its end, or  *)
(* interleaves them and lets them crash; or it follows a ledger of shares  *)
(* of any size (ShareLedger).                                              *)
(***************************************************************************)
EXTENDS Deposits

CONSTANTS MaxParties, MaxTotal, MaxWeight, MaxPayment, MaxPayments

ASSUME EngineAssumption == {MaxParties, MaxTotal, MaxWeight, MaxPayment, MaxPayments} \subseteq Nat

VARIABLES mode, total, weights, shares, paid

Engine == INSTANCE ShareLedger
engineVars == <<total, weights, shares, paid>>
mcVars == <<mode, engineVars, vars>>

TwoParties == <<[claimValue |-> 2, weight |-> 1], [claimValue |-> 1, weight |-> 1]>>
first == CHOOSE r \in Requests : TRUE

spare == CHOOSE d \in Payment : TRUE

MCInit ==
  /\ Init
  /\ \/ mode = "engine" /\ Engine!Init
     \/ /\ mode \in {"serial", "concurrent"}
        /\ total = 0 /\ weights = <<>> /\ shares = <<>> /\ paid = {}

MCNext ==
  /\ UNCHANGED mode
  /\ \/ mode = "engine" /\ Engine!Next /\ UNCHANGED vars
     \/ /\ mode = "serial" /\ UNCHANGED engineVars
        /\ Start(first) \/ Step(first) \/ \E q \in Deposit : Elapse(q)
     \/ /\ mode = "concurrent" /\ Next /\ UNCHANGED engineVars
        /\ payment'[spare] = NoPayment /\ UNCHANGED refund
        /\ \A q \in Deposit : Requested(q)' => request'[q].total > 0

\* A handler that was entered keeps being scheduled.
MCSpec == MCInit /\ [][MCNext]_mcVars /\ WF_mcVars(mode = "serial" /\ Step(first) /\ UNCHANGED <<mode, engineVars>>)
-----------------------------------------------------------------------------
(* Every party is asked for its fair part: the allocation engine splits a  *)
(* deposit to the cent, by weight, and what it calls outstanding is what   *)
(* is lacking, whatever was overpaid elsewhere.                            *)
FairShares == mode = "engine" => Engine!FairShares

(* No share is ever shown paid with money that was not received.  Of       *)
(* requests one at a time, the books agree between them: the ledger holds  *)
(* one entry for each charge, payment and refund, shares show what was     *)
(* received, one default is open on each share flagged so, and the status  *)
(* of a deposit is the one its shares imply.                               *)
BooksAgree ==
  /\ PaidWithinReceived
  /\ mode = "serial" => LedgerComplete /\ PaidIsReceived /\ DefaultFlagMatchesOpen /\ StatusCurrent

(* Of requests one at a time, a deposit whose shares are all covered       *)
(* becomes PAID, once and for all handlers that were entered are run.      *)
CoveredIsPaid ==
  \A q \in Deposit :
    (/\ mode = "serial" /\ Requested(q) /\ request[q].total > 0
     /\ \A p \in Party : Covered(q, p)) ~> request[q].status = "PAID"
=============================================================================
