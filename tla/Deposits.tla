------------------------------ MODULE Deposits ------------------------------
(***************************************************************************)
(* The deposits of one case (DepositsService): requests split into shares  *)
(* by the allocation engine, payments (a party's own or a substitute's),   *)
(* defaults, refunds, and the case's append-only ledger.                   *)
(*                                                                         *)
(* Every operation is an HTTP handler that awaits one database call after  *)
(* another; task[r] holds the step request r is at and what it has read.   *)
(* Amounts are cents.  Nothing changes a share, a payment or a refund row  *)
(* once it is written, so reading one joins the write that follows.        *)
(***************************************************************************)
EXTENDS Allocation

CONSTANTS
  Deposit,     \* the deposit requests the case may see (bounds their number)
  Payment,     \* the payments the case may see (bounds their number)
  Refund,      \* the refunds the case may see (bounds their number)
  Parties,     \* claim value and agreed weight of each party 1..n of the case
  Totals,      \* the totals a deposit may be requested for
  Methods,     \* the allocation methods in use
  Amounts,     \* the amounts one payment or refund may be of
  Requests,    \* requests in progress at one time: the degree of concurrency
  Crashes      \* may a request stop half-way (process exit, failed query)?

ASSUME MethodsAssumption == Methods \subseteq AllocationMethod
ASSUME MoneyAssumption == Totals \subseteq Nat /\ Amounts \subseteq Nat \ {0}
ASSUME CrashesAssumption == Crashes \in BOOLEAN
\* A case has parties, or nothing is requested of it.
ASSUME PartiesAssumption ==
  /\ Parties # <<>> /\ DOMAIN Parties = 1..Cardinality(DOMAIN Parties) /\ IsFiniteSet(DOMAIN Parties)
  /\ \A p \in DOMAIN Parties : Parties[p].claimValue \in Int /\ Parties[p].weight \in Int
ASSUME RowsAssumption == IsFiniteSet(Payment) /\ Requests # {}

VARIABLES
  request,   \* depositRequest rows: status, total, due date
  share,     \* depositAllocation rows of each request, one per party
  payment,   \* depositPayment rows
  refund,    \* refund rows
  open,      \* number of OPEN paymentDefault rows of each share
  ledger,    \* financialLedgerEntry rows: what each is related to, amount
  task       \* what each request in progress has still to do

vars == <<request, share, payment, refund, open, ledger, task>>

Party == DOMAIN Parties
Shares == Deposit \X Party

DepositStatus == {"REQUESTED", "PARTIALLY_PAID", "PAID", "IN_DEFAULT"}
ShareStatus == {"OUTSTANDING", "PARTIALLY_PAID", "PAID", "PAID_BY_SUBSTITUTE", "IN_DEFAULT"}

NoRequest == [status |-> "NONE", total |-> 0, due |-> "never"]
NoShare == [status |-> "OUTSTANDING", shareAmount |-> 0, paidAmount |-> 0]
NoPayment == [q |-> "NONE", p |-> 0, amount |-> 0]
NoRefund == [of |-> "NONE", amount |-> 0]
Idle == [step |-> "idle"]

Begin(r, work) == task[r] = Idle /\ task' = [task EXCEPT ![r] = work]
Continue(r, work) == task' = [task EXCEPT ![r] = work]
Finish(r) == task' = [task EXCEPT ![r] = Idle]
At(r, step) == task[r].step = step

Requested(q) == request[q].status # "NONE"
Covered(q, p) == share[q][p].paidAmount >= share[q][p].shareAmount

Init ==
  /\ request = [q \in Deposit |-> NoRequest]
  /\ share = [q \in Deposit |-> [p \in Party |-> NoShare]]
  /\ payment = [d \in Payment |-> NoPayment]
  /\ refund = [f \in Refund |-> NoRefund]
  /\ open = [al \in Shares |-> 0]
  /\ ledger = {}
  /\ task = [r \in Requests |-> Idle]
-----------------------------------------------------------------------------
(* Deposit requests *)

\* createRequest: the request with its shares, then the charge on the ledger.
createRequest(r, q, total, method, due) ==
  /\ ~Requested(q)
  /\ request' = [request EXCEPT ![q] = [status |-> "REQUESTED", total |-> total, due |-> due]]
  /\ share' = [share EXCEPT ![q] =
                 [p \in Party |-> [NoShare EXCEPT !.shareAmount =
                                     allocate(total, method, Parties)[p]]]]
  /\ Begin(r, [step |-> "charge", q |-> q])
  /\ UNCHANGED <<payment, refund, open, ledger>>

ChargeOf(q) == [kind |-> "CHARGE", of |-> q, amount |-> -request[q].total]

Charge(r) ==
  /\ At(r, "charge")
  /\ ledger' = ledger \cup {ChargeOf(task[r].q)}
  /\ Finish(r)
  /\ UNCHANGED <<request, share, payment, refund, open>>

Elapse(q) ==
  /\ request[q].due = "later"
  /\ request' = [request EXCEPT ![q].due = "passed"]
  /\ UNCHANGED <<share, payment, refund, open, ledger, task>>
-----------------------------------------------------------------------------
(* Payments *)

\* Bound: a payment row is left for every payment in progress.
PaymentLeft == Cardinality({d \in Payment : payment[d] = NoPayment})
                 > Cardinality({r \in Requests : At(r, "pay")})

\* recordPayment: the share is read, and the new amount paid computed, first.
recordPayment(r, q, p, amount, substitute) ==
  /\ PaymentLeft
  /\ Requested(q)
  /\ Begin(r, [step |-> "pay", q |-> q, p |-> p, amount |-> amount,
               substitute |-> substitute, newPaid |-> share[q][p].paidAmount + amount])
  /\ UNCHANGED <<request, share, payment, refund, open, ledger>>

PaymentOf(d, amount) == [kind |-> "PAYMENT", of |-> d, amount |-> amount]

paidStatus(newPaid, due, substitute) ==
  IF newPaid < due THEN "PARTIALLY_PAID"
  ELSE IF substitute THEN "PAID_BY_SUBSTITUTE" ELSE "PAID"

\* Mutant: the entry on the ledger is forgotten.
PayUnledgered(r, d) ==
  LET w == task[r]
      owed == share[w.q][w.p].shareAmount
  IN /\ At(r, "pay")
     /\ payment[d] = NoPayment
     /\ payment' = [payment EXCEPT ![d] = [q |-> w.q, p |-> w.p, amount |-> w.amount]]
     /\ share' = [share EXCEPT ![w.q][w.p] =
                    [status |-> paidStatus(w.newPaid, owed, w.substitute),
                     shareAmount |-> owed, paidAmount |-> w.newPaid]]
     /\ Continue(r, [step |-> "cure", q |-> w.q, p |-> w.p])
     /\ UNCHANGED <<request, refund, open, ledger>>

\* The payment's transaction writes the amount computed from the earlier read.
Pay(r, d) ==
  LET w == task[r]
      owed == share[w.q][w.p].shareAmount
  IN /\ At(r, "pay")
     /\ payment[d] = NoPayment
     /\ payment' = [payment EXCEPT ![d] = [q |-> w.q, p |-> w.p, amount |-> w.amount]]
     /\ share' = [share EXCEPT ![w.q][w.p] =
                    [status |-> paidStatus(w.newPaid, owed, w.substitute),
                     shareAmount |-> owed, paidAmount |-> w.newPaid]]
     /\ ledger' = ledger \cup {PaymentOf(d, w.amount)}
     /\ Continue(r, [step |-> "cure", q |-> w.q, p |-> w.p])
     /\ UNCHANGED <<request, refund, open>>

\* Mutant: the status of the deposit is not recomputed after a payment.
CureOnly(r) ==
  /\ At(r, "cure")
  /\ open' = [open EXCEPT ![<<task[r].q, task[r].p>>] = 0]
  /\ Finish(r)
  /\ UNCHANGED <<request, share, payment, refund, ledger>>

\* Every OPEN default of the share becomes CURED_BY_PARTY or CURED_BY_SUBSTITUTE.
Cure(r) ==
  /\ At(r, "cure")
  /\ open' = [open EXCEPT ![<<task[r].q, task[r].p>>] = 0]
  /\ Continue(r, [step |-> "recompute", q |-> task[r].q])
  /\ UNCHANGED <<request, share, payment, refund, ledger>>

statusOf(q) ==
  IF \A p \in Party : Covered(q, p) THEN "PAID"
  ELSE IF \E p \in Party : share[q][p].status = "IN_DEFAULT" THEN "IN_DEFAULT"
  ELSE IF \E p \in Party : share[q][p].paidAmount > 0 THEN "PARTIALLY_PAID"
  ELSE "REQUESTED"

\* recomputeDepositStatus: the shares are read, then the status is written.
Recompute(r) ==
  /\ At(r, "recompute")
  /\ Continue(r, [step |-> "writeStatus", q |-> task[r].q, status |-> statusOf(task[r].q)])
  /\ UNCHANGED <<request, share, payment, refund, open, ledger>>

WriteStatus(r) ==
  /\ At(r, "writeStatus")
  /\ request' = [request EXCEPT ![task[r].q].status = task[r].status]
  /\ Finish(r)
  /\ UNCHANGED <<share, payment, refund, open, ledger>>
-----------------------------------------------------------------------------
(* Defaults *)

\* Mutant: a share already in default is declared again.
DefaultingAgain(q) == {p \in Party : ~Covered(q, p)}

Defaulting(q) == {p \in Party : ~Covered(q, p) /\ share[q][p].status # "IN_DEFAULT"}

\* declareDefaults: the request and its shares are read once.
declareDefaults(r, q) ==
  /\ request[q].due = "passed"
  /\ Begin(r, IF Defaulting(q) = {} THEN [step |-> "recompute", q |-> q]
              ELSE [step |-> "declare", q |-> q, rest |-> Defaulting(q)])
  /\ UNCHANGED <<request, share, payment, refund, open, ledger>>

\* One transaction per share: the OPEN default row and the share's flag.
Declare(r, p) ==
  LET w == task[r]
      rest == w.rest \ {p}
  IN /\ At(r, "declare")
     /\ p \in w.rest
     /\ open' = [open EXCEPT ![<<w.q, p>>] = @ + 1]
     /\ share' = [share EXCEPT ![w.q][p].status = "IN_DEFAULT"]
     /\ Continue(r, IF rest = {} THEN [step |-> "recompute", q |-> w.q]
                    ELSE [w EXCEPT !.rest = rest])
     /\ UNCHANGED <<request, payment, refund, ledger>>
-----------------------------------------------------------------------------
(* Refunds *)

\* refund: checked against the one payment only, whatever was refunded before.
recordRefund(r, f, d, amount) ==
  /\ refund[f] = NoRefund
  /\ payment[d] # NoPayment
  /\ amount <= payment[d].amount
  /\ refund' = [refund EXCEPT ![f] = [of |-> d, amount |-> amount]]
  /\ Begin(r, [step |-> "ledgerRefund", f |-> f])
  /\ UNCHANGED <<request, share, payment, open, ledger>>

RefundOf(f) == [kind |-> "REFUND", of |-> f, amount |-> -refund[f].amount]

LedgerRefund(r) ==
  /\ At(r, "ledgerRefund")
  /\ ledger' = ledger \cup {RefundOf(task[r].f)}
  /\ Finish(r)
  /\ UNCHANGED <<request, share, payment, refund, open>>

\* A request that has done part of its work is lost.
Crash(r) ==
  /\ Crashes
  /\ task[r] # Idle
  /\ Finish(r)
  /\ UNCHANGED <<request, share, payment, refund, open, ledger>>
-----------------------------------------------------------------------------
(* The specification *)

Start(r) ==
  \/ \E q \in Deposit, total \in Totals, method \in Methods, due \in {"never", "later"} :
        createRequest(r, q, total, method, due)
  \/ \E q \in Deposit, p \in Party, amount \in Amounts, substitute \in BOOLEAN :
        recordPayment(r, q, p, amount, substitute)
  \/ \E q \in Deposit : declareDefaults(r, q)
  \/ \E f \in Refund, d \in Payment, amount \in Amounts : recordRefund(r, f, d, amount)

Step(r) ==
  \/ Charge(r)
  \/ \E d \in Payment : Pay(r, d)
  \/ Cure(r) \/ Recompute(r) \/ WriteStatus(r)
  \/ \E p \in Party : Declare(r, p)
  \/ LedgerRefund(r)

Next ==
  \/ \E r \in Requests : Start(r) \/ Step(r) \/ Crash(r)
  \/ \E q \in Deposit : Elapse(q)

Spec == Init /\ [][Next]_vars

-----------------------------------------------------------------------------
(* Properties *)

\* What a request in progress holds is what its handler has read.
TaskOK(w) ==
  \/ w = Idle
  \/ /\ w.step \in {"charge", "recompute"}
     /\ w.q \in Deposit
  \/ /\ w.step = "pay"
     /\ <<w.q, w.p>> \in Shares /\ w.substitute \in BOOLEAN
     /\ w.amount \in Amounts /\ w.newPaid \in Nat
  \/ w.step = "cure" /\ <<w.q, w.p>> \in Shares
  \/ w.step = "writeStatus" /\ w.q \in Deposit /\ w.status \in DepositStatus
  \/ w.step = "declare" /\ w.q \in Deposit /\ w.rest \subseteq Party /\ w.rest # {}
  \/ w.step = "ledgerRefund" /\ w.f \in Refund

\* Every row and every request in progress has the shape the schema gives it.
TypeOK ==
  /\ request \in [Deposit -> [status : DepositStatus \cup {"NONE"}, total : Totals \cup {0},
                              due : {"never", "later", "passed"}]]
  /\ share \in [Deposit -> [Party -> [status : ShareStatus, shareAmount : Nat, paidAmount : Nat]]]
  /\ payment \in [Payment -> [q : Deposit \cup {"NONE"}, p : Party \cup {0}, amount : Amounts \cup {0}]]
  /\ refund \in [Refund -> [of : Payment \cup {"NONE"}, amount : Amounts \cup {0}]]
  /\ open \in [Shares -> Nat]
  /\ \A e \in ledger : e.kind \in {"CHARGE", "PAYMENT", "REFUND"} /\ e.amount \in Int
  /\ \A r \in Requests : TaskOK(task[r])

Quiet == \A r \in Requests : task[r] = Idle

\* The ledger accounts for everything: when no request is in progress it holds
\* one signed entry for each deposit requested, payment received and refund made,
\* and nothing else, whatever order the handlers ran in.
LedgerComplete ==
  Quiet => ledger = {ChargeOf(q) : q \in {q \in Deposit : Requested(q)}}
             \cup {PaymentOf(d, payment[d].amount) : d \in {d \in Payment : payment[d] # NoPayment}}
             \cup {RefundOf(f) : f \in {f \in Refund : refund[f] # NoRefund}}

\* recordPayment's transaction keeps payments and ledger together at every
\* moment: no crash or interleaving leaves one without the other.
PaymentsAreLedgered ==
  {e \in ledger : e.kind = "PAYMENT"} =
    {PaymentOf(d, payment[d].amount) : d \in {d \in Payment : payment[d] # NoPayment}}

Received(q, p) ==
  Total([d \in {d \in Payment : payment[d].q = q /\ payment[d].p = p} |-> payment[d].amount])

\* recordPayment never shows a share paid with money that was not received, even
\* when payments race or a request is lost (an update may only get lost).
PaidWithinReceived ==
  \A q \in Deposit, p \in Party : share[q][p].paidAmount <= Received(q, p)

\* A share's amount paid is the sum of the payments received for it.
PaidIsReceived ==
  \A q \in Deposit, p \in Party : share[q][p].paidAmount = Received(q, p)

\* Between requests a share is flagged IN_DEFAULT exactly while one, and only
\* one, default is OPEN on it: curing and declaring keep the two in step.
DefaultFlagMatchesOpen ==
  Quiet => \A q \in Deposit, p \in Party :
             open[q, p] = IF share[q][p].status = "IN_DEFAULT" THEN 1 ELSE 0

\* Between requests the status of a deposit is the one its shares imply (a
\* deposit of nothing keeps the status it was created with).
StatusCurrent ==
  Quiet => \A q \in Deposit :
             Requested(q) /\ request[q].total > 0 => request[q].status = statusOf(q)

\* What is refunded of a payment never exceeds the payment (refund's message:
\* "Refund cannot exceed the original payment.").
RefundWithinPayment ==
  \A d \in Payment :
    Total([f \in {f \in Refund : refund[f].of = d} |-> refund[f].amount]) <= payment[d].amount

=============================================================================
