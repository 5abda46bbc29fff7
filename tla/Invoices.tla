------------------------------ MODULE Invoices ------------------------------
(***************************************************************************)
(* Invoices of the cases, the payments recorded against them and how they  *)
(* are allocated to the parties.  Amounts are small integers; an invoice   *)
(* is numbered by how many its own case has, while the number is unique    *)
(* over all cases, and a create that repeats one fails.                    *)
(***************************************************************************)
EXTENDS Handlers

CONSTANTS
  Cases,
  Totals,       \* the totals invoices are made out for
  MaxInvoices,  \* bound
  MaxPayments   \* bound, per invoice

\* The subtotal and the tax of an invoice are not negative (dto.ts).
ASSUME TotalsAssumption == Totals \subseteq Nat

VARIABLE invoices   \* Invoice rows, with the number and the sum of the payments recorded

Numbers == {invoices[i].number : i \in DOMAIN invoices}
OfCase(c) == Cardinality({i \in DOMAIN invoices : invoices[i].case = c})

InvoicesInit == invoices = <<>>

createInvoice(r) ==
  /\ \E c \in Cases, total \in Totals :
       Begin(r, [step |-> "invoice", case |-> c, total |-> total, number |-> OfCase(c) + 1])
  /\ UNCHANGED invoices
insertInvoice(r) ==
  /\ At(r, "invoice") /\ Len(invoices) < MaxInvoices
  /\ invoices' = IF task[r].number \in Numbers THEN invoices
                 ELSE Append(invoices, [case |-> task[r].case, number |-> task[r].number, status |-> "ISSUED",
                                        total |-> task[r].total, payments |-> 0, paid |-> 0, allocated |-> 0])
  /\ Finish(r)

\* The old allocations go in one call, the new ones come in another.
allocate(r) ==
  /\ \E i \in DOMAIN invoices :
       invoices' = [invoices EXCEPT ![i].allocated = 0] /\ Begin(r, [step |-> "allocate", invoice |-> i])
createAllocations(r) ==
  /\ At(r, "allocate")
  /\ invoices' = [invoices EXCEPT ![task[r].invoice].allocated = @ + 1]
  /\ Finish(r)

\* The payment is written, then the invoice and the sum of its payments are
\* read, then the status that follows from them is written.
recordPayment(r) ==
  \E i \in DOMAIN invoices, amount \in 0..2 :
    /\ invoices[i].payments < MaxPayments
    /\ invoices' = [invoices EXCEPT ![i].payments = invoices[i].payments + 1,
                                   ![i].paid = invoices[i].paid + amount]
    /\ Begin(r, [step |-> "sum", invoice |-> i])
readPaid(r) ==
  /\ At(r, "sum")
  /\ Continue(r, [step |-> "status", invoice |-> task[r].invoice, paid |-> invoices[task[r].invoice].paid,
                  was |-> invoices[task[r].invoice].status])
  /\ UNCHANGED invoices

\* Mutant: paid up only when paid more than asked.
statusOfPaidMore(total, paid, was) ==
  IF paid > total THEN "PAID" ELSE IF paid > 0 THEN "PARTIALLY_PAID" ELSE was

statusOfPaid(total, paid, was) ==
  IF paid >= total THEN "PAID" ELSE IF paid > 0 THEN "PARTIALLY_PAID" ELSE was

setStatus(r) ==
  /\ At(r, "status")
  /\ LET i == task[r].invoice IN
     invoices' = [invoices EXCEPT ![i].status = statusOfPaid(invoices[i].total, task[r].paid, task[r].was)]
  /\ Finish(r)

InvoicesNext ==
  \E r \in Requests :
    \/ createInvoice(r) \/ insertInvoice(r) \/ allocate(r) \/ createAllocations(r)
    \/ recordPayment(r) \/ readPaid(r) \/ setStatus(r)
-----------------------------------------------------------------------------
(* With nothing in progress, an invoice that was paid on says how far: paid *)
(* exactly when the payments reach the total, in part when there are some;  *)
(* and it is allocated by one allocation only.  Kept as long as requests    *)
(* run one at a time: the sum is read, and the old shares deleted, in calls *)
(* of their own.                                                            *)
InvoiceCurrent ==
  (Serial /\ Quiet) => \A i \in DOMAIN invoices :
    /\ invoices[i].allocated <= 1
    /\ (invoices[i].status = "PAID") <=> (invoices[i].payments > 0 /\ invoices[i].paid >= invoices[i].total)
    /\ (invoices[i].status = "PARTIALLY_PAID") <=> (invoices[i].paid > 0 /\ invoices[i].paid < invoices[i].total)
=============================================================================
