-------------------------- MODULE InvoiceLifecycle --------------------------
(***************************************************************************)
(* What the ledger promises about invoices, with no transactions, blocks   *)
(* or organizations in sight: a book with one entry per invoice, changed   *)
(* by one atomic step at a time, each along an edge of the lifecycle and   *)
(* each within the amount that the step before it fixed.  InvoiceLedger    *)
(* implements this specification.                                          *)
(***************************************************************************)
EXTENDS Integers

CONSTANTS Ids, Amounts

VARIABLE book   \* [Ids -> status, and the amounts invoiced, requested, financed]

\* An entry of which the amounts that are not fixed yet are 0.
Blank == [status |-> "NONE", invoiced |-> 0, requested |-> 0, financed |-> 0]

Init == book = [id \in Ids |-> Blank]

Create(id, a) ==
  /\ book[id] = Blank
  /\ a > 0
  /\ book' = [book EXCEPT ![id].status = "CREATED", ![id].invoiced = a]

Approve(id) ==
  /\ book[id].status = "CREATED"
  /\ book' = [book EXCEPT ![id].status = "APPROVED"]

Reject(id) ==
  /\ book[id].status = "CREATED"
  /\ book' = [book EXCEPT ![id].status = "REJECTED"]

Request(id, a) ==
  /\ book[id].status = "APPROVED"
  /\ 0 < a /\ a <= book[id].invoiced
  /\ book' = [book EXCEPT ![id].status = "FINANCING_REQUESTED", ![id].requested = a]

Finance(id, a) ==
  /\ book[id].status = "FINANCING_REQUESTED"
  /\ 0 < a /\ a <= book[id].requested
  /\ book' = [book EXCEPT ![id].status = "FINANCED", ![id].financed = a]

Settle(id) ==
  /\ book[id].status = "FINANCED"
  /\ book' = [book EXCEPT ![id].status = "SETTLED"]

Next == \E id \in Ids :
  \/ Approve(id) \/ Reject(id) \/ Settle(id)
  \/ \E a \in Amounts : Create(id, a) \/ Request(id, a) \/ Finance(id, a)

Spec == Init /\ [][Next]_book
=============================================================================
