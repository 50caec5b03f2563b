-------------------------- MODULE InvoiceContract --------------------------
(***************************************************************************)
(* The vocabulary of the invoice chaincode (chaincode/invoice): the public *)
(* record, the private documents and the collections that hold them, the   *)
(* validation of what a client submits, and, for each transaction          *)
(* function, what it reads from the ledger and which key-level policy it   *)
(* leaves behind.  Nothing here has state; InvoiceLedger runs the          *)
(* transaction functions against a ledger.                                 *)
(*                                                                         *)
(* What is abstracted: a document is its invoice id, its amount where it   *)
(* has one, and a Text that stands for every other field together with     *)
(* the salt; two documents have the same hash exactly when they are equal. *)
(* Timestamps are left out: the chaincode copies the client's and never    *)
(* reads them.                                                             *)
(***************************************************************************)
EXTENDS Integers

CONSTANTS
  Ids,          \* canonical invoice ids, the strings that match invoiceIDPattern
  RawIds,       \* the id strings a client may send, and what becomes of them
  TrimSpace,    \* [RawIds -> RawIds], strings.TrimSpace
  ToUpper,      \* [RawIds -> RawIds], strings.ToUpper
  Amounts,      \* amounts in minor units, zero and negative ones included
  Texts,        \* the rest of a document, its salt included; also document hashes
  WellFormed,   \* the Texts whose format, lengths and ranges the validators accept
  Absent        \* what a read of a missing key returns

ASSUME ContractAssumption ==
  /\ Ids \subseteq RawIds
  /\ TrimSpace \in [RawIds -> RawIds] /\ ToUpper \in [RawIds -> RawIds]
  /\ \A id \in Ids : ToUpper[TrimSpace[id]] = id
  /\ Absent \notin Ids
  /\ Amounts \subseteq Int
  /\ WellFormed \subseteq Texts

MSPs == {"SupplierMSP", "BuyerMSP", "FinanceMSP"}

Statuses == {"CREATED", "APPROVED", "REJECTED",
             "FINANCING_REQUESTED", "FINANCED", "SETTLED"}

(***************************************************************************)
(* The public record stored under invoice~<id>; lastTx ranges over the     *)
(* transactions of the ledger and is typed there.                          *)
(***************************************************************************)
Invoices(Tx) ==
  [supplier : MSPs, buyer : MSPs, documentHash : Texts, status : Statuses,
   financed : BOOLEAN, financier : MSPs \cup {"none"}, lastTx : Tx]

(***************************************************************************)
(* Private documents: three carry an amount, two do not.                   *)
(***************************************************************************)
AmountKeys == {"commercialTerms", "disclosure", "financingRequest", "financingAgreement"}
DetailKeys == {"paymentDetails", "disbursementDetails"}
PrivateKeys == AmountKeys \cup DetailKeys

AmountDocs == [id : RawIds, amount : Amounts, text : Texts]
DetailDocs == [id : RawIds, text : Texts]
DocsOf(k) == IF k \in AmountKeys THEN AmountDocs ELSE DetailDocs

ASSUME AbsentIsNoDocument == Absent \notin AmountDocs \cup DetailDocs

\* All the keys of one invoice.
Keys == PrivateKeys \cup {"invoice"}

(***************************************************************************)
(* The two collections.  Their members may read and write them, and only   *)
(* their peers hold the data; a write needs a peer of each of the orgs of  *)
(* the collection's endorsement policy, which here are its members.        *)
(***************************************************************************)
InvoicePartiesKeys == {"commercialTerms", "paymentDetails"}

CollectionMembers(k) ==
  IF k \in InvoicePartiesKeys THEN {"SupplierMSP", "BuyerMSP"}
                              ELSE {"SupplierMSP", "FinanceMSP"}

-----------------------------------------------------------------------------
(***************************************************************************)
(* Who calls.                                                              *)
(***************************************************************************)
RequireMSP(caller, msp) == caller = msp

RequireInvoiceSupplier(caller, record) == caller = record.supplier

RequireInvoiceBuyer(caller, record) == caller = record.buyer

-----------------------------------------------------------------------------
(***************************************************************************)
(* Validation of the submitted documents.                                  *)
(***************************************************************************)
\* The id a client's string stands for, or Absent if it is refused.
Canonical ==
  [raw \in RawIds |-> LET upper == ToUpper[TrimSpace[raw]] IN
                      IF upper \in Ids THEN upper ELSE Absent]

ValidInvoiceID(raw) == Canonical[raw] # Absent

ValidCommercialTerms(ct, id) ==
  /\ ct.id = id
  /\ ct.amount > 0
  /\ ct.text \in WellFormed

ValidDetails(d, id) == d.id = id /\ d.text \in WellFormed

ValidFinancingRequest(fr, id, maxAmount) ==
  /\ fr.id = id
  /\ fr.amount > 0
  /\ fr.amount <= maxAmount
  /\ fr.text \in WellFormed

\* As if the agreement were only held against the invoice amount.
AgreementWithoutRequestedCap(fa, id, maxAmount, requested) ==
  /\ fa.id = id /\ fa.amount > 0 /\ fa.amount <= maxAmount
  /\ fa.text \in WellFormed

ValidFinancingAgreement(fa, id, maxAmount, requested) ==
  /\ fa.id = id
  /\ fa.amount > 0
  /\ fa.amount <= maxAmount
  /\ fa.amount <= requested
  /\ fa.text \in WellFormed

-----------------------------------------------------------------------------
(***************************************************************************)
(* The six transaction functions.                                          *)
(***************************************************************************)
Operations == {"CreateInvoice", "ApproveInvoice", "RejectInvoice",
               "RequestFinancing", "FinanceInvoice", "SettleInvoice"}

\* The private documents whose content the function reads (GetPrivateData).
PrivateReads(op) ==
  CASE op = "ApproveInvoice"   -> {"commercialTerms"}
    [] op = "RequestFinancing" -> {"financingAgreement", "financingRequest"}
    [] op = "FinanceInvoice"   -> {"financingAgreement", "disclosure", "financingRequest"}
    [] OTHER                   -> {}

\* The private documents of which it reads the hash only (GetPrivateDataHash).
HashReads(op) == IF op = "RequestFinancing" THEN {"commercialTerms"} ELSE {}

\* As if the public record were read without being put into the read set.
ReadSetWithoutInvoice(op) == PrivateReads(op) \cup HashReads(op)

\* Every key whose version the transaction carries; all six read the record.
ReadSet(op) == {"invoice"} \cup PrivateReads(op) \cup HashReads(op)

\* As if ApproveInvoice named the buyer instead of the supplier.
ApprovalRotatesToBuyer(op) ==
  CASE op = "CreateInvoice"  -> {"SupplierMSP", "BuyerMSP"}
    [] op = "ApproveInvoice" -> {"BuyerMSP", "FinanceMSP"}
    [] op = "FinanceInvoice" -> {"BuyerMSP", "FinanceMSP"}
    [] OTHER                 -> {}

\* As if FinanceInvoice left the policy of the approved phase in place.
FinanceDoesNotRotate(op) ==
  CASE op = "CreateInvoice"  -> {"SupplierMSP", "BuyerMSP"}
    [] op = "ApproveInvoice" -> {"SupplierMSP", "FinanceMSP"}
    [] OTHER                 -> {}

\* The organizations the function writes into the invoice key's validation
\* parameter (setSBE), or {} when it leaves the parameter alone.
RotatesTo(op) ==
  CASE op = "CreateInvoice"  -> {"SupplierMSP", "BuyerMSP"}
    [] op = "ApproveInvoice" -> {"SupplierMSP", "FinanceMSP"}
    [] op = "FinanceInvoice" -> {"BuyerMSP", "FinanceMSP"}
    [] OTHER                 -> {}

EventName(op) ==
  CASE op = "CreateInvoice"    -> "InvoiceCreated"
    [] op = "ApproveInvoice"   -> "InvoiceApproved"
    [] op = "RejectInvoice"    -> "InvoiceRejected"
    [] op = "RequestFinancing" -> "FinancingRequested"
    [] op = "FinanceInvoice"   -> "InvoiceFinanced"
    [] op = "SettleInvoice"    -> "InvoiceSettled"
=============================================================================
