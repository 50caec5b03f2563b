--------------------------- MODULE InvoiceLedger ---------------------------
(***************************************************************************)
(* The invoice chaincode running on the ledger.                            *)
(*                                                                         *)
(* A transaction function does not change the ledger.  The endorsing peers *)
(* simulate it on the committed state and return what it wants to write,   *)
(* together with the versions of what it read; the client has the endorsed *)
(* transaction ordered into a block; and every peer validates the          *)
(* transactions of the block one after the other: endorsement policies     *)
(* first, then the versions read, and only a valid transaction is applied. *)
(* Between endorsement and validation any number of other transactions may *)
(* commit.  That window is what the repository's "Concurrency Correctness" *)
(* is about, and what the properties below are about.                      *)
(*                                                                         *)
(* The six handlers are the Go functions of contract.go.  The ledger       *)
(* itself (endorsement, ordering, validation) is not in the repository:    *)
(* it is modelled from how the chaincode, the collections and the          *)
(* end-to-end tests use it.                                                *)
(***************************************************************************)
EXTENDS InvoiceContract, Sequences, FiniteSets

CONSTANTS
  MaxTx,        \* transactions a behaviour may propose
  MaxBlockTxs   \* transactions the orderer puts in one block

ASSUME LedgerAssumption == MaxTx \in Nat /\ MaxBlockTxs \in Nat \ {0}

Tx == 1..MaxTx

Failures == {"MVCC_READ_CONFLICT", "ENDORSEMENT_POLICY_FAILURE"}
Phases == {"idle", "endorsed", "VALID"} \cup Failures

VARIABLES
  invoice,  \* [Ids -> record or Absent]: the world state of invoice~<id>
  private,  \* [Ids -> [PrivateKeys -> document or Absent]]: the collections
  version,  \* [Ids -> [Keys -> the transaction that last wrote the key, or 0]]
  policy,   \* [Ids -> SUBSET MSPs]: the invoice key's own policy; {} is none
  tx,       \* [Tx -> the endorsed transaction, or Absent]
  phase,    \* [Tx -> Phases]: how far it got, and its validation code
  block,    \* the transactions of the block being validated, still to go
  rotated,  \* the invoices whose policy was written in this block so far
  events    \* the chaincode events of valid transactions, in commit order

vars == <<invoice, private, version, policy, tx, phase, block, rotated, events>>

Transactions ==
  [op : Operations, id : Ids, invoice : Invoices(Tx),
   writes : [PrivateKeys -> AmountDocs \cup DetailDocs \cup {Absent}],
   seen : [Keys -> 0..MaxTx], endorsers : SUBSET MSPs]

Events == [tx : Tx, id : Ids, name : {EventName(op) : op \in Operations},
           status : Statuses]

ASSUME AbsentIsNoRecord == Absent \notin Invoices(Tx) /\ Absent \notin Transactions

TypeOK ==
  /\ invoice \in [Ids -> Invoices(Tx) \cup {Absent}]
  /\ private \in [Ids -> [PrivateKeys -> AmountDocs \cup DetailDocs \cup {Absent}]]
  /\ \A id \in Ids, k \in PrivateKeys : private[id][k] \in DocsOf(k) \cup {Absent}
  /\ version \in [Ids -> [Keys -> 0..MaxTx]]
  /\ policy \in [Ids -> SUBSET MSPs]
  /\ tx \in [Tx -> Transactions \cup {Absent}]
  /\ \A t \in Tx, k \in PrivateKeys :
        tx[t] # Absent => tx[t].writes[k] \in DocsOf(k) \cup {Absent}
  /\ phase \in [Tx -> Phases]
  /\ \A t \in Tx : phase[t] = "idle" <=> tx[t] = Absent
  /\ block \subseteq {t \in Tx : phase[t] = "endorsed"}
  /\ rotated \subseteq Ids
  /\ events \in Seq(Events)

Init ==
  /\ invoice = [id \in Ids |-> Absent]
  /\ private = [id \in Ids |-> [k \in PrivateKeys |-> Absent]]
  /\ version = [id \in Ids |-> [k \in Keys |-> 0]]
  /\ policy = [id \in Ids |-> {}]
  /\ tx = [t \in Tx |-> Absent]
  /\ phase = [t \in Tx |-> "idle"]
  /\ block = {}
  /\ rotated = {}
  /\ events = << >>

-----------------------------------------------------------------------------
(***************************************************************************)
(* Endorsement.                                                            *)
(***************************************************************************)
Written(writes) == {k \in PrivateKeys : writes[k] # Absent}

\* The peers whose endorsement the write set needs: the key's own policy, and
\* the policies of the collections written.  Where the key has no policy the
\* chaincode's applies, which any one endorsement satisfies.
RequiredEndorsers(id, writes) ==
  policy[id] \cup UNION {CollectionMembers(k) : k \in Written(writes)}

\* The peers that can simulate the function: those that hold what it reads.
Simulators(op) == {m \in MSPs : \A k \in PrivateReads(op) : m \in CollectionMembers(k)}

NoWrites == [k \in PrivateKeys |-> Absent]

\* The client collects the endorsements the write set needs.  The collections
\* are memberOnlyRead and memberOnlyWrite, so the caller must be a member too.
Endorse(t, caller, op, id, record, writes) ==
  /\ \A k \in PrivateReads(op) \cup Written(writes) : caller \in CollectionMembers(k)
  /\ RequiredEndorsers(id, writes) \subseteq Simulators(op)
  /\ tx' = [tx EXCEPT ![t] =
              [op |-> op, id |-> id, invoice |-> record, writes |-> writes,
               seen |-> version[id], endorsers |-> RequiredEndorsers(id, writes)]]
  /\ phase' = [phase EXCEPT ![t] = "endorsed"]
  /\ UNCHANGED <<invoice, private, version, policy, block, rotated, events>>

-----------------------------------------------------------------------------
(***************************************************************************)
(* The transaction functions.  Each is simulated on the committed state; a *)
(* guard that fails is an error returned to the client, and nothing is     *)
(* endorsed.                                                               *)
(***************************************************************************)
CreateInvoice(t, caller, raw, buyer, hash, ct, pd) ==
  /\ RequireMSP(caller, "SupplierMSP")
  /\ ValidInvoiceID(raw)
  /\ LET id == Canonical[raw] IN
     /\ buyer = "BuyerMSP"
     /\ hash \in WellFormed
     /\ invoice[id] = Absent
     /\ ValidCommercialTerms(ct, id)
     /\ ValidDetails(pd, id)
     /\ Endorse(t, caller, "CreateInvoice", id,
          [supplier |-> caller, buyer |-> buyer, documentHash |-> hash,
           status |-> "CREATED", financed |-> FALSE, financier |-> "none",
           lastTx |-> t],
          [NoWrites EXCEPT !["commercialTerms"] = ct, !["paymentDetails"] = pd])

ApproveInvoice(t, caller, raw) ==
  /\ RequireMSP(caller, "BuyerMSP")
  /\ ValidInvoiceID(raw)
  /\ LET id == Canonical[raw] IN
     /\ invoice[id] # Absent
     /\ RequireInvoiceBuyer(caller, invoice[id])
     /\ invoice[id].status = "CREATED"
     /\ private[id]["commercialTerms"] # Absent
     /\ Endorse(t, caller, "ApproveInvoice", id,
          [invoice[id] EXCEPT !.status = "APPROVED", !.lastTx = t], NoWrites)

\* As if RejectInvoice did not look at the status.
RejectsWhateverTheStatus(t, caller, raw) ==
  /\ RequireMSP(caller, "BuyerMSP")
  /\ ValidInvoiceID(raw)
  /\ LET id == Canonical[raw] IN
     /\ invoice[id] # Absent
     /\ RequireInvoiceBuyer(caller, invoice[id])
     /\ Endorse(t, caller, "RejectInvoice", id,
          [invoice[id] EXCEPT !.status = "REJECTED", !.lastTx = t], NoWrites)

RejectInvoice(t, caller, raw) ==
  /\ RequireMSP(caller, "BuyerMSP")
  /\ ValidInvoiceID(raw)
  /\ LET id == Canonical[raw] IN
     /\ invoice[id] # Absent
     /\ RequireInvoiceBuyer(caller, invoice[id])
     /\ invoice[id].status = "CREATED"
     /\ Endorse(t, caller, "RejectInvoice", id,
          [invoice[id] EXCEPT !.status = "REJECTED", !.lastTx = t], NoWrites)

\* As if the disclosure were stored without comparing its hash to that of the
\* approved terms.
RequestWithoutDisclosureCheck(t, caller, raw, disclosure, fr, dd) ==
  /\ RequireMSP(caller, "SupplierMSP")
  /\ ValidInvoiceID(raw)
  /\ LET id == Canonical[raw] IN
     /\ invoice[id] # Absent
     /\ invoice[id].status = "APPROVED"
     /\ ValidCommercialTerms(disclosure, id)
     /\ ValidFinancingRequest(fr, id, disclosure.amount)
     /\ ValidDetails(dd, id)
     /\ Endorse(t, caller, "RequestFinancing", id,
          [invoice[id] EXCEPT !.status = "FINANCING_REQUESTED", !.lastTx = t],
          [NoWrites EXCEPT !["disclosure"] = disclosure, !["financingRequest"] = fr,
                           !["disbursementDetails"] = dd])

RequestFinancing(t, caller, raw, disclosure, fr, dd) ==
  /\ RequireMSP(caller, "SupplierMSP")
  /\ ValidInvoiceID(raw)
  /\ LET id == Canonical[raw] IN
     /\ invoice[id] # Absent
     /\ RequireInvoiceSupplier(caller, invoice[id])
     /\ invoice[id].status = "APPROVED"
     /\ ~invoice[id].financed
     /\ private[id]["financingAgreement"] = Absent
     /\ private[id]["financingRequest"] = Absent
     /\ private[id]["commercialTerms"] # Absent
     /\ ValidCommercialTerms(disclosure, id)
     /\ disclosure = private[id]["commercialTerms"]
     /\ ValidFinancingRequest(fr, id, disclosure.amount)
     /\ ValidDetails(dd, id)
     /\ Endorse(t, caller, "RequestFinancing", id,
          [invoice[id] EXCEPT !.status = "FINANCING_REQUESTED", !.lastTx = t],
          [NoWrites EXCEPT !["disclosure"] = disclosure, !["financingRequest"] = fr,
                           !["disbursementDetails"] = dd])

FinanceInvoice(t, caller, raw, fa) ==
  /\ RequireMSP(caller, "FinanceMSP")
  /\ ValidInvoiceID(raw)
  /\ LET id == Canonical[raw] IN
     /\ invoice[id] # Absent
     /\ invoice[id].status = "FINANCING_REQUESTED"
     /\ ~invoice[id].financed
     /\ private[id]["financingAgreement"] = Absent
     /\ private[id]["disclosure"] # Absent
     /\ private[id]["financingRequest"] # Absent
     /\ ValidFinancingAgreement(fa, id, private[id]["disclosure"].amount,
                                private[id]["financingRequest"].amount)
     /\ Endorse(t, caller, "FinanceInvoice", id,
          [invoice[id] EXCEPT !.status = "FINANCED", !.financed = TRUE,
                              !.financier = caller, !.lastTx = t],
          [NoWrites EXCEPT !["financingAgreement"] = fa])

SettleInvoice(t, caller, raw) ==
  /\ RequireMSP(caller, "BuyerMSP")
  /\ ValidInvoiceID(raw)
  /\ LET id == Canonical[raw] IN
     /\ invoice[id] # Absent
     /\ RequireInvoiceBuyer(caller, invoice[id])
     /\ invoice[id].status = "FINANCED"
     /\ invoice[id].financed
     /\ Endorse(t, caller, "SettleInvoice", id,
          [invoice[id] EXCEPT !.status = "SETTLED", !.lastTx = t], NoWrites)

-----------------------------------------------------------------------------
(***************************************************************************)
(* Ordering and validation.                                                *)
(***************************************************************************)
\* As if the policies written in one block were still remembered in the next.
CutBlockKeepsRotated(b) ==
  /\ block = {}
  /\ b # {} /\ Cardinality(b) <= MaxBlockTxs
  /\ b \subseteq {t \in Tx : phase[t] = "endorsed"}
  /\ block' = b
  /\ UNCHANGED <<invoice, private, version, policy, tx, phase, rotated, events>>

\* The orderer cuts a block out of the transactions handed to it; the clients
\* of the others are late, or never come.
CutBlock(b) ==
  /\ block = {}
  /\ b # {} /\ Cardinality(b) <= MaxBlockTxs
  /\ b \subseteq {t \in Tx : phase[t] = "endorsed"}
  /\ block' = b
  /\ rotated' = {}
  /\ UNCHANGED <<invoice, private, version, policy, tx, phase, events>>

\* Enough of the right organizations endorsed, and no transaction before it in
\* the block has written the policy that says who is right.
EndorsementOK(t) ==
  /\ tx[t].id \notin rotated
  /\ RequiredEndorsers(tx[t].id, tx[t].writes) \subseteq tx[t].endorsers

\* Nothing it read has been written since.
Fresh(t) == \A k \in ReadSet(tx[t].op) : tx[t].seen[k] = version[tx[t].id][k]

RotatedBy(t) == IF RotatesTo(tx[t].op) # {} THEN {tx[t].id} ELSE {}

FailEndorsement(t) ==
  /\ t \in block
  /\ ~EndorsementOK(t)
  /\ phase' = [phase EXCEPT ![t] = "ENDORSEMENT_POLICY_FAILURE"]
  /\ block' = block \ {t}
  /\ UNCHANGED <<invoice, private, version, policy, tx, rotated, events>>

\* As if a transaction that failed this way stayed in the block.
FailedMVCCStays(t) ==
  /\ t \in block
  /\ EndorsementOK(t)
  /\ ~Fresh(t)
  /\ phase' = [phase EXCEPT ![t] = "MVCC_READ_CONFLICT"]
  /\ UNCHANGED <<invoice, private, version, policy, tx, events, block, rotated>>

\* The policies are evaluated before the versions: a stale transaction that
\* carries a new policy still voids the endorsements of those behind it.
FailMVCC(t) ==
  /\ t \in block
  /\ EndorsementOK(t)
  /\ ~Fresh(t)
  /\ phase' = [phase EXCEPT ![t] = "MVCC_READ_CONFLICT"]
  /\ block' = block \ {t}
  /\ rotated' = rotated \cup RotatedBy(t)
  /\ UNCHANGED <<invoice, private, version, policy, tx, events>>

Apply(t) ==
  LET id == tx[t].id
      W  == Written(tx[t].writes) IN
  /\ invoice' = [invoice EXCEPT ![id] = tx[t].invoice]
  /\ private' = [private EXCEPT ![id] =
                   [k \in PrivateKeys |-> IF k \in W THEN tx[t].writes[k]
                                                     ELSE private[id][k]]]
  /\ version' = [version EXCEPT ![id] =
                   [k \in Keys |-> IF k \in W \cup {"invoice"} THEN t
                                                               ELSE version[id][k]]]
  /\ policy' = [policy EXCEPT ![id] = IF RotatesTo(tx[t].op) # {}
                                      THEN RotatesTo(tx[t].op) ELSE policy[id]]
  /\ events' = Append(events, [tx |-> t, id |-> id, name |-> EventName(tx[t].op),
                               status |-> tx[t].invoice.status])

Commit(t) ==
  /\ t \in block
  /\ EndorsementOK(t)
  /\ Fresh(t)
  /\ Apply(t)
  /\ phase' = [phase EXCEPT ![t] = "VALID"]
  /\ block' = block \ {t}
  /\ rotated' = rotated \cup RotatedBy(t)
  /\ UNCHANGED tx

-----------------------------------------------------------------------------
\* Transactions are numbered in the order of their endorsement, and a peer does
\* not simulate while it commits a block.
CanEndorse(t) ==
  /\ block = {}
  /\ phase[t] = "idle"
  /\ \A u \in 1..(t - 1) : phase[u] # "idle"

\* Any organization may call any function with any document.
Propose(t) ==
  /\ CanEndorse(t)
  /\ \E caller \in MSPs, raw \in RawIds :
       \/ \E buyer \in MSPs, hash \in Texts, ct \in AmountDocs, pd \in DetailDocs :
             CreateInvoice(t, caller, raw, buyer, hash, ct, pd)
       \/ ApproveInvoice(t, caller, raw)
       \/ RejectInvoice(t, caller, raw)
       \/ \E disclosure, fr \in AmountDocs, dd \in DetailDocs :
             RequestFinancing(t, caller, raw, disclosure, fr, dd)
       \/ \E fa \in AmountDocs : FinanceInvoice(t, caller, raw, fa)
       \/ SettleInvoice(t, caller, raw)

Validate(t) == FailEndorsement(t) \/ FailMVCC(t) \/ Commit(t)

Next ==
  \/ \E t \in Tx : Propose(t)
  \/ \E b \in SUBSET Tx : CutBlock(b)
  \/ \E t \in Tx : Validate(t)

Spec == Init /\ [][Next]_vars

-----------------------------------------------------------------------------
(***************************************************************************)
(* Properties.                                                             *)
(***************************************************************************)
StatusOf(id) == IF invoice[id] = Absent THEN "NONE" ELSE invoice[id].status

\* The organizations the repository's endorsement table gives for a status.
PolicyFor(status) ==
  CASE status \in {"CREATED", "REJECTED"}             -> {"SupplierMSP", "BuyerMSP"}
    [] status \in {"APPROVED", "FINANCING_REQUESTED"} -> {"SupplierMSP", "FinanceMSP"}
    [] status \in {"FINANCED", "SETTLED"}             -> {"BuyerMSP", "FinanceMSP"}
    [] OTHER                                          -> {}

(***************************************************************************)
(* README.md, "Endorsement Model": whatever commits, fails or goes stale,  *)
(* the committed policy of an invoice is the one of its lifecycle phase.   *)
(***************************************************************************)
PolicyFollowsLifecycle == \A id \in Ids : policy[id] = PolicyFor(StatusOf(id))

(***************************************************************************)
(* The documents of the collections and the flags of the public record     *)
(* keep step with the status: the documents present are exactly those the  *)
(* lifecycle has produced, and the invoice is marked financed, by the      *)
(* financing organization, exactly when an agreement exists.               *)
(***************************************************************************)
DocumentsFor(status) ==
  CASE status = "NONE" -> {}
    [] status \in {"CREATED", "APPROVED", "REJECTED"} -> InvoicePartiesKeys
    [] status = "FINANCING_REQUESTED" -> PrivateKeys \ {"financingAgreement"}
    [] status \in {"FINANCED", "SETTLED"} -> PrivateKeys

DocumentsFollowLifecycle ==
  \A id \in Ids :
    /\ Written(private[id]) = DocumentsFor(StatusOf(id))
    /\ invoice[id] # Absent =>
         /\ invoice[id].financed <=> private[id]["financingAgreement"] # Absent
         /\ invoice[id].financier = IF invoice[id].financed THEN "FinanceMSP" ELSE "none"

(***************************************************************************)
(* The financier never agrees to more than the supplier asked for, nor the *)
(* supplier asks for more than the buyer approved, although the three      *)
(* amounts are written by different transactions and the financier cannot  *)
(* see the approved terms: the disclosure is the approved document.        *)
(***************************************************************************)
AmountsAreChained ==
  \A id \in Ids :
    LET doc == private[id] IN
    /\ doc["disclosure"] # Absent => doc["disclosure"] = doc["commercialTerms"]
    /\ doc["financingRequest"] # Absent =>
         /\ 0 < doc["financingRequest"].amount
         /\ doc["financingRequest"].amount <= doc["commercialTerms"].amount
    /\ doc["financingAgreement"] # Absent =>
         /\ 0 < doc["financingAgreement"].amount
         /\ doc["financingAgreement"].amount <= doc["financingRequest"].amount

(***************************************************************************)
(* Of all the transactions that want to take an invoice out of the same    *)
(* status, at most one becomes valid: no double financing, no invoice both *)
(* approved and rejected, no second creation, request or settlement.       *)
(***************************************************************************)
Rivals(t, u) ==
  /\ tx[t].id = tx[u].id
  /\ \/ tx[t].op = tx[u].op
     \/ {tx[t].op, tx[u].op} = {"ApproveInvoice", "RejectInvoice"}

SingleWinner ==
  \A t, u \in Tx :
    phase[t] = "VALID" /\ phase[u] = "VALID" /\ t # u => ~Rivals(t, u)

(***************************************************************************)
(* README.md, "Concurrency Correctness", and the end-to-end tests: how the *)
(* loser of a race is told.  A financing loses to the rotated policy; a    *)
(* request loses to the version it read, until the financing has rotated   *)
(* the policy under it; a settlement, which no rotation follows, always    *)
(* loses to the version.                                                   *)
(***************************************************************************)
LosersAreToldWhy ==
  [][\A t \in Tx :
       phase[t] = "endorsed" /\ phase'[t] \in Failures =>
         CASE tx[t].op = "FinanceInvoice" ->
                phase'[t] = "ENDORSEMENT_POLICY_FAILURE"
           [] tx[t].op = "RequestFinancing" ->
                phase'[t] = "MVCC_READ_CONFLICT"
                  <=> StatusOf(tx[t].id) = "FINANCING_REQUESTED"
           [] tx[t].op = "SettleInvoice" ->
                phase'[t] = "MVCC_READ_CONFLICT"
           [] OTHER -> TRUE]_vars

(***************************************************************************)
(* Nobody loses without a winner: a transaction that fails validation had  *)
(* been overtaken by another one that changed the invoice.  The exception  *)
(* is an approval or rejection that shares its block with a late duplicate *)
(* of CreateInvoice, which is itself invalid but carries a policy.         *)
(***************************************************************************)
OnlyTheStaleLose ==
  [][\A t \in Tx :
       LET id == tx[t].id IN
       phase[t] = "endorsed" /\ phase'[t] \in Failures =>
         \/ tx[t].seen["invoice"] # version[id]["invoice"]
         \/ /\ tx[t].op \in {"ApproveInvoice", "RejectInvoice"}
            /\ id \in rotated
            /\ \E u \in Tx : /\ phase[u] = "MVCC_READ_CONFLICT"
                             /\ tx[u].op = "CreateInvoice" /\ tx[u].id = id]_vars

(***************************************************************************)
(* What an invoice says of itself is said once.  No transaction, however   *)
(* late, changes the parties or the document hash of an invoice, or a      *)
(* private document that was stored; and, as README.md puts it, terminal   *)
(* states cannot be modified at all.                                       *)
(***************************************************************************)
Terminal == {"REJECTED", "SETTLED"}

WrittenOnce ==
  [][\A id \in Ids :
       /\ invoice[id] # Absent =>
            /\ invoice'[id].supplier = invoice[id].supplier
            /\ invoice'[id].buyer = invoice[id].buyer
            /\ invoice'[id].documentHash = invoice[id].documentHash
       /\ \A k \in Written(private[id]) : private'[id][k] = private[id][k]
       /\ StatusOf(id) \in Terminal =>
            UNCHANGED <<invoice[id], private[id], policy[id], version[id]>>]_vars

(***************************************************************************)
(* The chaincode events are enough to rebuild the public state: those of   *)
(* one invoice follow its lifecycle from creation, and the last one names  *)
(* the status and the transaction that the record holds.                   *)
(***************************************************************************)
Edges == {<<"CREATED", "APPROVED">>, <<"CREATED", "REJECTED">>,
          <<"APPROVED", "FINANCING_REQUESTED">>,
          <<"FINANCING_REQUESTED", "FINANCED">>, <<"FINANCED", "SETTLED">>}

\* The places of the log where an invoice has its events.
History(id) == {i \in 1..Len(events) : events[i].id = id}

EventsTellTheState ==
  \A id \in Ids :
    LET own == History(id) IN
    /\ invoice[id] = Absent => own = {}
    /\ invoice[id] # Absent =>
         \E i \in own : /\ \A j \in own : j <= i
                       /\ events[i].status = invoice[id].status
                       /\ events[i].tx = invoice[id].lastTx
    /\ \A i \in own :
         \/ /\ \A j \in own : i <= j
            /\ events[i].name = "InvoiceCreated" /\ events[i].status = "CREATED"
         \/ \E j \in own :
              /\ j < i /\ \A k \in own : k <= j \/ i <= k
              /\ <<events[j].status, events[i].status>> \in Edges

(***************************************************************************)
(* An invoice that is not at its end can always be taken further: the      *)
(* organizations whose endorsement its policy demands are ones that can    *)
(* simulate the next function, i.e. they hold the private data it reads.   *)
(***************************************************************************)
NeverStuck ==
  \A t \in Tx, id \in Ids :
    CanEndorse(t) /\ StatusOf(id) \notin Terminal =>
      ENABLED (Propose(t) /\ tx'[t].id = id)

(***************************************************************************)
(* Seen from outside, proposals, blocks and validation amount to atomic    *)
(* steps of the lifecycle.                                                 *)
(***************************************************************************)
AmountIn(id, k) == IF private[id][k] = Absent THEN 0 ELSE private[id][k].amount

Book == [id \in Ids |-> [status    |-> StatusOf(id),
                         invoiced  |-> AmountIn(id, "commercialTerms"),
                         requested |-> AmountIn(id, "financingRequest"),
                         financed  |-> AmountIn(id, "financingAgreement")]]

Lifecycle == INSTANCE InvoiceLifecycle WITH book <- Book

ImplementsLifecycle == Lifecycle!Spec
=============================================================================
