------------------------ MODULE InvoiceLedgerProofs ------------------------
(***************************************************************************)
(* Proofs about InvoiceLedger, for any set of invoices, any documents, any *)
(* number of transactions and any size of block.                           *)
(*                                                                         *)
(* The argument.  What an endorsed transaction wants to write was computed *)
(* from a state that may be long gone.  The invariant says only what is    *)
(* left of it: IF the public record is still the version that the          *)
(* transaction read, THEN applying its writes to the present state gives a *)
(* sound invoice, one step further on its lifecycle (Sound).  Any commit   *)
(* on the same invoice makes the condition false for all others, because   *)
(* a version is the transaction that wrote it and that was not valid when  *)
(* they read (ReadsAreCommitted); a commit on another invoice changes      *)
(* nothing of it.  The transaction that does commit turns what the         *)
(* invariant says of it into what it says of the invoice (InvoiceOK).      *)
(***************************************************************************)
EXTENDS InvoiceLedger, TLAPS

\* The status an operation leaves, and the one it leads to.
From(op) ==
  CASE op = "CreateInvoice"    -> "NONE"
    [] op = "ApproveInvoice"   -> "CREATED"
    [] op = "RejectInvoice"    -> "CREATED"
    [] op = "RequestFinancing" -> "APPROVED"
    [] op = "FinanceInvoice"   -> "FINANCING_REQUESTED"
    [] op = "SettleInvoice"    -> "FINANCED"

To(op) ==
  CASE op = "CreateInvoice"    -> "CREATED"
    [] op = "ApproveInvoice"   -> "APPROVED"
    [] op = "RejectInvoice"    -> "REJECTED"
    [] op = "RequestFinancing" -> "FINANCING_REQUESTED"
    [] op = "FinanceInvoice"   -> "FINANCED"
    [] op = "SettleInvoice"    -> "SETTLED"

\* The statuses an invoice can have once the operation has committed.
After(op) ==
  CASE op = "CreateInvoice"    -> Statuses
    [] op = "ApproveInvoice"   -> {"APPROVED", "FINANCING_REQUESTED", "FINANCED", "SETTLED"}
    [] op = "RejectInvoice"    -> {"REJECTED"}
    [] op = "RequestFinancing" -> {"FINANCING_REQUESTED", "FINANCED", "SETTLED"}
    [] op = "FinanceInvoice"   -> {"FINANCED", "SETTLED"}
    [] op = "SettleInvoice"    -> {"SETTLED"}

\* What is true of a record, its documents and its policy, taken together.
Chained(doc) ==
  /\ doc["commercialTerms"] # Absent => 0 < doc["commercialTerms"].amount
  /\ doc["disclosure"] # Absent => doc["disclosure"] = doc["commercialTerms"]
  /\ doc["financingRequest"] # Absent =>
       /\ 0 < doc["financingRequest"].amount
       /\ doc["financingRequest"].amount <= doc["commercialTerms"].amount
  /\ doc["financingAgreement"] # Absent =>
       /\ 0 < doc["financingAgreement"].amount
       /\ doc["financingAgreement"].amount <= doc["financingRequest"].amount

StatusIn(record) == IF record = Absent THEN "NONE" ELSE record.status

InvoiceOK(record, doc, orgs) ==
  /\ orgs = PolicyFor(StatusIn(record))
  /\ \A k \in PrivateKeys : doc[k] # Absent <=> k \in DocumentsFor(StatusIn(record))
  /\ record # Absent =>
       /\ record.financed <=> record.status \in {"FINANCED", "SETTLED"}
       /\ record.financier = IF record.financed THEN "FinanceMSP" ELSE "none"
  /\ Chained(doc)

\* The documents and the policy after a write set is applied.
Merged(doc, writes) == [k \in PrivateKeys |-> IF writes[k] # Absent THEN writes[k] ELSE doc[k]]
PolicyAfter(orgs, op) == IF RotatesTo(op) # {} THEN RotatesTo(op) ELSE orgs

SameIdentity(old, new) ==
  /\ new.supplier = old.supplier
  /\ new.buyer = old.buyer
  /\ new.documentHash = old.documentHash

SoundFor(op, id, record, writes) ==
  /\ StatusOf(id) = From(op)
  /\ record.status = To(op)
  /\ \A k \in PrivateKeys : writes[k] # Absent => private[id][k] = Absent
  /\ invoice[id] # Absent => SameIdentity(invoice[id], record)
  /\ InvoiceOK(record, Merged(private[id], writes), PolicyAfter(policy[id], op))

Sound(t) == SoundFor(tx[t].op, tx[t].id, tx[t].invoice, tx[t].writes)

Unstale(t) == tx[t].seen["invoice"] = version[tx[t].id]["invoice"]

Committed == {0} \cup {t \in Tx : phase[t] = "VALID"}

ReadsAreCommitted ==
  /\ \A id \in Ids : version[id]["invoice"] \in Committed
  /\ \A t \in Tx : phase[t] # "idle" => tx[t].seen["invoice"] \in Committed

InvoicesOK == \A id \in Ids : InvoiceOK(invoice[id], private[id], policy[id])

EndorsedAreSound == \A t \in Tx : phase[t] = "endorsed" /\ Unstale(t) => Sound(t)

CommittedAreBehind ==
  \A t \in Tx : phase[t] = "VALID" => StatusOf(tx[t].id) \in After(tx[t].op)

IInv ==
  /\ TypeOK
  /\ ReadsAreCommitted
  /\ InvoicesOK
  /\ EndorsedAreSound
  /\ CommittedAreBehind
  /\ SingleWinner

-----------------------------------------------------------------------------
(***************************************************************************)
(* Every transaction function, simulated on a state that satisfies IInv,   *)
(* proposes typed writes that are sound there.                             *)
(***************************************************************************)
TypedWrites(writes) ==
  /\ writes \in [PrivateKeys -> AmountDocs \cup DetailDocs \cup {Absent}]
  /\ \A k \in PrivateKeys : writes[k] \in DocsOf(k) \cup {Absent}

Proposed(t, op, id, record, writes) ==
  /\ TypedWrites(writes)
  /\ SoundFor(op, id, record, writes)
  /\ record.lastTx = t
  /\ \E caller \in MSPs : Endorse(t, caller, op, id, record, writes)

SoundProposal(t) ==
  \E op \in Operations, id \in Ids, record \in Invoices(Tx) :
    \E writes : Proposed(t, op, id, record, writes)

\* A function that writes no documents is sound if its record is.
LEMMA NoWritesChangesNothing ==
  ASSUME NEW id \in Ids, TypeOK
  PROVE  TypedWrites(NoWrites) /\ Merged(private[id], NoWrites) = private[id]
BY DEF TypedWrites, NoWrites, Merged, TypeOK

\* An id that passes validation is canonical afterwards, and is what trimming and
\* upper-casing alone would have made of it.
LEMMA CanonicalIsId ==
  ASSUME NEW raw \in RawIds, ValidInvoiceID(raw)
  PROVE  Canonical[raw] \in Ids /\ Canonical[raw] = ToUpper[TrimSpace[raw]]
BY DEF Canonical, ValidInvoiceID

\* Validation leaves a canonical id as it is.
LEMMA IdsAreCanonical ==
  ASSUME NEW id \in Ids
  PROVE  id \in RawIds /\ Canonical[id] = id /\ ValidInvoiceID(id)
BY ContractAssumption DEF ContractAssumption, Canonical, ValidInvoiceID

\* The approval writes no document: it needs the record and the terms.
LEMMA ApproveIsSound ==
  ASSUME IInv, NEW t \in Tx, NEW caller \in MSPs, NEW raw \in RawIds,
         ApproveInvoice(t, caller, raw)
  PROVE  SoundProposal(t)
<1> DEFINE id == Canonical[raw]
           record == [invoice[id] EXCEPT !.status = "APPROVED", !.lastTx = t]
<1>1. id \in Ids /\ invoice[id] \in Invoices(Tx) /\ invoice[id].status = "CREATED"
  BY CanonicalIsId DEF ApproveInvoice, IInv, TypeOK
<1>2. record \in Invoices(Tx) /\ record # Absent /\ record.lastTx = t
  BY <1>1, AbsentIsNoRecord DEF Invoices, Statuses
<1>3. InvoiceOK(record, private[id], PolicyAfter(policy[id], "ApproveInvoice"))
  BY <1>1, <1>2, AbsentIsNoRecord
     DEF IInv, InvoicesOK, InvoiceOK, StatusIn, PolicyAfter, RotatesTo, PolicyFor,
         DocumentsFor, Invoices
<1>4. SoundFor("ApproveInvoice", id, record, NoWrites)
  BY <1>1, <1>3, NoWritesChangesNothing, AbsentIsNoRecord
     DEF SoundFor, StatusOf, From, To, IInv, Invoices, NoWrites, SameIdentity
<1>5. Endorse(t, caller, "ApproveInvoice", id, record, NoWrites)
  BY DEF ApproveInvoice
<1> QED
  BY <1>1, <1>2, <1>4, <1>5, NoWritesChangesNothing
     DEF SoundProposal, Proposed, Operations, IInv

\* The rejection writes the record only.
LEMMA RejectIsSound ==
  ASSUME IInv, NEW t \in Tx, NEW caller \in MSPs, NEW raw \in RawIds,
         RejectInvoice(t, caller, raw)
  PROVE  SoundProposal(t)
<1> DEFINE id == Canonical[raw]
           record == [invoice[id] EXCEPT !.status = "REJECTED", !.lastTx = t]
<1>1. id \in Ids /\ invoice[id] \in Invoices(Tx) /\ invoice[id].status = "CREATED"
  BY CanonicalIsId DEF RejectInvoice, IInv, TypeOK
<1>2. record \in Invoices(Tx) /\ record # Absent /\ record.lastTx = t
  BY <1>1, AbsentIsNoRecord DEF Invoices, Statuses
<1>3. InvoiceOK(record, private[id], PolicyAfter(policy[id], "RejectInvoice"))
  BY <1>1, <1>2, AbsentIsNoRecord
     DEF IInv, InvoicesOK, InvoiceOK, StatusIn, PolicyAfter, RotatesTo, PolicyFor,
         DocumentsFor, Invoices
<1>4. SoundFor("RejectInvoice", id, record, NoWrites)
  BY <1>1, <1>3, NoWritesChangesNothing, AbsentIsNoRecord
     DEF SoundFor, StatusOf, From, To, IInv, Invoices, NoWrites, SameIdentity
<1>5. Endorse(t, caller, "RejectInvoice", id, record, NoWrites)
  BY DEF RejectInvoice
<1> QED
  BY <1>1, <1>2, <1>4, <1>5, NoWritesChangesNothing
     DEF SoundProposal, Proposed, Operations, IInv

\* The settlement writes the record only.
LEMMA SettleIsSound ==
  ASSUME IInv, NEW t \in Tx, NEW caller \in MSPs, NEW raw \in RawIds,
         SettleInvoice(t, caller, raw)
  PROVE  SoundProposal(t)
<1> DEFINE id == Canonical[raw]
           record == [invoice[id] EXCEPT !.status = "SETTLED", !.lastTx = t]
<1>1. id \in Ids /\ invoice[id] \in Invoices(Tx) /\ invoice[id].status = "FINANCED"
  BY CanonicalIsId DEF SettleInvoice, IInv, TypeOK
<1>2. record \in Invoices(Tx) /\ record # Absent /\ record.lastTx = t
  BY <1>1, AbsentIsNoRecord DEF Invoices, Statuses
<1>3. InvoiceOK(record, private[id], PolicyAfter(policy[id], "SettleInvoice"))
  BY <1>1, <1>2, AbsentIsNoRecord
     DEF IInv, InvoicesOK, InvoiceOK, StatusIn, PolicyAfter, RotatesTo, PolicyFor,
         DocumentsFor, Invoices
<1>4. SoundFor("SettleInvoice", id, record, NoWrites)
  BY <1>1, <1>3, NoWritesChangesNothing, AbsentIsNoRecord
     DEF SoundFor, StatusOf, From, To, IInv, Invoices, NoWrites, SameIdentity
<1>5. Endorse(t, caller, "SettleInvoice", id, record, NoWrites)
  BY DEF SettleInvoice
<1> QED
  BY <1>1, <1>2, <1>4, <1>5, NoWritesChangesNothing
     DEF SoundProposal, Proposed, Operations, IInv

\* The creation writes the record and the two documents of the parties.
LEMMA CreateIsSound ==
  ASSUME IInv, NEW t \in Tx, NEW caller \in MSPs, NEW raw \in RawIds,
         NEW buyer \in MSPs, NEW hash \in Texts,
         NEW ct \in AmountDocs, NEW pd \in DetailDocs,
         CreateInvoice(t, caller, raw, buyer, hash, ct, pd)
  PROVE  SoundProposal(t)
<1> DEFINE id == Canonical[raw]
           record == [supplier |-> caller, buyer |-> buyer, documentHash |-> hash,
                      status |-> "CREATED", financed |-> FALSE, financier |-> "none",
                      lastTx |-> t]
           writes == [NoWrites EXCEPT !["commercialTerms"] = ct, !["paymentDetails"] = pd]
<1>1. id \in Ids /\ invoice[id] = Absent
  BY CanonicalIsId DEF CreateInvoice
<1>2. record \in Invoices(Tx) /\ record # Absent /\ record.lastTx = t
  <2>1. record \in Invoices(Tx)
    BY DEF Invoices, Statuses
  <2> QED
    BY <2>1, AbsentIsNoRecord
<1>3. TypedWrites(writes)
  BY DEF TypedWrites, NoWrites, PrivateKeys, AmountKeys, DetailKeys, DocsOf
<1>4. \A k \in PrivateKeys : private[id][k] = Absent
  BY <1>1 DEF IInv, InvoicesOK, InvoiceOK, StatusIn, DocumentsFor
<1>5. \A k \in PrivateKeys : Merged(private[id], writes)[k] # Absent
        <=> k \in InvoicePartiesKeys
  BY <1>4, AbsentIsNoDocument
     DEF Merged, NoWrites, PrivateKeys, AmountKeys, DetailKeys, InvoicePartiesKeys
<1>6. Chained(Merged(private[id], writes))
  <2>1. Merged(private[id], writes)["commercialTerms"] = ct /\ 0 < ct.amount
    BY AbsentIsNoDocument, ContractAssumption
       DEF Merged, NoWrites, PrivateKeys, AmountKeys, DetailKeys, CreateInvoice,
           ValidCommercialTerms, AmountDocs, ContractAssumption
  <2> QED
    BY <1>5, <2>1 DEF Chained, PrivateKeys, AmountKeys, DetailKeys, InvoicePartiesKeys
<1>7. InvoiceOK(record, Merged(private[id], writes), PolicyAfter(policy[id], "CreateInvoice"))
  BY <1>2, <1>5, <1>6
     DEF InvoiceOK, StatusIn, PolicyAfter, RotatesTo, PolicyFor, DocumentsFor
<1>8. SoundFor("CreateInvoice", id, record, writes)
  BY <1>1, <1>4, <1>7 DEF SoundFor, StatusOf, From, To
<1>9. Endorse(t, caller, "CreateInvoice", id, record, writes)
  BY DEF CreateInvoice
<1> HIDE DEF id, record, writes
<1> QED
  BY <1>1, <1>2, <1>3, <1>8, <1>9 DEF SoundProposal, Proposed, Operations

\* The request writes a disclosure that is, by its hash, the approved document.
LEMMA RequestIsSound ==
  ASSUME IInv, NEW t \in Tx, NEW caller \in MSPs, NEW raw \in RawIds,
         NEW disclosure \in AmountDocs, NEW fr \in AmountDocs, NEW dd \in DetailDocs,
         RequestFinancing(t, caller, raw, disclosure, fr, dd)
  PROVE  SoundProposal(t)
<1> DEFINE id == Canonical[raw]
           record == [invoice[id] EXCEPT !.status = "FINANCING_REQUESTED", !.lastTx = t]
           writes == [NoWrites EXCEPT !["disclosure"] = disclosure,
                                      !["financingRequest"] = fr,
                                      !["disbursementDetails"] = dd]
           doc == Merged(private[id], writes)
<1>1. id \in Ids /\ invoice[id] \in Invoices(Tx) /\ invoice[id].status = "APPROVED"
  BY CanonicalIsId DEF RequestFinancing, IInv, TypeOK
<1>2. record \in Invoices(Tx) /\ record # Absent /\ record.lastTx = t
  BY <1>1, AbsentIsNoRecord DEF Invoices, Statuses
<1>3. TypedWrites(writes)
  BY DEF TypedWrites, NoWrites, PrivateKeys, AmountKeys, DetailKeys, DocsOf
<1>4. InvoiceOK(invoice[id], private[id], policy[id]) /\ StatusIn(invoice[id]) = "APPROVED"
  BY <1>1, AbsentIsNoRecord DEF IInv, InvoicesOK, StatusIn
<1>5. \A k \in PrivateKeys : private[id][k] # Absent <=> k \in InvoicePartiesKeys
  BY <1>4 DEF InvoiceOK, DocumentsFor
<1>6. \A k \in PrivateKeys : doc[k] # Absent <=> k # "financingAgreement"
  BY <1>5, AbsentIsNoDocument
     DEF Merged, NoWrites, PrivateKeys, AmountKeys, DetailKeys, InvoicePartiesKeys
<1>7. /\ doc["disclosure"] = disclosure /\ doc["financingRequest"] = fr
      /\ doc["commercialTerms"] = private[id]["commercialTerms"]
  BY AbsentIsNoDocument DEF Merged, NoWrites, PrivateKeys, AmountKeys, DetailKeys
<1>8. /\ disclosure = private[id]["commercialTerms"] /\ 0 < fr.amount
      /\ fr.amount <= disclosure.amount
  BY ContractAssumption
     DEF RequestFinancing, ValidFinancingRequest, AmountDocs, ContractAssumption
<1>9. Chained(doc)
  BY <1>4, <1>6, <1>7, <1>8 DEF InvoiceOK, Chained, PrivateKeys, AmountKeys, DetailKeys
<1>10. InvoiceOK(record, doc, PolicyAfter(policy[id], "RequestFinancing"))
  <2>1. PolicyAfter(policy[id], "RequestFinancing") = PolicyFor(StatusIn(record))
    BY <1>1, <1>2, <1>4 DEF InvoiceOK, StatusIn, PolicyAfter, RotatesTo, PolicyFor, Invoices
  <2>2. \A k \in PrivateKeys : doc[k] # Absent <=> k \in DocumentsFor(StatusIn(record))
    BY <1>1, <1>2, <1>6 DEF StatusIn, DocumentsFor, Invoices
  <2>3. /\ record.financed <=> record.status \in {"FINANCED", "SETTLED"}
        /\ record.financier = IF record.financed THEN "FinanceMSP" ELSE "none"
    BY <1>1, <1>4, AbsentIsNoRecord DEF InvoiceOK, Invoices
  <2> QED
    BY <2>1, <2>2, <2>3, <1>9 DEF InvoiceOK
<1>11. SoundFor("RequestFinancing", id, record, writes)
  <2>1. \A k \in PrivateKeys : writes[k] # Absent => private[id][k] = Absent
    BY <1>5 DEF NoWrites, PrivateKeys, AmountKeys, DetailKeys, InvoicePartiesKeys
  <2>2. SameIdentity(invoice[id], record)
    BY <1>1 DEF SameIdentity, Invoices
  <2> QED
    BY <1>1, <1>10, <2>1, <2>2, AbsentIsNoRecord DEF SoundFor, StatusOf, From, To, Invoices
<1>12. Endorse(t, caller, "RequestFinancing", id, record, writes)
  BY DEF RequestFinancing
<1> HIDE DEF id, record, writes
<1> QED
  BY <1>1, <1>2, <1>3, <1>11, <1>12 DEF SoundProposal, Proposed, Operations

\* The agreement is within the request, and the request within the disclosure.
LEMMA FinanceIsSound ==
  ASSUME IInv, NEW t \in Tx, NEW caller \in MSPs, NEW raw \in RawIds,
         NEW fa \in AmountDocs, FinanceInvoice(t, caller, raw, fa)
  PROVE  SoundProposal(t)
<1> DEFINE id == Canonical[raw]
           record == [invoice[id] EXCEPT !.status = "FINANCED", !.financed = TRUE,
                                         !.financier = caller, !.lastTx = t]
           writes == [NoWrites EXCEPT !["financingAgreement"] = fa]
           doc == Merged(private[id], writes)
<1>1. /\ id \in Ids /\ invoice[id] \in Invoices(Tx) /\ caller = "FinanceMSP"
      /\ invoice[id].status = "FINANCING_REQUESTED"
  BY CanonicalIsId DEF FinanceInvoice, RequireMSP, IInv, TypeOK
<1>2. record \in Invoices(Tx) /\ record # Absent /\ record.lastTx = t
  BY <1>1, AbsentIsNoRecord DEF Invoices, Statuses
<1>3. TypedWrites(writes)
  BY DEF TypedWrites, NoWrites, PrivateKeys, AmountKeys, DetailKeys, DocsOf
<1>4. /\ InvoiceOK(invoice[id], private[id], policy[id])
      /\ StatusIn(invoice[id]) = "FINANCING_REQUESTED"
  BY <1>1, AbsentIsNoRecord DEF IInv, InvoicesOK, StatusIn
<1>5. \A k \in PrivateKeys : private[id][k] # Absent <=> k # "financingAgreement"
  BY <1>4 DEF InvoiceOK, DocumentsFor
<1>6. \A k \in PrivateKeys : doc[k] # Absent
  BY <1>5, AbsentIsNoDocument DEF Merged, NoWrites, PrivateKeys, AmountKeys, DetailKeys
<1>7. /\ doc["financingAgreement"] = fa
      /\ \A k \in PrivateKeys \ {"financingAgreement"} : doc[k] = private[id][k]
  BY AbsentIsNoDocument DEF Merged, NoWrites, PrivateKeys, AmountKeys, DetailKeys
<1>8. 0 < fa.amount /\ fa.amount <= private[id]["financingRequest"].amount
  BY ContractAssumption
     DEF FinanceInvoice, ValidFinancingAgreement, AmountDocs, ContractAssumption
<1>9. Chained(doc)
  BY <1>4, <1>5, <1>7, <1>8 DEF InvoiceOK, Chained, PrivateKeys, AmountKeys, DetailKeys
<1>10. InvoiceOK(record, doc, PolicyAfter(policy[id], "FinanceInvoice"))
  <2>1. PolicyAfter(policy[id], "FinanceInvoice") = PolicyFor(StatusIn(record))
    BY <1>1, <1>2 DEF StatusIn, PolicyAfter, RotatesTo, PolicyFor, Invoices
  <2>2. \A k \in PrivateKeys : doc[k] # Absent <=> k \in DocumentsFor(StatusIn(record))
    BY <1>1, <1>2, <1>6 DEF StatusIn, DocumentsFor, Invoices
  <2>3. /\ record.financed <=> record.status \in {"FINANCED", "SETTLED"}
        /\ record.financier = IF record.financed THEN "FinanceMSP" ELSE "none"
    BY <1>1 DEF Invoices
  <2> QED
    BY <2>1, <2>2, <2>3, <1>9 DEF InvoiceOK
<1>11. SoundFor("FinanceInvoice", id, record, writes)
  <2>1. \A k \in PrivateKeys : writes[k] # Absent => private[id][k] = Absent
    BY <1>5 DEF NoWrites, PrivateKeys, AmountKeys, DetailKeys, InvoicePartiesKeys
  <2>2. SameIdentity(invoice[id], record)
    BY <1>1 DEF SameIdentity, Invoices
  <2> QED
    BY <1>1, <1>10, <2>1, <2>2, AbsentIsNoRecord DEF SoundFor, StatusOf, From, To, Invoices
<1>12. Endorse(t, caller, "FinanceInvoice", id, record, writes)
  BY DEF FinanceInvoice
<1> HIDE DEF id, record, writes
<1> QED
  BY <1>1, <1>2, <1>3, <1>11, <1>12 DEF SoundProposal, Proposed, Operations

\* Whatever the function, the caller and the documents.
LEMMA ProposeIsSound ==
  ASSUME IInv, NEW t \in Tx, Propose(t)
  PROVE  SoundProposal(t)
BY ApproveIsSound, RejectIsSound, SettleIsSound, CreateIsSound, RequestIsSound,
   FinanceIsSound DEF Propose

-----------------------------------------------------------------------------
(***************************************************************************)
(* IInv is inductive.                                                      *)
(***************************************************************************)
LEMMA InitIInv == Init => IInv
<1> SUFFICES ASSUME Init PROVE IInv
  OBVIOUS
<1>1. TypeOK
  BY LedgerAssumption DEF Init, TypeOK, LedgerAssumption, Phases, Keys, Failures
<1>2. InvoicesOK
  BY DEF Init, InvoicesOK, InvoiceOK, StatusIn, PolicyFor, DocumentsFor, Chained,
         PrivateKeys, AmountKeys, DetailKeys
<1>3. ReadsAreCommitted /\ EndorsedAreSound /\ CommittedAreBehind /\ SingleWinner
  BY DEF Init, ReadsAreCommitted, EndorsedAreSound, CommittedAreBehind, SingleWinner,
         Committed, Keys
<1> QED
  BY <1>1, <1>2, <1>3 DEF IInv

\* An endorsement touches one transaction, which was idle.
LEMMA EndorseIInv ==
  ASSUME IInv, NEW t \in Tx, CanEndorse(t),
         NEW op \in Operations, NEW id \in Ids, NEW record \in Invoices(Tx), NEW writes,
         NEW caller \in MSPs,
         TypedWrites(writes), SoundFor(op, id, record, writes),
         Endorse(t, caller, op, id, record, writes)
  PROVE  IInv'
<1> DEFINE new == [op |-> op, id |-> id, invoice |-> record, writes |-> writes,
                   seen |-> version[id], endorsers |-> RequiredEndorsers(id, writes)]
<1>1. /\ tx' = [tx EXCEPT ![t] = new] /\ phase' = [phase EXCEPT ![t] = "endorsed"]
      /\ UNCHANGED <<invoice, private, version, policy, block, rotated, events>>
  BY DEF Endorse
<1>2. TypeOK /\ phase[t] = "idle" /\ block = {}
  BY DEF IInv, CanEndorse
<1>3. new \in Transactions /\ new # Absent
  <2>1. version[id] \in [Keys -> 0..MaxTx]
    BY <1>2 DEF TypeOK
  <2>2. RequiredEndorsers(id, writes) \subseteq MSPs
    BY <1>2 DEF TypeOK, RequiredEndorsers, CollectionMembers, MSPs, Written
  <2>3. new \in Transactions
    BY <2>1, <2>2 DEF Transactions, TypedWrites
  <2> QED
    BY <2>3, AbsentIsNoRecord
<1>4. /\ tx'[t] = new /\ phase'[t] = "endorsed"
      /\ \A u \in Tx \ {t} : tx'[u] = tx[u] /\ phase'[u] = phase[u]
  BY <1>1, <1>2 DEF TypeOK
<1> HIDE DEF new
<1>5. TypeOK'
  <2>1. tx' \in [Tx -> Transactions \cup {Absent}] /\ phase' \in [Tx -> Phases]
    BY <1>1, <1>2, <1>3 DEF TypeOK, Phases
  <2>2. \A u \in Tx, k \in PrivateKeys :
          tx'[u] # Absent => tx'[u].writes[k] \in DocsOf(k) \cup {Absent}
    BY <1>2, <1>4 DEF TypeOK, TypedWrites, new
  <2>3. \A u \in Tx : phase'[u] = "idle" <=> tx'[u] = Absent
    BY <1>2, <1>3, <1>4 DEF TypeOK
  <2> QED
    BY <1>1, <1>2, <2>1, <2>2, <2>3 DEF TypeOK
<1>6. ReadsAreCommitted'
  <2>1. Committed' = Committed
    BY <1>2, <1>4 DEF Committed
  <2> QED
    BY <1>1, <1>4, <2>1 DEF IInv, ReadsAreCommitted, new
<1>7. InvoicesOK'
  BY <1>1 DEF IInv, InvoicesOK
<1>8. EndorsedAreSound'
  <2> SUFFICES ASSUME NEW u \in Tx, (phase[u] = "endorsed" /\ Unstale(u))'
               PROVE  Sound(u)'
    BY DEF EndorsedAreSound
  <2>1. CASE u = t
    BY <1>1, <1>4, <2>1 DEF Sound, SoundFor, StatusOf, new
  <2>2. CASE u # t
    BY <1>1, <1>4, <2>2 DEF IInv, EndorsedAreSound, Unstale, Sound, SoundFor, StatusOf
  <2> QED
    BY <2>1, <2>2
<1>9. CommittedAreBehind'
  BY <1>1, <1>4 DEF IInv, CommittedAreBehind, StatusOf
<1>10. SingleWinner'
  BY <1>4 DEF IInv, SingleWinner, Rivals
<1> QED
  BY <1>5, <1>6, <1>7, <1>8, <1>9, <1>10 DEF IInv

\* A block is cut: no verdict yet.
LEMMA CutBlockIInv ==
  ASSUME IInv, NEW b \in SUBSET Tx, CutBlock(b)
  PROVE  IInv'
<1>1. TypeOK'
  BY DEF IInv, TypeOK, CutBlock
<1>2. /\ ReadsAreCommitted' /\ InvoicesOK' /\ EndorsedAreSound'
      /\ CommittedAreBehind' /\ SingleWinner'
  BY DEF IInv, CutBlock, ReadsAreCommitted, Committed, InvoicesOK, EndorsedAreSound,
         Unstale, Sound, SoundFor, StatusOf, CommittedAreBehind, SingleWinner, Rivals
<1> QED
  BY <1>1, <1>2 DEF IInv

\* A transaction that fails leaves the ledger as it was.
LEMMA FailIInv ==
  ASSUME IInv, NEW t \in Tx, FailEndorsement(t) \/ FailMVCC(t)
  PROVE  IInv'
<1>1. /\ t \in block
      /\ block' = block \ {t}
      /\ rotated' \subseteq rotated \cup {tx[t].id}
      /\ UNCHANGED <<invoice, private, version, policy, tx, events>>
      /\ \E code \in Failures : phase' = [phase EXCEPT ![t] = code]
  BY DEF FailEndorsement, FailMVCC, Failures, RotatedBy
<1>2. /\ TypeOK /\ phase[t] = "endorsed" /\ tx[t].id \in Ids
      /\ phase'[t] \in Failures
      /\ \A u \in Tx \ {t} : phase'[u] = phase[u]
  BY <1>1 DEF IInv, TypeOK, Transactions
<1>3. TypeOK'
  <2>1. phase' \in [Tx -> Phases]
    BY <1>1, <1>2 DEF TypeOK, Phases
  <2>2. \A u \in Tx : phase'[u] = "idle" <=> tx'[u] = Absent
    BY <1>1, <1>2 DEF TypeOK, Failures
  <2>3. block' \subseteq {u \in Tx : phase'[u] = "endorsed"}
    BY <1>1, <1>2 DEF TypeOK
  <2> QED
    BY <1>1, <1>2, <2>1, <2>2, <2>3 DEF TypeOK
<1>4. \A u \in Tx : phase'[u] \in {"VALID", "endorsed"} => phase'[u] = phase[u]
  BY <1>2 DEF Failures
<1>5. Committed' = Committed
  BY <1>2 DEF Committed, Failures
<1>6. ReadsAreCommitted'
  BY <1>1, <1>2, <1>5 DEF IInv, ReadsAreCommitted, Failures
<1>7. InvoicesOK'
  BY <1>1 DEF IInv, InvoicesOK
<1>8. EndorsedAreSound'
  BY <1>1, <1>4 DEF IInv, EndorsedAreSound, Unstale, Sound, SoundFor, StatusOf
<1>9. CommittedAreBehind'
  BY <1>1, <1>4 DEF IInv, CommittedAreBehind, StatusOf
<1>10. SingleWinner'
  BY <1>1, <1>4 DEF IInv, SingleWinner, Rivals
<1> QED
  BY <1>3, <1>6, <1>7, <1>8, <1>9, <1>10 DEF IInv

\* What a commit does to the invoice of the transaction, and to the others.
LEMMA CommitEffect ==
  ASSUME IInv, NEW t \in Tx, Commit(t)
  PROVE  /\ phase[t] = "endorsed" /\ tx[t] \in Transactions /\ tx[t].id \in Ids
         /\ Unstale(t) /\ Sound(t)
         /\ invoice'[tx[t].id] = tx[t].invoice
         /\ private'[tx[t].id] = Merged(private[tx[t].id], tx[t].writes)
         /\ policy'[tx[t].id] = PolicyAfter(policy[tx[t].id], tx[t].op)
         /\ version'[tx[t].id]["invoice"] = t
         /\ \A id \in Ids \ {tx[t].id} :
              UNCHANGED <<invoice[id], private[id], policy[id], version[id]>>
         /\ phase'[t] = "VALID" /\ \A u \in Tx \ {t} : phase'[u] = phase[u]
         /\ tx' = tx
<1>1. TypeOK /\ t \in block /\ phase[t] = "endorsed"
  BY DEF IInv, Commit, TypeOK
<1>2. tx[t] \in Transactions /\ tx[t].id \in Ids
  BY <1>1 DEF TypeOK, Transactions
<1>3. Unstale(t)
  BY DEF Commit, Fresh, ReadSet, Unstale
<1>4. Sound(t)
  BY <1>1, <1>3 DEF IInv, EndorsedAreSound
<1>5. phase'[t] = "VALID" /\ (\A u \in Tx \ {t} : phase'[u] = phase[u]) /\ tx' = tx
  BY <1>1 DEF Commit, TypeOK
<1>6. /\ invoice'[tx[t].id] = tx[t].invoice
      /\ policy'[tx[t].id] = PolicyAfter(policy[tx[t].id], tx[t].op)
  BY <1>1, <1>2 DEF Commit, Apply, TypeOK, PolicyAfter
<1>7. private'[tx[t].id] = Merged(private[tx[t].id], tx[t].writes)
  BY <1>1, <1>2 DEF Commit, Apply, TypeOK, Merged, Written
<1>8. version'[tx[t].id]["invoice"] = t
  BY <1>1, <1>2 DEF Commit, Apply, TypeOK, Keys
<1>9. \A id \in Ids \ {tx[t].id} :
        UNCHANGED <<invoice[id], private[id], policy[id], version[id]>>
  BY <1>1, <1>2 DEF Commit, Apply, TypeOK
<1> QED
  BY <1>1, <1>2, <1>3, <1>4, <1>5, <1>6, <1>7, <1>8, <1>9

\* A commit makes the others of its block that are on the invoice stale, and
\* none else.
LEMMA CommitMakesStale ==
  ASSUME IInv, NEW t \in Tx, Commit(t), NEW u \in block'
  PROVE  /\ u \in block /\ tx[u].id \in Ids
         /\ tx[u].id = tx[t].id => ~Unstale(u)'
         /\ tx[u].id # tx[t].id => (Unstale(u)' <=> Unstale(u))
<1>1. /\ u \in block /\ u \in Tx /\ phase[u] = "endorsed" /\ tx' = tx
      /\ version'[tx[t].id]["invoice"] = t /\ phase[t] = "endorsed"
      /\ \A id \in Ids \ {tx[t].id} : version'[id] = version[id]
  BY CommitEffect DEF IInv, TypeOK, Commit
<1>2. tx[u].id \in Ids
  BY <1>1 DEF IInv, TypeOK, Transactions
<1>3. tx[u].seen["invoice"] \in Committed /\ t \notin Committed
  BY <1>1, LedgerAssumption DEF IInv, ReadsAreCommitted, Committed, Tx, LedgerAssumption
<1> QED
  BY <1>1, <1>2, <1>3 DEF Unstale

\* What a commit writes is of the right type.
LEMMA CommitTypeOK ==
  ASSUME IInv, NEW t \in Tx, Commit(t)
  PROVE  TypeOK'
<1>1. TypeOK /\ t \in block /\ phase[t] = "endorsed" /\ tx[t] # Absent
  BY DEF IInv, Commit, TypeOK
<1>2. tx[t] \in Transactions /\ tx[t].id \in Ids
  BY <1>1 DEF TypeOK, Transactions
<1>3. invoice' \in [Ids -> Invoices(Tx) \cup {Absent}]
  BY <1>1, <1>2 DEF Commit, Apply, TypeOK, Transactions
<1>4. /\ private' \in [Ids -> [PrivateKeys -> AmountDocs \cup DetailDocs \cup {Absent}]]
      /\ \A id \in Ids, k \in PrivateKeys : private'[id][k] \in DocsOf(k) \cup {Absent}
  <2> DEFINE id == tx[t].id
             doc == [k \in PrivateKeys |-> IF k \in Written(tx[t].writes)
                                           THEN tx[t].writes[k] ELSE private[id][k]]
  <2>1. private' = [private EXCEPT ![id] = doc]
    BY DEF Commit, Apply
  <2>2. \A k \in PrivateKeys :
          /\ doc[k] \in DocsOf(k) \cup {Absent}
          /\ doc[k] \in AmountDocs \cup DetailDocs \cup {Absent}
    BY <1>1, <1>2 DEF TypeOK, DocsOf
  <2>3. doc \in [PrivateKeys -> AmountDocs \cup DetailDocs \cup {Absent}]
    BY <2>2
  <2> HIDE DEF id, doc
  <2> QED
    BY <1>1, <2>1, <2>2, <2>3 DEF TypeOK
<1>5. version' \in [Ids -> [Keys -> 0..MaxTx]]
  <2>1. t \in 0..MaxTx
    BY LedgerAssumption DEF Tx, LedgerAssumption
  <2>2. [k \in Keys |-> IF k \in Written(tx[t].writes) \cup {"invoice"}
                        THEN t ELSE version[tx[t].id][k]] \in [Keys -> 0..MaxTx]
    BY <1>1, <1>2, <2>1 DEF TypeOK
  <2> QED
    BY <1>1, <2>2 DEF Commit, Apply, TypeOK
<1>6. policy' \in [Ids -> SUBSET MSPs]
  <2>1. RotatesTo(tx[t].op) \subseteq MSPs
    BY DEF RotatesTo, MSPs
  <2>2. policy[tx[t].id] \subseteq MSPs
    BY <1>1, <1>2 DEF TypeOK
  <2> DEFINE orgs == IF RotatesTo(tx[t].op) # {} THEN RotatesTo(tx[t].op)
                                                 ELSE policy[tx[t].id]
  <2>3. policy' = [policy EXCEPT ![tx[t].id] = orgs] /\ orgs \subseteq MSPs
    BY <2>1, <2>2 DEF Commit, Apply
  <2> QED
    BY <1>1, <2>3 DEF TypeOK
<1>7. phase' \in [Tx -> Phases] /\ (\A u \in Tx : phase'[u] = "idle" <=> tx'[u] = Absent)
  BY <1>1 DEF Commit, TypeOK, Phases
<1>8. block' \subseteq {u \in Tx : phase'[u] = "endorsed"} /\ rotated' \subseteq Ids
  BY <1>1, <1>2 DEF Commit, TypeOK, RotatedBy
<1>9. events' \in Seq(Events)
  <2>1. [tx |-> t, id |-> tx[t].id, name |-> EventName(tx[t].op),
         status |-> tx[t].invoice.status] \in Events
    BY <1>2 DEF Events, Transactions, Invoices
  <2> QED
    BY <1>1, <2>1 DEF Commit, Apply, TypeOK
<1> QED
  BY <1>1, <1>3, <1>4, <1>5, <1>6, <1>7, <1>8, <1>9 DEF Commit, TypeOK

\* An operation leads out of what its rivals leave behind, and into what all
\* that came before leave behind.
LEMMA EdgesAreForward ==
  ASSUME NEW op \in Operations, NEW other \in Operations
  PROVE  /\ To(op) \in After(op)
         /\ From(op) \in After(other) => To(op) \in After(other)
         /\ op = other \/ {op, other} = {"ApproveInvoice", "RejectInvoice"}
              => From(op) \notin After(other)
BY DEF Operations, From, To, After, Statuses

\* A commit hands the soundness of the transaction to the invoice, and makes
\* every other transaction on the invoice stale.
LEMMA CommitIInv ==
  ASSUME IInv, NEW t \in Tx, Commit(t)
  PROVE  IInv'
<1> DEFINE id == tx[t].id
<1> USE CommitEffect
<1>1. TypeOK'
  BY CommitTypeOK
<1>2. TypeOK /\ tx[t].op \in Operations /\ tx[t].invoice \in Invoices(Tx)
  BY DEF IInv, Transactions
<1>3. Committed' = Committed \cup {t}
  BY DEF Committed
<1>4. t \notin Committed
  BY LedgerAssumption DEF Committed, Tx, LedgerAssumption
<1>5. ReadsAreCommitted'
  <2>1. \A i \in Ids : version'[i]["invoice"] \in Committed'
    BY <1>3 DEF IInv, ReadsAreCommitted
  <2>2. \A u \in Tx : phase'[u] # "idle" => tx'[u].seen["invoice"] \in Committed'
    BY <1>3 DEF IInv, ReadsAreCommitted
  <2> QED
    BY <2>1, <2>2 DEF ReadsAreCommitted
<1>6. InvoicesOK'
  <2> SUFFICES ASSUME NEW i \in Ids
               PROVE  InvoiceOK(invoice'[i], private'[i], policy'[i])
    BY DEF InvoicesOK
  <2>1. CASE i = id
    BY <2>1 DEF Sound, SoundFor
  <2>2. CASE i # id
    BY <2>2 DEF IInv, InvoicesOK
  <2> QED
    BY <2>1, <2>2
<1>7. EndorsedAreSound'
  <2> SUFFICES ASSUME NEW u \in Tx, phase'[u] = "endorsed", Unstale(u)'
               PROVE  Sound(u)'
    BY DEF EndorsedAreSound
  <2>1. u # t /\ phase[u] = "endorsed" /\ tx'[u] = tx[u] /\ tx[u].id \in Ids
    BY <1>2 DEF TypeOK, Transactions
  <2>2. tx[u].seen["invoice"] # t
    BY <1>4, <2>1 DEF IInv, ReadsAreCommitted
  <2>3. tx[u].id # id
    BY <2>1, <2>2 DEF Unstale
  <2>4. Unstale(u) /\ Sound(u)
    BY <2>1, <2>3 DEF Unstale, IInv, EndorsedAreSound
  <2> QED
    BY <2>1, <2>3, <2>4 DEF Sound, SoundFor, StatusOf
<1>8. StatusOf(id) = From(tx[t].op) /\ StatusOf(id)' = To(tx[t].op)
  BY <1>2, AbsentIsNoRecord DEF Sound, SoundFor, StatusOf
<1>9. CommittedAreBehind'
  <2> SUFFICES ASSUME NEW u \in Tx, phase'[u] = "VALID"
               PROVE  StatusOf(tx[u].id)' \in After(tx[u].op)
    BY DEF CommittedAreBehind
  <2>1. CASE u = t
    BY <1>2, <1>8, <2>1, EdgesAreForward
  <2>2. CASE u # t
    <3>1. phase[u] = "VALID" /\ tx[u].id \in Ids /\ tx[u].op \in Operations
      BY <1>2, <2>2 DEF TypeOK, Transactions
    <3>2. StatusOf(tx[u].id) \in After(tx[u].op)
      BY <3>1 DEF IInv, CommittedAreBehind
    <3>3. CASE tx[u].id = id
      BY <1>2, <1>8, <3>1, <3>2, <3>3, EdgesAreForward
    <3>4. CASE tx[u].id # id
      BY <3>1, <3>2, <3>4 DEF StatusOf
    <3> QED
      BY <3>3, <3>4
  <2> QED
    BY <2>1, <2>2
<1>10. \A u \in Tx : phase[u] = "VALID" => ~Rivals(t, u) /\ ~Rivals(u, t)
  <2> SUFFICES ASSUME NEW u \in Tx, phase[u] = "VALID", tx[u].id = id
               PROVE  ~Rivals(t, u) /\ ~Rivals(u, t)
    BY DEF Rivals
  <2>1. tx[u].op \in Operations
    BY <1>2 DEF TypeOK, Transactions
  <2>2. From(tx[t].op) \in After(tx[u].op)
    BY <1>8 DEF IInv, CommittedAreBehind
  <2>3. ~(\/ tx[t].op = tx[u].op
          \/ {tx[t].op, tx[u].op} = {"ApproveInvoice", "RejectInvoice"})
    BY <1>2, <2>1, <2>2, EdgesAreForward
  <2>4. {tx[u].op, tx[t].op} = {tx[t].op, tx[u].op}
    OBVIOUS
  <2> HIDE DEF id
  <2> QED
    BY <2>3, <2>4 DEF Rivals
<1>11. SingleWinner'
  <2> SUFFICES ASSUME NEW u \in Tx, NEW w \in Tx, u # w,
                      phase'[u] = "VALID", phase'[w] = "VALID"
               PROVE  ~Rivals(u, w)'
    BY DEF SingleWinner
  <2>1. Rivals(u, w)' <=> Rivals(u, w)
    BY DEF Rivals
  <2>2. u # t => phase[u] = "VALID"
    OBVIOUS
  <2>3. w # t => phase[w] = "VALID"
    OBVIOUS
  <2>4. CASE u = t \/ w = t
    BY <1>10, <2>1, <2>2, <2>3, <2>4
  <2>5. CASE u # t /\ w # t
    BY <2>1, <2>2, <2>3, <2>5 DEF IInv, SingleWinner
  <2> QED
    BY <2>4, <2>5
<1> QED
  BY <1>1, <1>5, <1>6, <1>7, <1>9, <1>11 DEF IInv

\* Every step of the ledger.
LEMMA NextIInv == IInv /\ [Next]_vars => IInv'
<1> SUFFICES ASSUME IInv, [Next]_vars PROVE IInv'
  OBVIOUS
<1>1. ASSUME NEW t \in Tx, Propose(t) PROVE IInv'
  <2>1. CanEndorse(t) /\ SoundProposal(t)
    BY <1>1, ProposeIsSound DEF Propose
  <2> QED
    BY <2>1, EndorseIInv DEF SoundProposal, Proposed
<1>2. ASSUME NEW b \in SUBSET Tx, CutBlock(b) PROVE IInv'
  BY <1>2, CutBlockIInv
<1>3. ASSUME NEW t \in Tx, Validate(t) PROVE IInv'
  BY <1>3, FailIInv, CommitIInv DEF Validate
<1>4. CASE UNCHANGED vars
  <2> USE <1>4 DEF vars, IInv
  <2>1. TypeOK'
    BY DEF TypeOK
  <2>2. ReadsAreCommitted' /\ InvoicesOK'
    BY DEF ReadsAreCommitted, Committed, InvoicesOK
  <2>3. EndorsedAreSound'
    BY DEF EndorsedAreSound, Unstale, Sound, SoundFor, StatusOf
  <2>4. CommittedAreBehind' /\ SingleWinner'
    BY DEF CommittedAreBehind, StatusOf, SingleWinner, Rivals
  <2> QED
    BY <2>1, <2>2, <2>3, <2>4
<1> QED
  BY <1>1, <1>2, <1>3, <1>4 DEF Next

(***************************************************************************)
(* The invariant holds of every behaviour of the ledger.                   *)
(***************************************************************************)
THEOREM IInvariance == Spec => []IInv
BY InitIInv, NextIInv, PTL DEF Spec

-----------------------------------------------------------------------------
(***************************************************************************)
(* Every variable of the ledger keeps its type, and the transactions of a  *)
(* block are endorsed ones that have no verdict yet.                       *)
(***************************************************************************)
THEOREM TypeCorrect == Spec => []TypeOK
<1>1. IInv => TypeOK
  BY DEF IInv
<1> QED
  BY <1>1, IInvariance, PTL

(***************************************************************************)
(* No double financing, and no other double transition: of the             *)
(* transactions that take an invoice out of the same status, at most one   *)
(* is ever valid, however many clients race over however many blocks.      *)
(***************************************************************************)
THEOREM NoTwoWinners == Spec => []SingleWinner
<1>1. IInv => SingleWinner
  BY DEF IInv
<1> QED
  BY <1>1, IInvariance, PTL

(***************************************************************************)
(* The committed endorsement policy of an invoice is always that of its    *)
(* lifecycle phase in the repository's endorsement table.                  *)
(***************************************************************************)
THEOREM PolicyIsOfThePhase == Spec => []PolicyFollowsLifecycle
<1>1. IInv => PolicyFollowsLifecycle
  BY DEF IInv, InvoicesOK, InvoiceOK, StatusIn, StatusOf, PolicyFollowsLifecycle
<1> QED
  BY <1>1, IInvariance, PTL

(***************************************************************************)
(* The private documents present, the financed flag and the financier      *)
(* agree with the status of the invoice.                                   *)
(***************************************************************************)
THEOREM DocumentsAreOfThePhase == Spec => []DocumentsFollowLifecycle
<1>1. IInv => DocumentsFollowLifecycle
  <2> SUFFICES ASSUME IInv, NEW id \in Ids
               PROVE  /\ Written(private[id]) = DocumentsFor(StatusOf(id))
                      /\ invoice[id] # Absent =>
                           /\ invoice[id].financed
                                <=> private[id]["financingAgreement"] # Absent
                           /\ invoice[id].financier =
                                IF invoice[id].financed THEN "FinanceMSP" ELSE "none"
    BY DEF DocumentsFollowLifecycle
  <2>1. InvoiceOK(invoice[id], private[id], policy[id]) /\ StatusIn(invoice[id]) = StatusOf(id)
    BY DEF IInv, InvoicesOK, StatusIn, StatusOf
  <2>2. StatusOf(id) \in Statuses \cup {"NONE"}
    BY DEF IInv, TypeOK, StatusOf, Invoices
  <2>3. DocumentsFor(StatusOf(id)) \subseteq PrivateKeys
    BY <2>2 DEF Statuses, DocumentsFor, InvoicePartiesKeys, PrivateKeys, AmountKeys, DetailKeys
  <2>4. Written(private[id]) = DocumentsFor(StatusOf(id))
    <3>1. \A k \in PrivateKeys :
            private[id][k] # Absent <=> k \in DocumentsFor(StatusIn(invoice[id]))
      BY <2>1 DEF InvoiceOK
    <3> QED
      BY <2>1, <2>3, <3>1 DEF Written
  <2>5. ASSUME invoice[id] # Absent
        PROVE  invoice[id].financed <=> private[id]["financingAgreement"] # Absent
    <3>1. "financingAgreement" \in DocumentsFor(StatusOf(id))
            <=> StatusOf(id) \in {"FINANCED", "SETTLED"}
      BY <2>2
         DEF Statuses, DocumentsFor, InvoicePartiesKeys, PrivateKeys, AmountKeys, DetailKeys
    <3>2. invoice[id].financed <=> invoice[id].status \in {"FINANCED", "SETTLED"}
      BY <2>1, <2>5 DEF InvoiceOK
    <3>3. private[id]["financingAgreement"] # Absent
            <=> "financingAgreement" \in DocumentsFor(StatusOf(id))
      BY <2>1 DEF InvoiceOK, PrivateKeys, AmountKeys
    <3> QED
      BY <2>5, <3>1, <3>2, <3>3 DEF StatusOf
  <2> QED
    BY <2>1, <2>4, <2>5 DEF InvoiceOK
<1> QED
  BY <1>1, IInvariance, PTL

(***************************************************************************)
(* What is financed is at most what was requested, what is requested at    *)
(* most what the buyer approved, and what the financier was shown is what  *)
(* the buyer approved.                                                     *)
(***************************************************************************)
THEOREM AmountsStayChained == Spec => []AmountsAreChained
<1>1. IInv => AmountsAreChained
  BY DEF IInv, InvoicesOK, InvoiceOK, Chained, AmountsAreChained
<1> QED
  BY <1>1, IInvariance, PTL

-----------------------------------------------------------------------------
(***************************************************************************)
(* Action properties and the refinement: only a commit changes the ledger. *)
(***************************************************************************)
LEMMA OnlyCommitsChangeTheLedger ==
  ASSUME IInv, [Next]_vars
  PROVE  \/ \E t \in Tx : Commit(t)
         \/ UNCHANGED <<invoice, private, version, policy>>
<1>1. ASSUME NEW t \in Tx, Propose(t)
      PROVE  UNCHANGED <<invoice, private, version, policy>>
  BY <1>1, ProposeIsSound DEF SoundProposal, Proposed, Endorse
<1>2. ASSUME NEW b \in SUBSET Tx, CutBlock(b)
      PROVE  UNCHANGED <<invoice, private, version, policy>>
  BY <1>2 DEF CutBlock
<1>3. ASSUME NEW t \in Tx, FailEndorsement(t) \/ FailMVCC(t)
      PROVE  UNCHANGED <<invoice, private, version, policy>>
  BY <1>3 DEF FailEndorsement, FailMVCC
<1>4. CASE UNCHANGED vars
  BY <1>4 DEF vars
<1> QED
  BY <1>1, <1>2, <1>3, <1>4 DEF Next, Validate

\* No operation leads out of a terminal status.
LEMMA TerminalIsLeftByNone ==
  ASSUME NEW op \in Operations
  PROVE  From(op) \notin Terminal
BY DEF Operations, From, Terminal

\* The body of WrittenOnce, for one invoice.
Kept(id) ==
  /\ invoice[id] # Absent =>
       /\ invoice'[id].supplier = invoice[id].supplier
       /\ invoice'[id].buyer = invoice[id].buyer
       /\ invoice'[id].documentHash = invoice[id].documentHash
  /\ \A k \in Written(private[id]) : private'[id][k] = private[id][k]
  /\ StatusOf(id) \in Terminal =>
       UNCHANGED <<invoice[id], private[id], policy[id], version[id]>>

\* A commit adds documents and moves the status; it leaves the rest.
LEMMA CommitKeeps ==
  ASSUME IInv, NEW t \in Tx, Commit(t), NEW id \in Ids
  PROVE  Kept(id)
<1>1. CASE id # tx[t].id
  BY <1>1, CommitEffect DEF Kept
<1>2. CASE id = tx[t].id
  <2>1. /\ invoice'[id] = tx[t].invoice
        /\ private'[id] = Merged(private[id], tx[t].writes)
        /\ SoundFor(tx[t].op, id, tx[t].invoice, tx[t].writes)
        /\ tx[t].op \in Operations
    BY <1>2, CommitEffect DEF Sound, Transactions
  <2>2. invoice[id] # Absent => SameIdentity(invoice[id], invoice'[id])
    BY <2>1 DEF SoundFor
  <2>3. \A k \in Written(private[id]) : private'[id][k] = private[id][k]
    BY <2>1 DEF SoundFor, Merged, Written
  <2>4. StatusOf(id) \notin Terminal
    BY <2>1, TerminalIsLeftByNone DEF SoundFor
  <2> QED
    BY <2>2, <2>3, <2>4 DEF Kept, SameIdentity
<1> QED
  BY <1>1, <1>2

(***************************************************************************)
(* The parties and the hash of an invoice and its stored documents never   *)
(* change, and a rejected or settled invoice does not change at all.       *)
(***************************************************************************)
THEOREM NothingIsWrittenTwice == Spec => WrittenOnce
<1>1. IInv /\ [Next]_vars => [\A id \in Ids : Kept(id)]_vars
  <2> SUFFICES ASSUME IInv, [Next]_vars, NEW id \in Ids PROVE Kept(id)
    OBVIOUS
  <2>1. ASSUME NEW t \in Tx, Commit(t) PROVE Kept(id)
    BY <2>1, CommitKeeps
  <2>2. CASE UNCHANGED <<invoice, private, version, policy>>
    BY <2>2 DEF Kept
  <2> QED
    BY <2>1, <2>2, OnlyCommitsChangeTheLedger
<1> QED
  BY <1>1, IInvariance, PTL DEF Spec, WrittenOnce, Kept

-----------------------------------------------------------------------------
(***************************************************************************)
(* The refinement of InvoiceLifecycle.                                     *)
(***************************************************************************)
LEMMA InitRefines == Init => Lifecycle!Init
BY DEF Init, Lifecycle!Init, Lifecycle!Blank, Book, StatusOf, AmountIn, PrivateKeys, AmountKeys

\* The amounts of an entry, before and after a commit.
LEMMA AmountsAfterCommit ==
  ASSUME IInv, NEW t \in Tx, Commit(t), NEW k \in AmountKeys
  PROVE  LET id == tx[t].id IN
         /\ k \in DocumentsFor(From(tx[t].op)) =>
              AmountIn(id, k)' = AmountIn(id, k) /\ private'[id][k] = private[id][k]
         /\ k \notin DocumentsFor(From(tx[t].op)) => AmountIn(id, k) = 0
         /\ k \notin DocumentsFor(To(tx[t].op)) => AmountIn(id, k)' = 0
         /\ k \in DocumentsFor(To(tx[t].op)) =>
              /\ private'[id][k] \in AmountDocs
              /\ AmountIn(id, k)' = private'[id][k].amount
              /\ AmountIn(id, k)' \in Amounts
<1> DEFINE id == tx[t].id
<1>1. /\ id \in Ids /\ k \in PrivateKeys /\ tx[t].op \in Operations
      /\ private'[id] = Merged(private[id], tx[t].writes)
      /\ SoundFor(tx[t].op, id, tx[t].invoice, tx[t].writes)
  BY CommitEffect DEF Sound, Transactions, PrivateKeys
<1>2. StatusIn(invoice[id]) = From(tx[t].op)
  BY <1>1 DEF SoundFor, StatusIn, StatusOf
<1>3. private[id][k] # Absent <=> k \in DocumentsFor(From(tx[t].op))
  BY <1>1, <1>2 DEF IInv, InvoicesOK, InvoiceOK
<1>4. IInv'
  BY CommitIInv
<1>5. StatusIn(invoice'[id]) = To(tx[t].op)
  BY <1>1, CommitEffect, AbsentIsNoRecord DEF SoundFor, StatusIn, Transactions
<1>6. private'[id][k] # Absent <=> k \in DocumentsFor(To(tx[t].op))
  BY <1>1, <1>4, <1>5 DEF IInv, InvoicesOK, InvoiceOK
<1>7. private'[id][k] \in AmountDocs \cup {Absent}
  BY <1>1, <1>4 DEF IInv, TypeOK, DocsOf
<1>8. private[id][k] # Absent => private'[id][k] = private[id][k]
  BY <1>1 DEF SoundFor, Merged
<1> HIDE DEF id
<1>9. AmountIn(id, k)' = IF private'[id][k] = Absent THEN 0 ELSE private'[id][k].amount
  BY CommitEffect DEF AmountIn, id
<1> QED
  BY <1>3, <1>6, <1>7, <1>8, <1>9 DEF AmountIn, AmountDocs, id

\* What an operation does to the three amounts of an invoice.
AmountsStep(op, invoiced, requested, financed, invoicedNext, requestedNext, financedNext) ==
  /\ op = "CreateInvoice" =>
       /\ invoiced = 0 /\ requested = 0 /\ financed = 0
       /\ 0 < invoicedNext /\ requestedNext = 0 /\ financedNext = 0
       /\ invoicedNext \in Amounts
  /\ op \in {"ApproveInvoice", "RejectInvoice", "SettleInvoice"} =>
       invoicedNext = invoiced /\ requestedNext = requested /\ financedNext = financed
  /\ op = "RequestFinancing" =>
       /\ invoicedNext = invoiced /\ financedNext = financed
       /\ 0 < requestedNext /\ requestedNext <= invoiced /\ requestedNext \in Amounts
  /\ op = "FinanceInvoice" =>
       /\ invoicedNext = invoiced /\ requestedNext = requested
       /\ 0 < financedNext /\ financedNext <= requested /\ financedNext \in Amounts

\* Which amounts exist before the operation, and which after it.
LEMMA AmountsOfThePhases ==
  ASSUME NEW op \in Operations
  PROVE  /\ "commercialTerms" \in DocumentsFor(From(op)) <=> op # "CreateInvoice"
         /\ "commercialTerms" \in DocumentsFor(To(op))
         /\ "financingRequest" \in DocumentsFor(From(op))
              <=> op \in {"FinanceInvoice", "SettleInvoice"}
         /\ "financingRequest" \in DocumentsFor(To(op))
              <=> op \in {"RequestFinancing", "FinanceInvoice", "SettleInvoice"}
         /\ "financingAgreement" \in DocumentsFor(From(op)) <=> op = "SettleInvoice"
         /\ "financingAgreement" \in DocumentsFor(To(op))
              <=> op \in {"FinanceInvoice", "SettleInvoice"}
BY DEF Operations, From, To, DocumentsFor, InvoicePartiesKeys, PrivateKeys, AmountKeys,
       DetailKeys

\* Each operation fixes at most one of the amounts, within the one before it.
LEMMA CommitAmounts ==
  ASSUME IInv, NEW t \in Tx, Commit(t)
  PROVE  LET id == tx[t].id
             A(k) == AmountIn(id, k)
         IN AmountsStep(tx[t].op,
              A("commercialTerms"), A("financingRequest"), A("financingAgreement"),
              A("commercialTerms")', A("financingRequest")', A("financingAgreement")')
<1> DEFINE id == tx[t].id
           op == tx[t].op
           invoiced == AmountIn(id, "commercialTerms")
           requested == AmountIn(id, "financingRequest")
           financed == AmountIn(id, "financingAgreement")
           doc == private'[id]
<1>1. id \in Ids /\ op \in Operations
  BY CommitEffect DEF Transactions
<1>2. Chained(doc)
  BY <1>1, CommitIInv, CommitEffect DEF IInv, InvoicesOK, InvoiceOK
<1>3. /\ op # "CreateInvoice" => invoiced' = invoiced
      /\ op = "CreateInvoice" => invoiced = 0
      /\ doc["commercialTerms"] # Absent /\ invoiced' = doc["commercialTerms"].amount
      /\ invoiced' \in Amounts
  BY <1>1, AmountsAfterCommit, AmountsOfThePhases, AbsentIsNoDocument DEF AmountKeys
<1>4. /\ op \in {"FinanceInvoice", "SettleInvoice"} => requested' = requested
      /\ op \notin {"FinanceInvoice", "SettleInvoice"} => requested = 0
      /\ op \in {"RequestFinancing", "FinanceInvoice", "SettleInvoice"} =>
           /\ doc["financingRequest"] # Absent
           /\ requested' = doc["financingRequest"].amount
           /\ requested' \in Amounts
      /\ op \notin {"RequestFinancing", "FinanceInvoice", "SettleInvoice"} => requested' = 0
  BY <1>1, AmountsAfterCommit, AmountsOfThePhases, AbsentIsNoDocument DEF AmountKeys
<1>5. /\ op = "SettleInvoice" => financed' = financed
      /\ op # "SettleInvoice" => financed = 0
      /\ op \in {"FinanceInvoice", "SettleInvoice"} =>
           /\ doc["financingAgreement"] # Absent
           /\ financed' = doc["financingAgreement"].amount
           /\ financed' \in Amounts
      /\ op \notin {"FinanceInvoice", "SettleInvoice"} => financed' = 0
  BY <1>1, AmountsAfterCommit, AmountsOfThePhases, AbsentIsNoDocument DEF AmountKeys
<1> HIDE DEF id, op, invoiced, requested, financed, doc
<1>6. AmountsStep(op, invoiced, requested, financed, invoiced', requested', financed')
  BY <1>2, <1>3, <1>4, <1>5 DEF AmountsStep, Chained
<1> QED
  BY <1>6 DEF id, op, invoiced, requested, financed

\* One entry of the book, written out.
Entry(s, n, r, f) == [status |-> s, invoiced |-> n, requested |-> r, financed |-> f]

\* A commit is one atomic step of the lifecycle.
LEMMA CommitRefines ==
  ASSUME IInv, NEW t \in Tx, Commit(t)
  PROVE  Lifecycle!Next
<1> DEFINE id == tx[t].id
           op == tx[t].op
           invoiced == AmountIn(id, "commercialTerms")
           requested == AmountIn(id, "financingRequest")
           financed == AmountIn(id, "financingAgreement")
<1>1. id \in Ids /\ op \in Operations
  BY CommitEffect DEF Transactions
<1>2. StatusOf(id) = From(op) /\ StatusOf(id)' = To(op)
  BY CommitEffect, AbsentIsNoRecord DEF Sound, SoundFor, StatusOf, Transactions
<1>3. \A other \in Ids \ {id} : Book'[other] = Book[other]
  BY CommitEffect DEF Book, StatusOf, AmountIn
<1>4. Book[id] = Entry(From(op), invoiced, requested, financed)
  BY <1>1, <1>2 DEF Book, Entry
<1>5. Book'[id] = Entry(To(op), invoiced', requested', financed')
  BY <1>1, <1>2, CommitEffect DEF Book, Entry
<1> HIDE DEF id, op, invoiced, requested, financed
<1>8. Book' = [Book EXCEPT ![id] = Book'[id]]
  BY <1>1, <1>3 DEF Book
<1>9. AmountsStep(op, invoiced, requested, financed, invoiced', requested', financed')
  BY CommitAmounts DEF id, op, invoiced, requested, financed
<1>10. CASE op = "CreateInvoice"
  <2>0. Book[id] = Lifecycle!Blank
    BY <1>4, <1>9, <1>10 DEF Lifecycle!Blank, From, Entry, AmountsStep
  <2>1. [Book[id] EXCEPT !.status = "CREATED"]
          = Entry("CREATED", invoiced, requested, financed)
    BY <1>4 DEF Entry
  <2>2. Book'[id] = [[Book[id] EXCEPT !.status = "CREATED"] EXCEPT !.invoiced = invoiced']
    <3>1. Book'[id]
            = [Entry("CREATED", invoiced, requested, financed) EXCEPT !.invoiced = invoiced']
      BY <1>5, <1>9, <1>10 DEF To, AmountsStep, Entry
    <3> QED
      BY <2>1, <3>1
  <2>3. Book' = [Book EXCEPT ![id].status = "CREATED", ![id].invoiced = invoiced']
    BY <1>8, <2>2
  <2>4. Lifecycle!Create(id, invoiced')
    BY <1>9, <1>10, <2>0, <2>3 DEF Lifecycle!Create, AmountsStep
  <2> QED
    BY <1>1, <1>9, <1>10, <2>4 DEF Lifecycle!Next, AmountsStep
<1>11. CASE op = "ApproveInvoice"
  <2>1. [Book[id] EXCEPT !.status = "APPROVED"]
          = Entry("APPROVED", invoiced, requested, financed)
    BY <1>4 DEF Entry
  <2>2. Book'[id] = [Book[id] EXCEPT !.status = "APPROVED"]
    BY <1>5, <1>9, <1>11, <2>1 DEF To, AmountsStep
  <2>3. Book' = [Book EXCEPT ![id].status = "APPROVED"]
    BY <1>8, <2>2
  <2>4. Lifecycle!Approve(id)
    BY <1>4, <1>9, <1>11, <2>3 DEF Lifecycle!Approve, From, Entry
  <2> QED
    BY <1>1, <2>4 DEF Lifecycle!Next
<1>12. CASE op = "RejectInvoice"
  <2>1. [Book[id] EXCEPT !.status = "REJECTED"]
          = Entry("REJECTED", invoiced, requested, financed)
    BY <1>4 DEF Entry
  <2>2. Book'[id] = [Book[id] EXCEPT !.status = "REJECTED"]
    BY <1>5, <1>9, <1>12, <2>1 DEF To, AmountsStep
  <2>3. Book' = [Book EXCEPT ![id].status = "REJECTED"]
    BY <1>8, <2>2
  <2>4. Lifecycle!Reject(id)
    BY <1>4, <1>9, <1>12, <2>3 DEF Lifecycle!Reject, From, Entry
  <2> QED
    BY <1>1, <2>4 DEF Lifecycle!Next
<1>13. CASE op = "SettleInvoice"
  <2>1. [Book[id] EXCEPT !.status = "SETTLED"]
          = Entry("SETTLED", invoiced, requested, financed)
    BY <1>4 DEF Entry
  <2>2. Book'[id] = [Book[id] EXCEPT !.status = "SETTLED"]
    BY <1>5, <1>9, <1>13, <2>1 DEF To, AmountsStep
  <2>3. Book' = [Book EXCEPT ![id].status = "SETTLED"]
    BY <1>8, <2>2
  <2>4. Lifecycle!Settle(id)
    BY <1>4, <1>9, <1>13, <2>3 DEF Lifecycle!Settle, From, Entry
  <2> QED
    BY <1>1, <2>4 DEF Lifecycle!Next
<1>14. CASE op = "RequestFinancing"
  <2>1. [Book[id] EXCEPT !.status = "FINANCING_REQUESTED"]
          = Entry("FINANCING_REQUESTED", invoiced, requested, financed)
    BY <1>4 DEF Entry
  <2>2. Book'[id]
          = [[Book[id] EXCEPT !.status = "FINANCING_REQUESTED"] EXCEPT !.requested = requested']
    <3>1. Book'[id]
            = [Entry("FINANCING_REQUESTED", invoiced, requested, financed) EXCEPT !.requested = requested']
      BY <1>5, <1>9, <1>14 DEF To, AmountsStep, Entry
    <3> QED
      BY <2>1, <3>1
  <2>3. Book' = [Book EXCEPT ![id].status = "FINANCING_REQUESTED",
                             ![id].requested = requested']
    BY <1>8, <2>2
  <2>4. Lifecycle!Request(id, requested')
    BY <1>4, <1>9, <1>14, <2>3 DEF Lifecycle!Request, From, Entry, AmountsStep
  <2> QED
    BY <1>1, <1>9, <1>14, <2>4 DEF Lifecycle!Next, AmountsStep
<1>15. CASE op = "FinanceInvoice"
  <2>1. [Book[id] EXCEPT !.status = "FINANCED"]
          = Entry("FINANCED", invoiced, requested, financed)
    BY <1>4 DEF Entry
  <2>2. Book'[id] = [[Book[id] EXCEPT !.status = "FINANCED"] EXCEPT !.financed = financed']
    <3>1. Book'[id]
            = [Entry("FINANCED", invoiced, requested, financed) EXCEPT !.financed = financed']
      BY <1>5, <1>9, <1>15 DEF To, AmountsStep, Entry
    <3> QED
      BY <2>1, <3>1
  <2>3. Book' = [Book EXCEPT ![id].status = "FINANCED", ![id].financed = financed']
    BY <1>8, <2>2
  <2>4. Lifecycle!Finance(id, financed')
    BY <1>4, <1>9, <1>15, <2>3 DEF Lifecycle!Finance, From, Entry, AmountsStep
  <2> QED
    BY <1>1, <1>9, <1>15, <2>4 DEF Lifecycle!Next, AmountsStep
<1> QED
  BY <1>1, <1>10, <1>11, <1>12, <1>13, <1>14, <1>15 DEF Operations

(***************************************************************************)
(* Endorsements, blocks and validations implement the lifecycle with       *)
(* atomic steps: a commit is a step of it, everything else a stutter.      *)
(***************************************************************************)
THEOREM ImplementsTheLifecycle == Spec => ImplementsLifecycle
<1>1. IInv /\ [Next]_vars => [Lifecycle!Next]_Book
  <2> SUFFICES ASSUME IInv, [Next]_vars PROVE [Lifecycle!Next]_Book
    OBVIOUS
  <2>1. ASSUME NEW t \in Tx, Commit(t) PROVE Lifecycle!Next
    BY <2>1, CommitRefines
  <2>2. CASE UNCHANGED <<invoice, private, version, policy>>
    BY <2>2 DEF Book, StatusOf, AmountIn
  <2> QED
    BY <2>1, <2>2, OnlyCommitsChangeTheLedger
<1> QED
  BY <1>1, InitRefines, IInvariance, PTL DEF Spec, ImplementsLifecycle, Lifecycle!Spec

-----------------------------------------------------------------------------
(***************************************************************************)
(* The event log.  A transaction carries its own number from its           *)
(* endorsement on, so that the record it leaves names it, and it leaves    *)
(* one event, of the status that its function leads to.  The events of an  *)
(* invoice follow its lifecycle because the last one always tells the      *)
(* status that the next transaction to commit has started from.            *)
(***************************************************************************)
Numbered == \A t \in Tx : tx[t] # Absent => tx[t].invoice.lastTx = t

EventsAreOfTheValid ==
  /\ \A i \in 1..Len(events) :
       LET t == events[i].tx IN
       /\ phase[t] = "VALID" /\ tx[t].id = events[i].id
       /\ events[i].status = To(tx[t].op)
  /\ \A i, j \in 1..Len(events) : events[i].tx = events[j].tx => i = j

LogInv == IInv /\ Numbered /\ EventsAreOfTheValid /\ EventsTellTheState

LEMMA InitLogInv == Init => LogInv
BY InitIInv DEF Init, LogInv, Numbered, EventsAreOfTheValid, EventsTellTheState, History

LEMMA EventsAreTyped ==
  ASSUME TypeOK
  PROVE  \A i \in 1..Len(events) : events[i] \in Events /\ events[i].tx \in Tx
<1>1. \A i \in 1..Len(events) : events[i] \in Events
  BY DEF TypeOK
<1> QED
  BY <1>1 DEF Events

\* All that a proposal changes is its transaction, which gets its own number.
LEMMA ProposeLogInv ==
  ASSUME LogInv, NEW t \in Tx, Propose(t)
  PROVE  LogInv'
<1>1. IInv /\ IInv'
  BY NextIInv DEF LogInv, Next
<1>2. CanEndorse(t) /\ phase[t] = "idle"
  BY DEF Propose, CanEndorse
<1>3. /\ UNCHANGED <<invoice, events>>
      /\ tx'[t].invoice.lastTx = t
      /\ \A u \in Tx \ {t} : tx'[u] = tx[u] /\ phase'[u] = phase[u]
  BY <1>1, ProposeIsSound DEF LogInv, IInv, TypeOK, SoundProposal, Proposed, Endorse
<1>4. Numbered'
  BY <1>3 DEF LogInv, Numbered
<1>5. \A i \in 1..Len(events) : events[i].tx \in Tx
  BY <1>1, EventsAreTyped DEF IInv
<1>6. EventsAreOfTheValid'
  <2>1. \A i \in 1..Len(events) : events[i].tx # t
    BY <1>2 DEF LogInv, EventsAreOfTheValid
  <2> QED
    BY <1>3, <1>5, <2>1 DEF LogInv, EventsAreOfTheValid
<1>7. EventsTellTheState'
  BY <1>3 DEF LogInv, EventsTellTheState, History
<1> QED
  BY <1>1, <1>4, <1>6, <1>7 DEF LogInv

\* A commit appends the event of its transaction.
LEMMA CommitAppends ==
  ASSUME IInv, NEW t \in Tx, Commit(t)
  PROVE  LET n == Len(events) IN
         /\ n \in Nat /\ Len(events') = n + 1
         /\ \A i \in 1..n : events'[i] = events[i]
         /\ 1..Len(events') = 1..n \cup {n + 1}
         /\ events'[n + 1].tx = t /\ events'[n + 1].id = tx[t].id
         /\ events'[n + 1].name = EventName(tx[t].op)
         /\ events'[n + 1].status = tx[t].invoice.status
         /\ \A id \in Ids : History(id)' =
              IF id = tx[t].id THEN History(id) \cup {n + 1} ELSE History(id)
<1> DEFINE n == Len(events)
           e == [tx |-> t, id |-> tx[t].id, name |-> EventName(tx[t].op),
                 status |-> tx[t].invoice.status]
<1>1. events \in Seq(Events) /\ events' = Append(events, e) /\ tx[t].id \in Ids
  BY CommitEffect DEF IInv, TypeOK, Commit, Apply
<1>2. e.tx = t /\ e.id = tx[t].id /\ e.name = EventName(tx[t].op)
      /\ e.status = tx[t].invoice.status
  OBVIOUS
<1> HIDE DEF e
<1>3. /\ n \in Nat /\ Len(events') = n + 1 /\ events'[n + 1] = e
      /\ \A i \in 1..n : events'[i] = events[i]
  BY <1>1
<1>4. 1..Len(events') = 1..n \cup {n + 1}
  BY <1>3
<1> HIDE DEF n
<1>5. \A id \in Ids : History(id)' =
        IF id = tx[t].id THEN History(id) \cup {n + 1} ELSE History(id)
  BY <1>2, <1>3, <1>4 DEF History, n
<1> QED
  BY <1>2, <1>3, <1>4, <1>5 DEF n

\* What an operation is called and where it leads are edges of the lifecycle.
LEMMA EventsOfTheEdges ==
  ASSUME NEW op \in Operations
  PROVE  /\ From(op) = "NONE" <=> op = "CreateInvoice"
         /\ op = "CreateInvoice" => EventName(op) = "InvoiceCreated" /\ To(op) = "CREATED"
         /\ op # "CreateInvoice" => <<From(op), To(op)>> \in Edges
BY DEF Operations, From, To, EventName, Edges

\* The body of EventsTellTheState, for a record, a log, and the places at which
\* that has the events of the invoice.
LogTells(record, log, places) ==
  /\ record = Absent => places = {}
  /\ record # Absent =>
       \E i \in places : /\ \A j \in places : j <= i
                         /\ log[i].status = record.status
                         /\ log[i].tx = record.lastTx
  /\ \A i \in places :
       \/ /\ \A j \in places : i <= j
          /\ log[i].name = "InvoiceCreated" /\ log[i].status = "CREATED"
       \/ \E j \in places :
            /\ j < i /\ \A k \in places : k <= j \/ i <= k
            /\ <<log[j].status, log[i].status>> \in Edges

\* The event follows the one that told the status it started from.
LEMMA CommitLogInv ==
  ASSUME LogInv, NEW t \in Tx, Commit(t)
  PROVE  LogInv'
<1> DEFINE n == Len(events)
           own == tx[t].id
           op == tx[t].op
<1>1. IInv /\ IInv'
  BY CommitIInv DEF LogInv
<1>2. /\ own \in Ids /\ op \in Operations /\ tx[t].invoice \in Invoices(Tx)
      /\ tx[t].invoice # Absent /\ tx[t] # Absent /\ tx[t].invoice.lastTx = t
      /\ StatusOf(own) = From(op) /\ tx[t].invoice.status = To(op)
  <2>1. tx[t] \in Transactions /\ Sound(t) /\ tx[t] # Absent
    BY <1>1, CommitEffect, AbsentIsNoRecord
  <2> QED
    BY <2>1, AbsentIsNoRecord DEF LogInv, Numbered, Sound, SoundFor, Transactions
<1>3. Numbered'
  BY CommitEffect DEF LogInv, Numbered
<1>4. \A i \in 1..n : events[i].tx \in Tx /\ events[i] \in Events
  BY <1>1, EventsAreTyped DEF IInv
<1>5. \A i \in 1..n : events[i].tx # t
  BY <1>1, CommitEffect DEF LogInv, EventsAreOfTheValid
<1>6. EventsAreOfTheValid'
  <2>1. \A i \in 1..Len(events') :
          /\ phase'[events'[i].tx] = "VALID"
          /\ tx'[events'[i].tx].id = events'[i].id
          /\ events'[i].status = To(tx'[events'[i].tx].op)
    BY <1>1, <1>2, <1>4, <1>5, CommitAppends, CommitEffect DEF LogInv, EventsAreOfTheValid
  <2>2. \A i, j \in 1..Len(events') : events'[i].tx = events'[j].tx => i = j
    BY <1>1, <1>5, CommitAppends DEF LogInv, EventsAreOfTheValid
  <2> QED
    BY <2>1, <2>2 DEF EventsAreOfTheValid
<1>7. \A id \in Ids : LogTells(invoice[id], events, History(id))
  BY DEF LogInv, EventsTellTheState, LogTells
<1>8. ASSUME NEW id \in Ids, id # own PROVE LogTells(invoice'[id], events', History(id)')
  <2>1. /\ History(id)' = History(id) /\ invoice'[id] = invoice[id]
        /\ \A i \in History(id) : events'[i] = events[i]
    BY <1>1, <1>8, CommitAppends, CommitEffect DEF History
  <2> QED
    BY <1>7, <1>8, <2>1 DEF LogTells
<1>9. ASSUME NEW id \in Ids, id = own PROVE LogTells(invoice'[id], events', History(id)')
  <2> DEFINE places == History(own)
  <2>1. /\ n \in Nat /\ places \subseteq 1..n
        /\ History(id)' = places \cup {n + 1}
        /\ \A i \in places : events'[i] = events[i]
        /\ events'[n + 1].tx = t /\ events'[n + 1].status = To(op)
        /\ events'[n + 1].name = EventName(op)
        /\ invoice'[own] = tx[t].invoice
    BY <1>1, <1>2, <1>9, CommitAppends, CommitEffect DEF History
  <2>2. LogTells(invoice[own], events, places)
    BY <1>2, <1>7
  <2> HIDE DEF n, own, op, places
  <2>0. (\A j \in places \cup {n + 1} : j <= n + 1) /\ \A j \in places : j < n + 1
    <3>1. \A j \in places : j \in 1..n
      BY <2>1
    <3> QED
      BY <2>1, <3>1
  <2>3. \E i \in places \cup {n + 1} :
          /\ \A j \in places \cup {n + 1} : j <= i
          /\ events'[i].status = invoice'[own].status
          /\ events'[i].tx = invoice'[own].lastTx
    <3>1. /\ events'[n + 1].status = invoice'[own].status
          /\ events'[n + 1].tx = invoice'[own].lastTx
      BY <1>2, <2>1
    <3> QED
      BY <2>0, <3>1
  <2>4. \A i \in places :
          \/ /\ \A j \in places \cup {n + 1} : i <= j
             /\ events'[i].name = "InvoiceCreated" /\ events'[i].status = "CREATED"
          \/ \E j \in places \cup {n + 1} :
               /\ j < i /\ \A k \in places \cup {n + 1} : k <= j \/ i <= k
               /\ <<events'[j].status, events'[i].status>> \in Edges
    <3> SUFFICES ASSUME NEW i \in places
                 PROVE  \/ /\ \A j \in places \cup {n + 1} : i <= j
                           /\ events'[i].name = "InvoiceCreated"
                           /\ events'[i].status = "CREATED"
                        \/ \E j \in places \cup {n + 1} :
                             /\ j < i /\ \A k \in places \cup {n + 1} : k <= j \/ i <= k
                             /\ <<events'[j].status, events'[i].status>> \in Edges
      OBVIOUS
    <3>1. i \in 1..n /\ i <= n + 1 /\ events'[i] = events[i]
      BY <2>1
    <3>2. CASE /\ \A j \in places : i <= j
               /\ events[i].name = "InvoiceCreated" /\ events[i].status = "CREATED"
      BY <2>1, <3>1, <3>2
    <3>3. ASSUME NEW j \in places, j < i, \A k \in places : k <= j \/ i <= k,
                 <<events[j].status, events[i].status>> \in Edges
          PROVE  \E h \in places \cup {n + 1} :
                   /\ h < i /\ \A k \in places \cup {n + 1} : k <= h \/ i <= k
                   /\ <<events'[h].status, events'[i].status>> \in Edges
      BY <2>1, <3>1, <3>3
    <3> QED
      BY <2>2, <3>2, <3>3 DEF LogTells
  <2>5. ASSUME op = "CreateInvoice"
        PROVE  LogTells(invoice'[own], events', places \cup {n + 1})
    <3>1. invoice[own] = Absent
      <4>1. StatusOf(own) = "NONE"
        BY <1>2, <2>5, EventsOfTheEdges
      <4>2. invoice[own] \in Invoices(Tx) \cup {Absent}
        BY <1>1, <1>2 DEF IInv, TypeOK
      <4> QED
        BY <4>1, <4>2 DEF StatusOf, Invoices, Statuses
    <3>2. places = {}
      BY <2>2, <3>1 DEF LogTells
    <3>3. events'[n + 1].name = "InvoiceCreated" /\ events'[n + 1].status = "CREATED"
      BY <1>2, <2>1, <2>5, EventsOfTheEdges
    <3> QED
      BY <1>2, <2>1, <2>3, <3>2, <3>3 DEF LogTells
  <2>6. ASSUME op # "CreateInvoice"
        PROVE  LogTells(invoice'[own], events', places \cup {n + 1})
    <3>1. invoice[own] # Absent /\ invoice[own].status = From(op)
      BY <1>2, <2>6, EventsOfTheEdges DEF StatusOf
    <3>2. PICK j \in places : /\ \A k \in places : k <= j
                              /\ events[j].status = invoice[own].status
      BY <2>2, <3>1 DEF LogTells
    <3>3. /\ j < n + 1 /\ \A k \in places \cup {n + 1} : k <= j \/ n + 1 <= k
          /\ <<events'[j].status, events'[n + 1].status>> \in Edges
      <4>1. <<From(op), To(op)>> \in Edges
        BY <1>2, <2>6, EventsOfTheEdges
      <4>2. events'[j].status = From(op) /\ events'[n + 1].status = To(op)
        BY <2>1, <3>1, <3>2
      <4>3. \A k \in places \cup {n + 1} : k <= j \/ n + 1 <= k
        BY <2>1, <3>2
      <4> QED
        BY <2>0, <4>1, <4>2, <4>3
    <3>4. \A i \in places \cup {n + 1} :
            \/ /\ \A k \in places \cup {n + 1} : i <= k
               /\ events'[i].name = "InvoiceCreated" /\ events'[i].status = "CREATED"
            \/ \E h \in places \cup {n + 1} :
                 /\ h < i /\ \A k \in places \cup {n + 1} : k <= h \/ i <= k
                 /\ <<events'[h].status, events'[i].status>> \in Edges
      BY <2>4, <3>2, <3>3
    <3> QED
      BY <1>2, <2>1, <2>3, <3>4 DEF LogTells
  <2> QED
    BY <1>9, <2>1, <2>5, <2>6
<1>10. EventsTellTheState'
  <2>1. \A id \in Ids : LogTells(invoice'[id], events', History(id)')
    BY <1>8, <1>9
  <2> QED
    BY <2>1 DEF EventsTellTheState, LogTells
<1> QED
  BY <1>1, <1>3, <1>6, <1>10 DEF LogInv

LEMMA NextLogInv == LogInv /\ [Next]_vars => LogInv'
<1> SUFFICES ASSUME LogInv, [Next]_vars PROVE LogInv'
  OBVIOUS
<1>1. IInv /\ IInv'
  BY NextIInv DEF LogInv
<1>2. CASE UNCHANGED <<invoice, tx, phase, events>>
  BY <1>1, <1>2 DEF LogInv, Numbered, EventsAreOfTheValid, EventsTellTheState, History
<1>3. ASSUME NEW t \in Tx, Propose(t) PROVE LogInv'
  BY <1>3, ProposeLogInv
<1>4. ASSUME NEW b \in SUBSET Tx, CutBlock(b) PROVE LogInv'
  BY <1>2, <1>4 DEF CutBlock
<1>5. ASSUME NEW t \in Tx, FailEndorsement(t) \/ FailMVCC(t) PROVE LogInv'
  <2>1. /\ UNCHANGED <<invoice, tx, events>> /\ phase[t] = "endorsed"
        /\ \A u \in Tx \ {t} : phase'[u] = phase[u]
    BY <1>1, <1>5 DEF FailEndorsement, FailMVCC, IInv, TypeOK
  <2>2. \A i \in 1..Len(events) : events[i].tx \in Tx /\ events[i].tx # t
    BY <1>1, <2>1, EventsAreTyped DEF LogInv, EventsAreOfTheValid, IInv
  <2>3. EventsAreOfTheValid'
    BY <2>1, <2>2 DEF LogInv, EventsAreOfTheValid
  <2> QED
    BY <1>1, <2>1, <2>3 DEF LogInv, Numbered, EventsTellTheState, History
<1>6. ASSUME NEW t \in Tx, Commit(t) PROVE LogInv'
  BY <1>6, CommitLogInv
<1>7. CASE UNCHANGED vars
  BY <1>2, <1>7 DEF vars
<1> QED
  BY <1>3, <1>4, <1>5, <1>6, <1>7 DEF Next, Validate

THEOREM LogInvariance == Spec => []LogInv
BY InitLogInv, NextLogInv, PTL DEF Spec

(***************************************************************************)
(* The chaincode events of an invoice, in commit order, follow its         *)
(* lifecycle edge by edge from the creation, and the newest one names the  *)
(* status and the transaction of its public record.                        *)
(***************************************************************************)
THEOREM TheLogTellsTheState == Spec => []EventsTellTheState
<1>1. LogInv => EventsTellTheState
  BY DEF LogInv
<1> QED
  BY <1>1, LogInvariance, PTL

-----------------------------------------------------------------------------
(***************************************************************************)
(* Nobody is stuck.  NeverStuck itself speaks of ENABLED, which the proof  *)
(* system does not handle.  What makes it true is said here without: there *)
(* is a transaction, built from what the ledger holds, whose endorsement   *)
(* is a step of Propose.  That needs the documents in the collections to   *)
(* be ones the next function accepts when they are handed in once more.    *)
(***************************************************************************)
MadeByTheParties(record) == record.supplier = "SupplierMSP" /\ record.buyer = "BuyerMSP"

MadeFor(id, docs) ==
  \A k \in PrivateKeys : docs[k] # Absent => docs[k].id = id /\ docs[k].text \in WellFormed

WellMade ==
  /\ \A id \in Ids : /\ invoice[id] # Absent => MadeByTheParties(invoice[id])
                     /\ MadeFor(id, private[id])
  /\ \A t \in Tx : tx[t] # Absent =>
       MadeByTheParties(tx[t].invoice) /\ MadeFor(tx[t].id, tx[t].writes)

WInv == IInv /\ WellMade

LEMMA InitWInv == Init => WInv
BY InitIInv DEF Init, WInv, WellMade, MadeFor, PrivateKeys

\* Every document a function writes was validated against the id it is for, and
\* the record keeps the parties of its creation.
LEMMA ProposeIsWellMade ==
  ASSUME WInv, NEW t \in Tx, Propose(t)
  PROVE  \E op \in Operations, id \in Ids, caller \in MSPs : \E record, writes :
           /\ Endorse(t, caller, op, id, record, writes)
           /\ MadeByTheParties(record) /\ MadeFor(id, writes)
<1>1. TypeOK /\ WellMade
  BY DEF WInv, IInv
<1>2. \A id \in Ids : MadeFor(id, NoWrites)
  BY DEF MadeFor, NoWrites
<1>3. PICK caller \in MSPs, raw \in RawIds :
        \/ \E buyer \in MSPs, hash \in Texts, ct \in AmountDocs, pd \in DetailDocs :
              CreateInvoice(t, caller, raw, buyer, hash, ct, pd)
        \/ ApproveInvoice(t, caller, raw)
        \/ RejectInvoice(t, caller, raw)
        \/ \E disclosure, fr \in AmountDocs, dd \in DetailDocs :
              RequestFinancing(t, caller, raw, disclosure, fr, dd)
        \/ \E fa \in AmountDocs : FinanceInvoice(t, caller, raw, fa)
        \/ SettleInvoice(t, caller, raw)
  BY DEF Propose
<1> DEFINE id == Canonical[raw]
<1>4. id \in Ids /\ (invoice[id] # Absent => invoice[id] \in Invoices(Tx))
  <2>1. ValidInvoiceID(raw)
    BY <1>3 DEF CreateInvoice, ApproveInvoice, RejectInvoice, RequestFinancing,
                FinanceInvoice, SettleInvoice
  <2> QED
    BY <1>1, <2>1, CanonicalIsId DEF TypeOK
<1>5. ASSUME NEW buyer \in MSPs, NEW hash \in Texts, NEW ct \in AmountDocs,
             NEW pd \in DetailDocs, CreateInvoice(t, caller, raw, buyer, hash, ct, pd)
      PROVE  \E record, writes :
               /\ Endorse(t, caller, "CreateInvoice", id, record, writes)
               /\ MadeByTheParties(record) /\ MadeFor(id, writes)
  <2> DEFINE writes == [NoWrites EXCEPT !["commercialTerms"] = ct, !["paymentDetails"] = pd]
  <2>1. MadeFor(id, writes)
    BY <1>5 DEF CreateInvoice, MadeFor, NoWrites, ValidCommercialTerms, ValidDetails
  <2> HIDE DEF writes
  <2> QED
    BY <1>5, <2>1 DEF CreateInvoice, RequireMSP, MadeByTheParties, writes
<1>6. ASSUME NEW disclosure \in AmountDocs, NEW fr \in AmountDocs, NEW dd \in DetailDocs,
             RequestFinancing(t, caller, raw, disclosure, fr, dd)
      PROVE  \E record, writes :
               /\ Endorse(t, caller, "RequestFinancing", id, record, writes)
               /\ MadeByTheParties(record) /\ MadeFor(id, writes)
  <2> DEFINE record == [invoice[id] EXCEPT !.status = "FINANCING_REQUESTED", !.lastTx = t]
             writes == [NoWrites EXCEPT !["disclosure"] = disclosure,
                                        !["financingRequest"] = fr,
                                        !["disbursementDetails"] = dd]
  <2>1. MadeFor(id, writes)
    BY <1>6 DEF RequestFinancing, MadeFor, NoWrites, ValidCommercialTerms,
                ValidFinancingRequest, ValidDetails
  <2>2. MadeByTheParties(record)
    BY <1>1, <1>4, <1>6 DEF RequestFinancing, WellMade, MadeByTheParties, Invoices
  <2>3. Endorse(t, caller, "RequestFinancing", id, record, writes)
    BY <1>6 DEF RequestFinancing
  <2> HIDE DEF record, writes
  <2> QED
    BY <2>1, <2>2, <2>3
<1>7. ASSUME NEW fa \in AmountDocs, FinanceInvoice(t, caller, raw, fa)
      PROVE  \E record, writes :
               /\ Endorse(t, caller, "FinanceInvoice", id, record, writes)
               /\ MadeByTheParties(record) /\ MadeFor(id, writes)
  <2> DEFINE record == [invoice[id] EXCEPT !.status = "FINANCED", !.financed = TRUE,
                                           !.financier = caller, !.lastTx = t]
             writes == [NoWrites EXCEPT !["financingAgreement"] = fa]
  <2>1. MadeFor(id, writes)
    BY <1>7 DEF FinanceInvoice, MadeFor, NoWrites, ValidFinancingAgreement
  <2>2. MadeByTheParties(record)
    BY <1>1, <1>4, <1>7 DEF FinanceInvoice, WellMade, MadeByTheParties, Invoices
  <2>3. Endorse(t, caller, "FinanceInvoice", id, record, writes)
    BY <1>7 DEF FinanceInvoice
  <2> HIDE DEF record, writes
  <2> QED
    BY <2>1, <2>2, <2>3
<1>8. \A status \in Statuses :
        invoice[id] # Absent =>
          MadeByTheParties([invoice[id] EXCEPT !.status = status, !.lastTx = t])
  BY <1>1, <1>4 DEF WellMade, MadeByTheParties, Invoices
<1>9. ASSUME ApproveInvoice(t, caller, raw) \/ RejectInvoice(t, caller, raw)
               \/ SettleInvoice(t, caller, raw)
      PROVE  \E op \in Operations : \E record :
               Endorse(t, caller, op, id, record, NoWrites) /\ MadeByTheParties(record)
  BY <1>8, <1>9
     DEF ApproveInvoice, RejectInvoice, SettleInvoice, Operations, Statuses
<1> HIDE DEF id
<1> QED
  BY <1>2, <1>3, <1>4, <1>5, <1>6, <1>7, <1>9 DEF Operations

LEMMA NextWInv == WInv /\ [Next]_vars => WInv'
<1> SUFFICES ASSUME WInv, [Next]_vars PROVE WInv'
  OBVIOUS
<1>1. IInv /\ IInv' /\ WellMade
  BY NextIInv DEF WInv
<1>2. ASSUME NEW t \in Tx, Propose(t) PROVE WellMade'
  <2>1. PICK op \in Operations, id \in Ids, caller \in MSPs : \E record, writes :
          /\ Endorse(t, caller, op, id, record, writes)
          /\ MadeByTheParties(record) /\ MadeFor(id, writes)
    BY <1>2, ProposeIsWellMade
  <2>2. PICK record, writes :
          /\ Endorse(t, caller, op, id, record, writes)
          /\ MadeByTheParties(record) /\ MadeFor(id, writes)
    BY <2>1
  <2>3. /\ UNCHANGED <<invoice, private>>
        /\ tx'[t].invoice = record /\ tx'[t].id = id /\ tx'[t].writes = writes
        /\ \A u \in Tx \ {t} : tx'[u] = tx[u]
    BY <1>1, <2>2 DEF Endorse, IInv, TypeOK
  <2> QED
    BY <1>1, <2>2, <2>3 DEF WellMade
<1>3. ASSUME NEW t \in Tx, Commit(t) PROVE WellMade'
  <2>1. /\ tx' = tx /\ tx[t] # Absent
        /\ invoice'[tx[t].id] = tx[t].invoice
        /\ private'[tx[t].id] = Merged(private[tx[t].id], tx[t].writes)
        /\ \A id \in Ids \ {tx[t].id} : UNCHANGED <<invoice[id], private[id]>>
    BY <1>1, <1>3, CommitEffect, AbsentIsNoRecord
  <2>2. \A id \in Ids : MadeFor(id, private[id]) /\ (id = tx[t].id => MadeFor(id, tx[t].writes))
    BY <1>1, <2>1 DEF WellMade
  <2>3. \A id \in Ids : MadeFor(id, private'[id])
    BY <2>1, <2>2 DEF MadeFor, Merged
  <2> QED
    BY <1>1, <2>1, <2>3 DEF WellMade
<1>4. ASSUME NEW b \in SUBSET Tx, CutBlock(b) PROVE WellMade'
  BY <1>1, <1>4 DEF CutBlock, WellMade
<1>5. ASSUME NEW t \in Tx, FailEndorsement(t) \/ FailMVCC(t) PROVE WellMade'
  BY <1>1, <1>5 DEF FailEndorsement, FailMVCC, WellMade
<1>6. ASSUME UNCHANGED vars PROVE WellMade'
  <2>1. invoice' = invoice /\ private' = private /\ tx' = tx
    BY <1>6 DEF vars
  <2> QED
    BY <1>1, <2>1 DEF WellMade
<1>7. WellMade'
  BY <1>2, <1>3, <1>4, <1>5, <1>6 DEF Next, Validate
<1> QED
  BY <1>1, <1>7 DEF WInv

(***************************************************************************)
(* Whatever a client submitted, the collections hold documents of the      *)
(* invoice they are filed under, in the form the validators accept, and    *)
(* the record names the organizations that it was created by and for.      *)
(***************************************************************************)
THEOREM WellMadeInvariance == Spec => []WInv
BY InitWInv, NextWInv, PTL DEF Spec

-----------------------------------------------------------------------------
\* The function that takes an invoice on from a status, and who may call it.
OpFrom(status) ==
  CASE status = "NONE"                -> "CreateInvoice"
    [] status = "CREATED"             -> "ApproveInvoice"
    [] status = "APPROVED"            -> "RequestFinancing"
    [] status = "FINANCING_REQUESTED" -> "FinanceInvoice"
    [] status = "FINANCED"            -> "SettleInvoice"

CallerOn(op) ==
  CASE op \in {"CreateInvoice", "RequestFinancing"} -> "SupplierMSP"
    [] op \in {"ApproveInvoice", "SettleInvoice"}   -> "BuyerMSP"
    [] op = "FinanceInvoice"                        -> "FinanceMSP"

\* The supplier asks for all of what was approved, the financier agrees to all of
\* what was asked for; only the creation needs an amount and a text from outside.
WritesOn(op, id, amount, text) ==
  LET doc == private[id] IN
  CASE op = "CreateInvoice" ->
         [NoWrites EXCEPT !["commercialTerms"] = [id |-> id, amount |-> amount, text |-> text],
                          !["paymentDetails"] = [id |-> id, text |-> text]]
    [] op = "RequestFinancing" ->
         [NoWrites EXCEPT !["disclosure"] = doc["commercialTerms"],
                          !["financingRequest"] = doc["commercialTerms"],
                          !["disbursementDetails"] = doc["paymentDetails"]]
    [] op = "FinanceInvoice" ->
         [NoWrites EXCEPT !["financingAgreement"] = doc["financingRequest"]]
    [] OTHER -> NoWrites

RecordOn(op, t, id, text) ==
  CASE op = "CreateInvoice" ->
         [supplier |-> "SupplierMSP", buyer |-> "BuyerMSP", documentHash |-> text,
          status |-> "CREATED", financed |-> FALSE, financier |-> "none", lastTx |-> t]
    [] op = "FinanceInvoice" ->
         [invoice[id] EXCEPT !.status = "FINANCED", !.financed = TRUE,
                             !.financier = "FinanceMSP", !.lastTx = t]
    [] OTHER -> [invoice[id] EXCEPT !.status = To(op), !.lastTx = t]

\* The transaction that takes the invoice on.
WayOn(t, id, amount, text) ==
  LET op     == OpFrom(StatusOf(id))
      writes == WritesOn(op, id, amount, text)
  IN [op |-> op, id |-> id, invoice |-> RecordOn(op, t, id, text), writes |-> writes,
      seen |-> version[id], endorsers |-> RequiredEndorsers(id, writes)]

\* Everything Endorse asks of it: the caller is a member of the collections it
\* touches, and whoever must endorse can simulate the function.
LEMMA TheWayOnIsEndorsed ==
  ASSUME WInv, NEW t \in Tx, NEW id \in Ids, NEW amount \in Amounts, NEW text \in WellFormed,
         StatusOf(id) \notin Terminal,
         tx' = [tx EXCEPT ![t] = WayOn(t, id, amount, text)],
         phase' = [phase EXCEPT ![t] = "endorsed"],
         UNCHANGED <<invoice, private, version, policy, block, rotated, events>>
  PROVE  LET op == OpFrom(StatusOf(id)) IN
         Endorse(t, CallerOn(op), op, id, RecordOn(op, t, id, text),
                 WritesOn(op, id, amount, text))
<1> DEFINE op == OpFrom(StatusOf(id))
           writes == WritesOn(op, id, amount, text)
<1>1. StatusOf(id) \in {"NONE", "CREATED", "APPROVED", "FINANCING_REQUESTED", "FINANCED"}
  BY DEF WInv, IInv, TypeOK, StatusOf, Invoices, Statuses, Terminal
<1>2. policy[id] = PolicyFor(StatusOf(id))
  BY DEF WInv, IInv, InvoicesOK, InvoiceOK, StatusIn, StatusOf
<1>3. Written(writes) \subseteq
        CASE op = "CreateInvoice"    -> InvoicePartiesKeys
          [] op = "RequestFinancing" -> {"disclosure", "financingRequest", "disbursementDetails"}
          [] op = "FinanceInvoice"   -> {"financingAgreement"}
          [] OTHER                   -> {}
  BY <1>1 DEF WritesOn, OpFrom, Written, NoWrites, InvoicePartiesKeys
<1> HIDE DEF writes
<1>4. \A k \in PrivateReads(op) \cup Written(writes) : CallerOn(op) \in CollectionMembers(k)
  BY <1>1, <1>3 DEF OpFrom, CallerOn, PrivateReads, CollectionMembers, InvoicePartiesKeys
<1>5. RequiredEndorsers(id, writes) \subseteq Simulators(op)
  BY <1>1, <1>2, <1>3
     DEF RequiredEndorsers, Simulators, MSPs, PolicyFor, OpFrom, PrivateReads,
         CollectionMembers, InvoicePartiesKeys
<1> QED
  BY <1>4, <1>5 DEF Endorse, WayOn, writes

(***************************************************************************)
(* From every state that an invoice can be in, its end excepted, there is  *)
(* a way on: with the ledger free, the step that endorses this transaction *)
(* and changes nothing else is one that Propose allows.  It needs no more  *)
(* of the constants than a positive amount and a well-formed text.         *)
(***************************************************************************)
THEOREM ThereIsAWayOn ==
  ASSUME WInv, NEW t \in Tx, NEW id \in Ids, CanEndorse(t), StatusOf(id) \notin Terminal,
         NEW amount \in Amounts, amount > 0, NEW text \in WellFormed,
         tx' = [tx EXCEPT ![t] = WayOn(t, id, amount, text)],
         phase' = [phase EXCEPT ![t] = "endorsed"],
         UNCHANGED <<invoice, private, version, policy, block, rotated, events>>
  PROVE  Propose(t) /\ tx'[t].id = id
<1> DEFINE op == OpFrom(StatusOf(id))
           doc == private[id]
<1>1. IInv /\ TypeOK /\ WellMade
  BY DEF WInv, IInv
<1>2. Endorse(t, CallerOn(op), op, id, RecordOn(op, t, id, text),
              WritesOn(op, id, amount, text))
  BY TheWayOnIsEndorsed
<1>3. /\ id \in RawIds /\ Canonical[id] = id /\ ValidInvoiceID(id) /\ text \in Texts
      /\ Amounts \subseteq Int
  BY IdsAreCanonical, ContractAssumption DEF ContractAssumption
<1>4. /\ \A k \in PrivateKeys : doc[k] # Absent <=> k \in DocumentsFor(StatusOf(id))
      /\ Chained(doc)
      /\ invoice[id] # Absent =>
           /\ invoice[id].financed <=> invoice[id].status \in {"FINANCED", "SETTLED"}
           /\ MadeByTheParties(invoice[id])
      /\ MadeFor(id, doc)
  BY <1>1 DEF IInv, InvoicesOK, InvoiceOK, StatusIn, StatusOf, WellMade
<1>5. \A k \in PrivateKeys : doc[k] \in DocsOf(k) \cup {Absent}
  BY <1>1 DEF TypeOK
<1>6. tx'[t].id = id
  BY <1>1 DEF TypeOK, WayOn
<1>7. CASE StatusOf(id) = "NONE"
  <2> DEFINE ct == [id |-> id, amount |-> amount, text |-> text]
             pd == [id |-> id, text |-> text]
  <2>1. ct \in AmountDocs /\ pd \in DetailDocs
    BY <1>3 DEF AmountDocs, DetailDocs
  <2>2. invoice[id] = Absent
    BY <1>1, <1>7 DEF StatusOf, TypeOK, Invoices, Statuses
  <2>3. CreateInvoice(t, "SupplierMSP", id, "BuyerMSP", text, ct, pd)
    BY <1>2, <1>3, <1>7, <2>2
       DEF CreateInvoice, OpFrom, CallerOn, RecordOn, WritesOn, RequireMSP,
           ValidCommercialTerms, ValidDetails
  <2> QED
    BY <1>3, <1>6, <2>1, <2>3 DEF Propose, MSPs
<1>8. CASE StatusOf(id) = "CREATED"
  <2>1. invoice[id] # Absent /\ invoice[id].status = "CREATED"
    BY <1>8 DEF StatusOf
  <2>2. doc["commercialTerms"] # Absent
    BY <1>4, <1>8 DEF DocumentsFor, InvoicePartiesKeys, PrivateKeys, AmountKeys
  <2>3. ApproveInvoice(t, "BuyerMSP", id)
    BY <1>2, <1>3, <1>4, <1>8, <2>1, <2>2
       DEF ApproveInvoice, OpFrom, CallerOn, RecordOn, WritesOn, To, RequireMSP,
           RequireInvoiceBuyer, MadeByTheParties
  <2> QED
    BY <1>3, <1>6, <2>3 DEF Propose, MSPs
<1>9. CASE StatusOf(id) = "APPROVED"
  <2>1. invoice[id] # Absent /\ invoice[id].status = "APPROVED"
    BY <1>9 DEF StatusOf
  <2>2. /\ doc["commercialTerms"] # Absent /\ doc["paymentDetails"] # Absent
        /\ doc["financingAgreement"] = Absent /\ doc["financingRequest"] = Absent
    BY <1>4, <1>9 DEF DocumentsFor, InvoicePartiesKeys, PrivateKeys, AmountKeys, DetailKeys
  <2>3. /\ doc["commercialTerms"] \in AmountDocs /\ doc["paymentDetails"] \in DetailDocs
        /\ doc["commercialTerms"].amount \in Int
    BY <1>3, <1>5, <2>2 DEF DocsOf, PrivateKeys, AmountKeys, DetailKeys, AmountDocs
  <2>4. /\ ValidCommercialTerms(doc["commercialTerms"], id)
        /\ ValidFinancingRequest(doc["commercialTerms"], id, doc["commercialTerms"].amount)
        /\ ValidDetails(doc["paymentDetails"], id)
    BY <1>4, <2>2, <2>3
       DEF Chained, MadeFor, PrivateKeys, AmountKeys, DetailKeys, ValidCommercialTerms,
           ValidFinancingRequest, ValidDetails
  <2>5. RequestFinancing(t, "SupplierMSP", id, doc["commercialTerms"],
                         doc["commercialTerms"], doc["paymentDetails"])
    BY <1>2, <1>3, <1>4, <1>9, <2>1, <2>2, <2>4
       DEF RequestFinancing, OpFrom, CallerOn, RecordOn, WritesOn, To, RequireMSP,
           RequireInvoiceSupplier, MadeByTheParties
  <2> QED
    BY <1>3, <1>6, <2>3, <2>5 DEF Propose, MSPs
<1>10. CASE StatusOf(id) = "FINANCING_REQUESTED"
  <2>1. invoice[id] # Absent /\ invoice[id].status = "FINANCING_REQUESTED"
    BY <1>10 DEF StatusOf
  <2>2. /\ doc["financingAgreement"] = Absent /\ doc["disclosure"] # Absent
        /\ doc["financingRequest"] # Absent /\ doc["commercialTerms"] # Absent
    BY <1>4, <1>10 DEF DocumentsFor, PrivateKeys, AmountKeys, DetailKeys
  <2>3. doc["financingRequest"] \in AmountDocs /\ doc["financingRequest"].amount \in Int
    BY <1>3, <1>5, <2>2 DEF DocsOf, PrivateKeys, AmountKeys, AmountDocs
  <2>4. ValidFinancingAgreement(doc["financingRequest"], id, doc["disclosure"].amount,
                                doc["financingRequest"].amount)
    BY <1>4, <2>2, <2>3
       DEF Chained, MadeFor, PrivateKeys, AmountKeys, ValidFinancingAgreement
  <2>5. FinanceInvoice(t, "FinanceMSP", id, doc["financingRequest"])
    BY <1>2, <1>3, <1>4, <1>10, <2>1, <2>2, <2>4
       DEF FinanceInvoice, OpFrom, CallerOn, RecordOn, WritesOn, RequireMSP
  <2> QED
    BY <1>3, <1>6, <2>3, <2>5 DEF Propose, MSPs
<1>11. CASE StatusOf(id) = "FINANCED"
  <2>1. invoice[id] # Absent /\ invoice[id].status = "FINANCED"
    BY <1>11 DEF StatusOf
  <2>2. SettleInvoice(t, "BuyerMSP", id)
    BY <1>2, <1>3, <1>4, <1>11, <2>1
       DEF SettleInvoice, OpFrom, CallerOn, RecordOn, WritesOn, To, RequireMSP,
           RequireInvoiceBuyer, MadeByTheParties
  <2> QED
    BY <1>3, <1>6, <2>2 DEF Propose, MSPs
<1>12. StatusOf(id) \in {"NONE", "CREATED", "APPROVED", "FINANCING_REQUESTED", "FINANCED"}
  BY <1>1 DEF TypeOK, StatusOf, Invoices, Statuses, Terminal
<1> QED
  BY <1>7, <1>8, <1>9, <1>10, <1>11, <1>12
=============================================================================
