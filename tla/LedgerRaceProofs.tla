-------------------------- MODULE LedgerRaceProofs --------------------------
(***************************************************************************)
(* Proofs about InvoiceLedger: how a race is lost.  For any invoices,      *)
(* documents, number of transactions and size of block, what the loser is  *)
(* told, and that there is a winner.                                       *)
(*                                                                         *)
(* A transaction keeps the endorsements that its status asked for          *)
(* (EndorsersOK).  As long as the record has the version it read, all the  *)
(* keys it read have (FreshTogether), and once it has not the invoice has  *)
(* left that status (OvertakenOK): whether the endorsements are enough is  *)
(* then a matter of two statuses.  What is left is the rotation within a   *)
(* block.  No transaction behind a rotation commits, so the status stays   *)
(* what the rotation found or made, and that tells who rotated             *)
(* (RotatedOK): a winner, to whom all others on the invoice are stale, or  *)
(* a late duplicate of the creation.                                       *)
(***************************************************************************)
EXTENDS InvoiceLedgerProofs

\* The statuses an invoice can move on to.
Later(status) ==
  CASE status = "NONE"                -> Statuses
    [] status = "CREATED"             -> Statuses \ {"CREATED"}
    [] status = "APPROVED"            -> {"FINANCING_REQUESTED", "FINANCED", "SETTLED"}
    [] status = "FINANCING_REQUESTED" -> {"FINANCED", "SETTLED"}
    [] status = "FINANCED"            -> {"SETTLED"}
    [] OTHER                          -> {}

WritesOf(op) == DocumentsFor(To(op)) \ DocumentsFor(From(op))

MembersFor(keys) == UNION {CollectionMembers(k) : k \in keys}

EndorsersOK ==
  \A t \in Tx : phase[t] = "endorsed" =>
    /\ Written(tx[t].writes) = WritesOf(tx[t].op)
    /\ tx[t].endorsers = PolicyFor(From(tx[t].op)) \cup MembersFor(WritesOf(tx[t].op))

FreshTogether ==
  \A t \in Tx : phase[t] = "endorsed" /\ Unstale(t) => tx[t].seen = version[tx[t].id]

OvertakenOK ==
  \A t \in Tx : phase[t] = "endorsed" /\ ~Unstale(t)
                  => StatusOf(tx[t].id) \in Later(From(tx[t].op))

\* A creation that was not the first rotates the policy all the same.
DuplicateCreation(id) ==
  \E u \in Tx : /\ phase[u] = "MVCC_READ_CONFLICT"
                /\ tx[u].op = "CreateInvoice" /\ tx[u].id = id

RotatedOK ==
  \A id \in rotated : block # {} =>
    \/ /\ StatusOf(id) \in {"CREATED", "APPROVED", "REJECTED", "FINANCED"}
       /\ \A t \in block : tx[t].id = id => ~Unstale(t)
    \/ StatusOf(id) = "CREATED" /\ DuplicateCreation(id)

RInv == IInv /\ EndorsersOK /\ FreshTogether /\ OvertakenOK /\ RotatedOK

-----------------------------------------------------------------------------
(***************************************************************************)
(* Endorsement and validation, in terms of two statuses.                   *)
(***************************************************************************)
\* Whose peers hold what the functions write.
LEMMA WritersAndMembers ==
  /\ MembersFor(WritesOf("CreateInvoice")) = {"SupplierMSP", "BuyerMSP"}
  /\ \A op \in {"ApproveInvoice", "RejectInvoice", "SettleInvoice"} :
       MembersFor(WritesOf(op)) = {}
  /\ \A op \in {"RequestFinancing", "FinanceInvoice"} :
       MembersFor(WritesOf(op)) = {"SupplierMSP", "FinanceMSP"}
<1>1. /\ WritesOf("CreateInvoice") = InvoicePartiesKeys
      /\ \A op \in {"ApproveInvoice", "RejectInvoice", "SettleInvoice"} : WritesOf(op) = {}
      /\ WritesOf("RequestFinancing") = {"disclosure", "financingRequest", "disbursementDetails"}
      /\ WritesOf("FinanceInvoice") = {"financingAgreement"}
  BY DEF WritesOf, From, To, DocumentsFor, InvoicePartiesKeys, PrivateKeys, AmountKeys,
         DetailKeys
<1>2. MembersFor(InvoicePartiesKeys) = {"SupplierMSP", "BuyerMSP"}
  BY DEF MembersFor, CollectionMembers, InvoicePartiesKeys
<1>3. MembersFor({}) = {}
  BY DEF MembersFor
<1>4. /\ MembersFor({"disclosure", "financingRequest", "disbursementDetails"})
           = {"SupplierMSP", "FinanceMSP"}
      /\ MembersFor({"financingAgreement"}) = {"SupplierMSP", "FinanceMSP"}
  BY DEF MembersFor, CollectionMembers, InvoicePartiesKeys
<1> QED
  BY <1>1, <1>2, <1>3, <1>4

\* An operation moves on, and from a later status there is no way back.
LEMMA LaterAndLater ==
  ASSUME NEW op \in Operations, NEW other \in Operations
  PROVE  /\ To(op) \in Later(From(op))
         /\ From(op) \in Later(From(other)) => To(op) \in Later(From(other))
         /\ From(op) \notin Later(From(op))
         /\ To(op) \in Statuses
         /\ From(op) = "CREATED" => op \in {"ApproveInvoice", "RejectInvoice"}
         /\ From(op) # "REJECTED"
BY DEF Operations, From, To, Later, Statuses

\* The endorsements of a transaction are enough where the policy still is
\* the one of the status it started from.
LEMMA EnoughEndorsers ==
  ASSUME RInv, NEW t \in Tx, phase[t] = "endorsed"
  PROVE  LET op == tx[t].op
             id == tx[t].id
         IN  /\ op \in Operations /\ id \in Ids
             /\ StatusOf(id) \in {From(op)} \cup Later(From(op))
             /\ Unstale(t) <=> StatusOf(id) = From(op)
             /\ EndorsementOK(t) <=>
                  /\ id \notin rotated
                  /\ PolicyFor(StatusOf(id))
                       \subseteq PolicyFor(From(op)) \cup MembersFor(WritesOf(op))
             /\ ~Fresh(t) => ~Unstale(t)
<1> DEFINE op == tx[t].op
           id == tx[t].id
<1>1. /\ op \in Operations /\ id \in Ids /\ tx[t] \in Transactions
      /\ IInv
  BY DEF RInv, IInv, TypeOK, Transactions
<1>2. Unstale(t) => StatusOf(id) = From(op)
  BY <1>1 DEF IInv, EndorsedAreSound, Sound, SoundFor
<1>3. ~Unstale(t) => StatusOf(id) \in Later(From(op)) /\ StatusOf(id) # From(op)
  BY <1>1, LaterAndLater DEF RInv, OvertakenOK
<1>4. policy[id] = PolicyFor(StatusOf(id))
  BY <1>1 DEF IInv, InvoicesOK, InvoiceOK, StatusIn, StatusOf
<1>5. RequiredEndorsers(id, tx[t].writes) = PolicyFor(StatusOf(id)) \cup MembersFor(WritesOf(op))
  BY <1>4 DEF RInv, EndorsersOK, RequiredEndorsers, MembersFor
<1>6. tx[t].endorsers = PolicyFor(From(op)) \cup MembersFor(WritesOf(op))
  BY DEF RInv, EndorsersOK
<1>7. EndorsementOK(t) <=>
        /\ id \notin rotated
        /\ PolicyFor(StatusOf(id)) \subseteq PolicyFor(From(op)) \cup MembersFor(WritesOf(op))
  BY <1>5, <1>6 DEF EndorsementOK
<1>8. ~Fresh(t) => ~Unstale(t)
  BY DEF RInv, FreshTogether, Fresh
<1> QED
  BY <1>1, <1>2, <1>3, <1>7, <1>8

\* Who can fail on a version: the endorsements were enough, but the invoice
\* had moved on.
LEMMA LostOnVersion ==
  ASSUME RInv, NEW t \in Tx, FailMVCC(t)
  PROVE  LET id == tx[t].id IN
         /\ ~Unstale(t) /\ id \notin rotated
         /\ tx[t].op # "FinanceInvoice"
         /\ tx[t].op = "RequestFinancing" => StatusOf(id) = "FINANCING_REQUESTED"
         /\ tx[t].op = "ApproveInvoice" => StatusOf(id) = "REJECTED"
         /\ tx[t].op = "CreateInvoice" => StatusOf(id) \in {"CREATED", "REJECTED"}
<1> DEFINE op == tx[t].op
           id == tx[t].id
           s == StatusOf(id)
<1>1. t \in block /\ phase[t] = "endorsed" /\ EndorsementOK(t) /\ ~Fresh(t)
  BY DEF FailMVCC, RInv, IInv, TypeOK
<1>2. /\ op \in Operations /\ ~Unstale(t) /\ id \notin rotated
      /\ s \in Later(From(op))
      /\ PolicyFor(s) \subseteq PolicyFor(From(op)) \cup MembersFor(WritesOf(op))
  BY <1>1, EnoughEndorsers
<1> HIDE DEF s, op, id
<1>3. CASE op = "FinanceInvoice"
  <2>1. PolicyFor(From(op)) \cup MembersFor(WritesOf(op)) = {"SupplierMSP", "FinanceMSP"}
    BY <1>3, WritersAndMembers DEF From, PolicyFor
  <2>2. s \in {"FINANCED", "SETTLED"}
    BY <1>2, <1>3 DEF Later, From
  <2> QED
    BY <1>2, <2>1, <2>2 DEF PolicyFor
<1>4. ASSUME op = "RequestFinancing" PROVE s = "FINANCING_REQUESTED"
  <2>1. PolicyFor(From(op)) \cup MembersFor(WritesOf(op)) = {"SupplierMSP", "FinanceMSP"}
    BY <1>4, WritersAndMembers DEF From, PolicyFor
  <2>2. s \in {"FINANCING_REQUESTED", "FINANCED", "SETTLED"}
    BY <1>2, <1>4 DEF Later, From
  <2> QED
    BY <1>2, <2>1, <2>2 DEF PolicyFor
<1>5. ASSUME op = "ApproveInvoice" PROVE s = "REJECTED"
  <2>1. PolicyFor(From(op)) \cup MembersFor(WritesOf(op)) = {"SupplierMSP", "BuyerMSP"}
    BY <1>5, WritersAndMembers DEF From, PolicyFor
  <2>2. s \in Statuses \ {"CREATED"}
    BY <1>2, <1>5 DEF Later, From
  <2> QED
    BY <1>2, <2>1, <2>2 DEF PolicyFor, Statuses
<1>6. ASSUME op = "CreateInvoice" PROVE s \in {"CREATED", "REJECTED"}
  <2>1. PolicyFor(From(op)) \cup MembersFor(WritesOf(op)) = {"SupplierMSP", "BuyerMSP"}
    BY <1>6, WritersAndMembers DEF From, PolicyFor
  <2>2. s \in Statuses
    BY <1>2, <1>6 DEF Later, From
  <2> QED
    BY <1>2, <2>1, <2>2 DEF PolicyFor, Statuses
<1> QED
  BY <1>2, <1>3, <1>4, <1>5, <1>6 DEF s, op, id

-----------------------------------------------------------------------------
(***************************************************************************)
(* RInv is inductive.                                                      *)
(***************************************************************************)
LEMMA InitRInv == Init => RInv
BY InitIInv DEF Init, RInv, EndorsersOK, FreshTogether, OvertakenOK, RotatedOK

\* The endorsements are collected for the policy of the moment.
LEMMA EndorseRInv ==
  ASSUME RInv, IInv', NEW t \in Tx, CanEndorse(t),
         NEW op \in Operations, NEW id \in Ids, NEW record \in Invoices(Tx), NEW writes,
         NEW caller \in MSPs,
         TypedWrites(writes), SoundFor(op, id, record, writes),
         Endorse(t, caller, op, id, record, writes)
  PROVE  RInv'
<1> DEFINE new == [op |-> op, id |-> id, invoice |-> record, writes |-> writes,
                   seen |-> version[id], endorsers |-> RequiredEndorsers(id, writes)]
<1>1. /\ tx' = [tx EXCEPT ![t] = new] /\ phase' = [phase EXCEPT ![t] = "endorsed"]
      /\ UNCHANGED <<invoice, private, version, policy, block, rotated, events>>
  BY DEF Endorse
<1>2. TypeOK /\ phase[t] = "idle" /\ block = {}
  BY DEF RInv, IInv, CanEndorse
<1>3. /\ tx'[t] = new /\ phase'[t] = "endorsed"
      /\ \A u \in Tx \ {t} : tx'[u] = tx[u] /\ phase'[u] = phase[u]
  BY <1>1, <1>2 DEF TypeOK
<1>4. \A i \in Ids : StatusOf(i)' = StatusOf(i)
  BY <1>1 DEF StatusOf
<1>5. EndorsersOK'
  <2>1. /\ InvoiceOK(invoice[id], private[id], policy[id])
        /\ StatusIn(invoice[id]) = From(op)
    BY DEF RInv, IInv, InvoicesOK, SoundFor, StatusIn, StatusOf
  <2>2. /\ InvoiceOK(record, Merged(private[id], writes), PolicyAfter(policy[id], op))
        /\ StatusIn(record) = To(op)
    BY AbsentIsNoRecord DEF SoundFor, StatusIn
  <2>3. Written(writes) = WritesOf(op)
    <3>1. \A k \in PrivateKeys : writes[k] # Absent =>
            /\ k \notin DocumentsFor(From(op)) /\ k \in DocumentsFor(To(op))
      BY <2>1, <2>2 DEF InvoiceOK, Merged, SoundFor
    <3>2. \A k \in PrivateKeys : k \in DocumentsFor(To(op)) /\ k \notin DocumentsFor(From(op))
            => writes[k] # Absent
      BY <2>1, <2>2 DEF InvoiceOK, Merged
    <3>3. DocumentsFor(To(op)) \subseteq PrivateKeys
      BY DEF Operations, To, DocumentsFor, InvoicePartiesKeys, PrivateKeys, AmountKeys,
             DetailKeys
    <3> QED
      BY <3>1, <3>2, <3>3 DEF Written, WritesOf
  <2>4. RequiredEndorsers(id, writes) = PolicyFor(From(op)) \cup MembersFor(WritesOf(op))
    BY <2>1, <2>3 DEF RequiredEndorsers, InvoiceOK, MembersFor
  <2> QED
    BY <1>3, <2>3, <2>4 DEF RInv, EndorsersOK
<1>6. FreshTogether'
  BY <1>1, <1>3 DEF RInv, FreshTogether, Unstale
<1>7. OvertakenOK'
  <2> SUFFICES ASSUME NEW u \in Tx, phase'[u] = "endorsed", ~Unstale(u)'
               PROVE  StatusOf(tx[u].id)' \in Later(From(tx'[u].op)) /\ u # t
    BY <1>3 DEF OvertakenOK
  <2>1. u # t
    BY <1>1, <1>3 DEF Unstale
  <2>2. tx[u].id \in Ids
    BY <1>2, <1>3, <2>1 DEF TypeOK, Transactions
  <2> QED
    BY <1>1, <1>3, <1>4, <2>1, <2>2 DEF RInv, OvertakenOK, Unstale
<1>8. RotatedOK'
  BY <1>1, <1>2 DEF RotatedOK
<1> QED
  BY <1>5, <1>6, <1>7, <1>8 DEF RInv

\* The orderer forgets the rotations of the block before.
LEMMA CutBlockRInv ==
  ASSUME RInv, IInv', NEW b \in SUBSET Tx, CutBlock(b)
  PROVE  RInv'
BY DEF RInv, CutBlock, EndorsersOK, FreshTogether, OvertakenOK, RotatedOK, Unstale, StatusOf

\* What is claimed of the transactions that are left.
LEMMA FailKeepsEndorsed ==
  ASSUME RInv, NEW t \in Tx, FailEndorsement(t) \/ FailMVCC(t)
  PROVE  EndorsersOK' /\ FreshTogether' /\ OvertakenOK'
<1>1. /\ UNCHANGED <<invoice, version, tx>>
      /\ \A u \in Tx : phase'[u] = "endorsed" => phase[u] = "endorsed"
  BY DEF RInv, IInv, TypeOK, FailEndorsement, FailMVCC
<1> QED
  BY <1>1 DEF RInv, EndorsersOK, FreshTogether, OvertakenOK, Unstale, StatusOf

\* A failed transaction rotates the policy if it failed on a version: then it
\* is a duplicate creation, or the invoice is at its end.
LEMMA FailRInv ==
  ASSUME RInv, IInv', NEW t \in Tx, FailEndorsement(t) \/ FailMVCC(t)
  PROVE  RInv'
<1> DEFINE id == tx[t].id
<1>1. /\ t \in block /\ phase[t] = "endorsed" /\ block' = block \ {t}
      /\ UNCHANGED <<invoice, version, tx>>
      /\ phase' = [phase EXCEPT ![t] = phase'[t]]
      /\ FailMVCC(t) => phase'[t] = "MVCC_READ_CONFLICT"
      /\ rotated' = rotated \/ (FailMVCC(t) /\ rotated' = rotated \cup RotatedBy(t))
      /\ block \subseteq Tx /\ \A u \in block : phase[u] = "endorsed"
  BY DEF RInv, IInv, TypeOK, FailEndorsement, FailMVCC
<1>2. \A i \in Ids : StatusOf(i)' = StatusOf(i)
  BY <1>1 DEF StatusOf
<1>3. \A u \in Tx : Unstale(u)' <=> Unstale(u)
  BY <1>1 DEF Unstale
<1>4. \A i \in Ids : DuplicateCreation(i) => DuplicateCreation(i)'
  BY <1>1 DEF DuplicateCreation, RInv, IInv, TypeOK
<1>5. RotatedOK'
  <2> SUFFICES ASSUME NEW i \in rotated', block' # {}
               PROVE  \/ /\ StatusOf(i)' \in {"CREATED", "APPROVED", "REJECTED", "FINANCED"}
                         /\ \A u \in block' : tx'[u].id = i => ~Unstale(u)'
                      \/ StatusOf(i)' = "CREATED" /\ DuplicateCreation(i)'
    BY DEF RotatedOK
  <2>0. id \in Ids /\ rotated \subseteq Ids
    BY <1>1 DEF RInv, IInv, TypeOK, Transactions
  <2>1. CASE i \in rotated
    BY <1>1, <1>2, <1>3, <1>4, <2>0, <2>1 DEF RInv, RotatedOK
  <2>2. CASE i \notin rotated
    <3>1. /\ FailMVCC(t) /\ i = id /\ RotatesTo(tx[t].op) # {}
          /\ phase'[t] = "MVCC_READ_CONFLICT"
      BY <1>1, <2>2 DEF RotatedBy
    <3>2. tx[t].op \in {"CreateInvoice", "ApproveInvoice", "FinanceInvoice"}
      BY <3>1 DEF RotatesTo
    <3>3. CASE StatusOf(id) = "REJECTED"
      <4>1. \A u \in block : tx[u].id = id => ~Unstale(u)
        <5> SUFFICES ASSUME NEW u \in block, tx[u].id = id PROVE ~Unstale(u)
          OBVIOUS
        <5>1. tx[u].op \in Operations /\ (Unstale(u) <=> StatusOf(id) = From(tx[u].op))
          BY <1>1, EnoughEndorsers
        <5> QED
          BY <3>3, <5>1, LaterAndLater
      <4> QED
        BY <1>1, <1>2, <1>3, <2>0, <3>1, <3>3, <4>1
    <3>4. CASE StatusOf(id) # "REJECTED"
      <4>1. tx[t].op = "CreateInvoice" /\ StatusOf(id) = "CREATED"
        BY <3>1, <3>2, <3>4, LostOnVersion
      <4>2. DuplicateCreation(i)'
        BY <1>1, <3>1, <4>1 DEF DuplicateCreation
      <4>3. StatusOf(i)' = "CREATED"
        BY <1>2, <2>0, <3>1, <4>1
      <4> QED
        BY <4>2, <4>3
    <3> QED
      BY <3>3, <3>4
  <2> QED
    BY <2>1, <2>2
<1> QED
  BY <1>5, FailKeepsEndorsed DEF RInv

\* A commit overtakes all the others on its invoice.
LEMMA CommitRInv ==
  ASSUME RInv, IInv', NEW t \in Tx, Commit(t)
  PROVE  RInv'
<1> DEFINE id == tx[t].id
           op == tx[t].op
<1>0. IInv
  BY DEF RInv
<1>1. /\ phase[t] = "endorsed" /\ tx[t] \in Transactions /\ id \in Ids /\ op \in Operations
      /\ tx' = tx
      /\ \A i \in Ids \ {id} : UNCHANGED <<invoice[i], version[i]>>
      /\ version'[id]["invoice"] = t
      /\ phase'[t] = "VALID" /\ \A u \in Tx \ {t} : phase'[u] = phase[u]
  BY <1>0, CommitEffect DEF Transactions
<1>2. StatusOf(id) = From(op) /\ StatusOf(id)' = To(op)
  BY <1>0, CommitEffect, AbsentIsNoRecord DEF Sound, SoundFor, StatusOf, Transactions
<1>3. \A i \in Ids \ {id} : StatusOf(i)' = StatusOf(i)
  BY <1>1 DEF StatusOf
<1>4. /\ \A u \in Tx : phase'[u] = "endorsed" =>
           /\ u # t /\ phase[u] = "endorsed"
           /\ tx[u].id \in Ids /\ tx[u].op \in Operations
      /\ t \in block /\ block' = block \ {t} /\ rotated' = rotated \cup RotatedBy(t)
      /\ id \notin rotated /\ rotated \subseteq Ids /\ block \subseteq Tx
      /\ \A u \in block : phase[u] = "endorsed"
  BY <1>0, <1>1 DEF IInv, TypeOK, Transactions, Commit, EndorsementOK
<1>5. \A u \in Tx : phase[u] = "endorsed" /\ tx[u].id = id => ~Unstale(u)'
  <2>1. t \notin Committed
    BY <1>1, LedgerAssumption DEF Committed, Tx, LedgerAssumption
  <2> QED
    BY <1>0, <1>1, <2>1 DEF IInv, ReadsAreCommitted, Unstale
<1>6. \A u \in Tx : tx[u].id \in Ids \ {id} => (Unstale(u)' <=> Unstale(u))
  BY <1>1 DEF Unstale
<1>7. EndorsersOK'
  BY <1>1, <1>4 DEF RInv, EndorsersOK
<1>8. FreshTogether'
  <2> SUFFICES ASSUME NEW u \in Tx, phase'[u] = "endorsed", Unstale(u)'
               PROVE  tx'[u].seen = version'[tx'[u].id]
    BY DEF FreshTogether
  <2>1. phase[u] = "endorsed" /\ tx[u].id \in Ids \ {id} /\ Unstale(u)
    BY <1>4, <1>5, <1>6
  <2> QED
    BY <1>1, <2>1 DEF RInv, FreshTogether
<1>9. OvertakenOK'
  <2> SUFFICES ASSUME NEW u \in Tx, phase'[u] = "endorsed", ~Unstale(u)'
               PROVE  StatusOf(tx[u].id)' \in Later(From(tx[u].op))
    BY <1>1 DEF OvertakenOK
  <2>1. phase[u] = "endorsed" /\ tx[u].id \in Ids /\ tx[u].op \in Operations
    BY <1>4
  <2>2. CASE tx[u].id = id
    <3>1. From(op) \in {From(tx[u].op)} \cup Later(From(tx[u].op))
      BY <1>2, <2>1, <2>2, EnoughEndorsers
    <3>2. To(op) \in Later(From(tx[u].op))
      <4>1. CASE From(op) = From(tx[u].op)
        BY <1>1, <4>1, LaterAndLater
      <4>2. CASE From(op) \in Later(From(tx[u].op))
        BY <1>1, <2>1, <4>2, LaterAndLater
      <4> QED
        BY <3>1, <4>1, <4>2
    <3> QED
      BY <1>1, <1>2, <2>2, <3>2
  <2>3. CASE tx[u].id # id
    BY <1>1, <1>3, <1>6, <2>1, <2>3 DEF RInv, OvertakenOK
  <2> QED
    BY <2>2, <2>3
<1>10. RotatedOK'
  <2> SUFFICES ASSUME NEW i \in rotated', block' # {}
               PROVE  \/ /\ StatusOf(i)' \in {"CREATED", "APPROVED", "REJECTED", "FINANCED"}
                         /\ \A u \in block' : tx'[u].id = i => ~Unstale(u)'
                      \/ StatusOf(i)' = "CREATED" /\ DuplicateCreation(i)'
    BY DEF RotatedOK
  <2>1. CASE i = id
    <3>1. RotatesTo(op) # {}
      BY <1>4, <2>1 DEF RotatedBy
    <3>2. To(op) \in {"CREATED", "APPROVED", "FINANCED"}
      BY <1>1, <3>1 DEF RotatesTo, To
    <3> QED
      BY <1>1, <1>2, <1>4, <1>5, <2>1, <3>2
  <2>2. CASE i # id
    <3>1. i \in rotated /\ i \in Ids \ {id}
      BY <1>4, <2>2 DEF RotatedBy
    <3>2. DuplicateCreation(i) => DuplicateCreation(i)'
      BY <1>1 DEF DuplicateCreation
    <3> QED
      BY <1>1, <1>3, <1>4, <1>6, <3>1, <3>2 DEF RInv, RotatedOK
  <2> QED
    BY <2>1, <2>2
<1> QED
  BY <1>7, <1>8, <1>9, <1>10 DEF RInv

\* Every step of the ledger.
LEMMA NextRInv == RInv /\ [Next]_vars => RInv'
<1> SUFFICES ASSUME RInv, [Next]_vars PROVE RInv'
  OBVIOUS
<1>0. IInv /\ IInv'
  BY NextIInv DEF RInv
<1>1. ASSUME NEW t \in Tx, Propose(t) PROVE RInv'
  <2>1. CanEndorse(t) /\ SoundProposal(t)
    BY <1>0, <1>1, ProposeIsSound DEF Propose
  <2> QED
    BY <1>0, <2>1, EndorseRInv DEF SoundProposal, Proposed
<1>2. ASSUME NEW b \in SUBSET Tx, CutBlock(b) PROVE RInv'
  BY <1>0, <1>2, CutBlockRInv
<1>3. ASSUME NEW t \in Tx, Validate(t) PROVE RInv'
  BY <1>0, <1>3, FailRInv, CommitRInv DEF Validate
<1>4. CASE UNCHANGED vars
  BY <1>0, <1>4 DEF vars, RInv, EndorsersOK, FreshTogether, OvertakenOK, RotatedOK, Unstale,
                    StatusOf, DuplicateCreation
<1> QED
  BY <1>1, <1>2, <1>3, <1>4 DEF Next

(***************************************************************************)
(* The invariant of the races holds of every behaviour of the ledger.      *)
(***************************************************************************)
THEOREM RaceInvariance == Spec => []RInv
BY InitRInv, NextRInv, PTL DEF Spec
-----------------------------------------------------------------------------
\* Which steps give a transaction a code that is a failure.
LEMMA OnlyFailuresFail ==
  ASSUME RInv, [Next]_vars, NEW t \in Tx, phase[t] = "endorsed", phase'[t] \in Failures
  PROVE  /\ FailEndorsement(t) \/ FailMVCC(t)
         /\ FailEndorsement(t) => phase'[t] = "ENDORSEMENT_POLICY_FAILURE"
         /\ FailMVCC(t) => phase'[t] = "MVCC_READ_CONFLICT"
<1>0. phase \in [Tx -> Phases]
  BY DEF RInv, IInv, TypeOK
<1>1. ASSUME NEW u \in Tx, Propose(u) PROVE FALSE
  <2>1. phase[u] = "idle" /\ SoundProposal(u)
    BY <1>1, ProposeIsSound DEF RInv, Propose, CanEndorse
  <2>2. phase' = [phase EXCEPT ![u] = "endorsed"]
    BY <2>1 DEF SoundProposal, Proposed, Endorse
  <2> QED
    BY <1>0, <2>1, <2>2 DEF Failures
<1>2. ASSUME NEW b \in SUBSET Tx, CutBlock(b) PROVE FALSE
  BY <1>2 DEF CutBlock, Failures
<1>3. ASSUME NEW u \in Tx, Validate(u) PROVE u = t /\ ~Commit(u)
  BY <1>0, <1>3 DEF Validate, FailEndorsement, FailMVCC, Commit, Failures
<1>4. CASE UNCHANGED vars
  BY <1>4 DEF vars, Failures
<1>5. FailEndorsement(t) \/ FailMVCC(t)
  BY <1>1, <1>2, <1>3, <1>4 DEF Next, Validate
<1> QED
  BY <1>0, <1>5 DEF FailEndorsement, FailMVCC

\* A transaction whose endorsements are not enough, with respect to the status
\* and to what happened in its block.
LEMMA LostOnPolicy ==
  ASSUME RInv, NEW t \in Tx, FailEndorsement(t)
  PROVE  LET op == tx[t].op
             id == tx[t].id
         IN  /\ phase[t] = "endorsed" /\ op \in Operations /\ id \in Ids
             /\ StatusOf(id) \in {From(op)} \cup Later(From(op))
             /\ Unstale(t) <=> StatusOf(id) = From(op)
             /\ \/ ~(PolicyFor(StatusOf(id))
                       \subseteq PolicyFor(From(op)) \cup MembersFor(WritesOf(op)))
                \/ /\ id \in rotated
                   /\ StatusOf(id) \in {"CREATED", "APPROVED", "REJECTED", "FINANCED"}
                   /\ Unstale(t) => StatusOf(id) = "CREATED" /\ DuplicateCreation(id)
<1>1. t \in block /\ phase[t] = "endorsed" /\ ~EndorsementOK(t)
  BY DEF FailEndorsement, RInv, IInv, TypeOK
<1> QED
  BY <1>1, EnoughEndorsers DEF RInv, RotatedOK

\* A loser of each kind is told as README.md says.
LEMMA LoserIsTold ==
  ASSUME RInv, [Next]_vars, NEW t \in Tx, phase[t] = "endorsed", phase'[t] \in Failures
  PROVE  /\ tx[t].op = "FinanceInvoice" => phase'[t] = "ENDORSEMENT_POLICY_FAILURE"
         /\ tx[t].op = "RequestFinancing" =>
              (phase'[t] = "MVCC_READ_CONFLICT"
                 <=> StatusOf(tx[t].id) = "FINANCING_REQUESTED")
         /\ tx[t].op = "SettleInvoice" => phase'[t] = "MVCC_READ_CONFLICT"
<1> DEFINE op == tx[t].op
           s == StatusOf(tx[t].id)
<1>1. CASE FailMVCC(t)
  <2>1. /\ phase'[t] = "MVCC_READ_CONFLICT" /\ op # "FinanceInvoice"
        /\ op = "RequestFinancing" => s = "FINANCING_REQUESTED"
    BY <1>1, OnlyFailuresFail, LostOnVersion
  <2> QED
    BY <2>1
<1>2. CASE FailEndorsement(t)
  <2>1. phase'[t] = "ENDORSEMENT_POLICY_FAILURE"
    BY <1>2, OnlyFailuresFail
  <2>2. /\ s \in {From(op)} \cup Later(From(op))
        /\ \/ ~(PolicyFor(s) \subseteq PolicyFor(From(op)) \cup MembersFor(WritesOf(op)))
           \/ /\ s \in {"CREATED", "APPROVED", "REJECTED", "FINANCED"}
              /\ s = From(op) => s = "CREATED"
    BY <1>2, LostOnPolicy
  <2> HIDE DEF s, op
  <2>3. ASSUME op = "RequestFinancing" PROVE s # "FINANCING_REQUESTED"
    <3>1. PolicyFor(From(op)) = {"SupplierMSP", "FinanceMSP"}
      BY <2>3 DEF From, PolicyFor
    <3> QED
      BY <2>2, <3>1 DEF PolicyFor
  <2>4. op # "SettleInvoice"
    <3> SUFFICES ASSUME op = "SettleInvoice" PROVE FALSE
      OBVIOUS
    <3>1. From(op) = "FINANCED" /\ s \in {"FINANCED", "SETTLED"}
      BY <2>2 DEF From, Later
    <3>2. PolicyFor(From(op)) = PolicyFor(s)
      BY <3>1 DEF PolicyFor
    <3> QED
      BY <2>2, <3>1, <3>2
  <2> QED
    BY <2>1, <2>3, <2>4 DEF s, op
<1> QED
  BY <1>1, <1>2, OnlyFailuresFail

(***************************************************************************)
(* The loser of a financing is told ENDORSEMENT_POLICY_FAILURE, that of a  *)
(* settlement MVCC_READ_CONFLICT, and that of a request for financing the  *)
(* latter exactly while the invoice is in the status it asked for: however *)
(* many transactions race, and however they are put into blocks.           *)
(***************************************************************************)
THEOREM LosersLearnWhy == Spec => LosersAreToldWhy
<1> DEFINE Told(t) ==
      phase[t] = "endorsed" /\ phase'[t] \in Failures =>
        CASE tx[t].op = "FinanceInvoice" ->
               phase'[t] = "ENDORSEMENT_POLICY_FAILURE"
          [] tx[t].op = "RequestFinancing" ->
               phase'[t] = "MVCC_READ_CONFLICT"
                 <=> StatusOf(tx[t].id) = "FINANCING_REQUESTED"
          [] tx[t].op = "SettleInvoice" ->
               phase'[t] = "MVCC_READ_CONFLICT"
          [] OTHER -> TRUE
<1>1. RInv /\ [Next]_vars => [\A t \in Tx : Told(t)]_vars
  <2> SUFFICES ASSUME RInv, [Next]_vars, NEW t \in Tx,
                      phase[t] = "endorsed", phase'[t] \in Failures
               PROVE  Told(t)
    OBVIOUS
  <2>1. CASE tx[t].op = "FinanceInvoice"
    BY <2>1, LoserIsTold
  <2>2. CASE tx[t].op = "RequestFinancing"
    BY <2>2, LoserIsTold
  <2>3. CASE tx[t].op = "SettleInvoice"
    BY <2>3, LoserIsTold
  <2>4. CASE tx[t].op \notin {"FinanceInvoice", "RequestFinancing", "SettleInvoice"}
    BY <2>4
  <2> QED
    BY <2>1, <2>2, <2>3, <2>4
<1> QED
  BY <1>1, RaceInvariance, PTL DEF Spec, LosersAreToldWhy

(***************************************************************************)
(* Nobody loses without a winner, except an approval or a rejection behind *)
(* a late duplicate of the creation in its own block.                      *)
(***************************************************************************)
THEOREM LosersWereOvertaken == Spec => OnlyTheStaleLose
<1> DEFINE Overtaken(t) ==
      LET id == tx[t].id IN
      phase[t] = "endorsed" /\ phase'[t] \in Failures =>
        \/ tx[t].seen["invoice"] # version[id]["invoice"]
        \/ /\ tx[t].op \in {"ApproveInvoice", "RejectInvoice"}
           /\ id \in rotated
           /\ \E u \in Tx : /\ phase[u] = "MVCC_READ_CONFLICT"
                            /\ tx[u].op = "CreateInvoice" /\ tx[u].id = id
<1>1. RInv /\ [Next]_vars => [\A t \in Tx : Overtaken(t)]_vars
  <2> SUFFICES ASSUME RInv, [Next]_vars, NEW t \in Tx,
                      phase[t] = "endorsed", phase'[t] \in Failures, Unstale(t)
               PROVE  /\ tx[t].op \in {"ApproveInvoice", "RejectInvoice"}
                      /\ tx[t].id \in rotated /\ DuplicateCreation(tx[t].id)
    BY DEF Unstale, DuplicateCreation
  <2>1. FailEndorsement(t)
    BY OnlyFailuresFail, LostOnVersion
  <2>2. /\ tx[t].op \in Operations /\ StatusOf(tx[t].id) = From(tx[t].op)
        /\ tx[t].id \in rotated /\ StatusOf(tx[t].id) = "CREATED"
        /\ DuplicateCreation(tx[t].id)
    BY <2>1, LostOnPolicy
  <2> QED
    BY <2>2, LaterAndLater
<1> QED
  BY <1>1, RaceInvariance, PTL DEF Spec, OnlyTheStaleLose
=============================================================================
