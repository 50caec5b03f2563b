-------------------------- MODULE InvoiceApiProofs --------------------------
(***************************************************************************)
(* Proofs about InvoiceApi, for any clients, requests, invoices, documents *)
(* and bounds: what a client may conclude from the answer to a request, a  *)
(* repetition or a read, at servers whose peers lag behind the ledger.     *)
(*                                                                         *)
(* The servers drive the ledger as InvoiceLedger allows, so IInv holds     *)
(* behind the API.  On top of it the invariant AInv says                   *)
(*   Taken    an invoice left each status through a valid transaction;     *)
(*   PeersOK  what a peer has committed, and each block it has yet to      *)
(*            commit, was once the ledger and is consistent with what the  *)
(*            ledger is now (Genuine), in the order of the ledger;         *)
(*   SentOK   the transactions of a request are MadeFrom it, and were      *)
(*            endorsed when the invoice was in a status the function       *)
(*            starts from, or later.                                       *)
(* They say enough of the past to explain a refusal: if a request got as   *)
(* far as a transaction and its repetition is refused, then the invoice    *)
(* has left the status the function starts from, so that a rival is valid  *)
(* (Taken), the documents still pass (Genuine), and the code that the      *)
(* handler gives is the conflict (RefusedForARival).                       *)
(***************************************************************************)
EXTENDS InvoiceApi, InvoiceLedgerProofs, FiniteSetTheorems, SequenceTheorems

(***************************************************************************)
(* The servers drive the ledger as InvoiceLedger allows, so that all that  *)
(* is proved about it holds behind the API.                                *)
(***************************************************************************)
CallsOK ==
  /\ call \in [Clients -> Requests \cup {Absent}]
  /\ stage \in [Clients -> {"idle", "answered"} \cup InFlight]
  /\ sent \in [Clients -> SUBSET Tx]
  /\ answer \in [Clients -> Verdicts \cup Unknowns \cup {"none"}]
  /\ lost \in 0..MaxLostCalls
  /\ \A c \in Clients :
       /\ stage[c] = "idle" => sent[c] = {}
       /\ stage[c] # "idle" => call[c] \in Requests
       /\ stage[c] = "answered" <=> answer[c] # "none"
       /\ stage[c] = "waiting" => sent[c] # {}

LEMMA RequestFields ==
  ASSUME NEW q \in Requests
  PROVE  /\ q.op \in Operations /\ q.org \in MSPs /\ q.raw \in RawIds
         /\ q.complete \in BOOLEAN /\ q.buyer \in MSPs
         /\ q.amount \in Amounts /\ q.asked \in Amounts /\ q.text \in Texts
         /\ q # Absent
BY ApiAssumption DEF ApiAssumption

\* What the handlers make of a request are documents.
LEMMA DocumentsAreTyped ==
  ASSUME NEW q \in Requests
  PROVE  /\ CanonicalID(q.raw) \in RawIds
         /\ \A amount \in Amounts : AmountDoc(q, amount) \in AmountDocs
         /\ DetailDoc(q) \in DetailDocs
<1>1. CanonicalID(q.raw) \in RawIds
  BY RequestFields, ContractAssumption DEF CanonicalID, ContractAssumption
<1> QED
  BY <1>1, RequestFields DEF AmountDoc, DetailDoc, AmountDocs, DetailDocs

LEMMA HandleProposes ==
  ASSUME NEW t \in Tx, NEW q \in Requests, CanEndorse(t), Handle(t, q)
  PROVE  Propose(t)
<1> USE RequestFields, DocumentsAreTyped
<1>1. CASE handleCreateInvoice(t, q)
  BY <1>1 DEF handleCreateInvoice, Propose
<1>2. CASE handleApprove(t, q)
  BY <1>2 DEF handleApprove, Propose
<1>3. CASE handleReject(t, q)
  BY <1>3 DEF handleReject, Propose
<1>4. CASE handleRequestFinancing(t, q)
  BY <1>4 DEF handleRequestFinancing, Propose
<1>5. CASE handleFinance(t, q)
  BY <1>5 DEF handleFinance, Propose
<1>6. CASE handleSettle(t, q)
  BY <1>6 DEF handleSettle, Propose
<1> QED
  BY <1>1, <1>2, <1>3, <1>4, <1>5, <1>6 DEF Handle

LEMMA SubmitProposes ==
  ASSUME CallsOK, NEW c \in Clients, Submit(c)
  PROVE  \E t \in Tx : /\ Propose(t) /\ Handle(t, call[c]) /\ CanEndorse(t)
                       /\ \A m \in tx'[t].endorsers \cup {call[c].org} : UpToDate(m)
                       /\ sent' = [sent EXCEPT ![c] = @ \cup {t}]
<1>1. call[c] \in Requests
  BY DEF Submit, CallsOK
<1> QED
  BY <1>1, HandleProposes DEF Submit

LEMMA ApiStepIsLedgerStep ==
  ASSUME CallsOK, [ApiNext]_apiVars
  PROVE  [Next]_vars
<1>1. ASSUME NEW c \in Clients, Submit(c) PROVE Next
  BY <1>1, SubmitProposes DEF Next
<1>2. ASSUME NEW b \in SUBSET Tx, Order(b) PROVE Next
  BY <1>2 DEF Order, Next
<1>3. ASSUME NEW t \in Tx, ValidateBlock(t) PROVE Next
  BY <1>3 DEF ValidateBlock, Next
<1>4. CASE UNCHANGED apiVars
  BY <1>4 DEF apiVars
<1>5. ASSUME NEW c \in Clients, \/ \E q \in Requests : Send(c, q)
                                \/ Repeat(c) \/ RejectBody(c) \/ Refuse(c)
                                \/ Confirm(c) \/ CallFails(c)
      PROVE  UNCHANGED vars
  BY <1>5 DEF Send, Repeat, RejectBody, Refuse, Confirm, CallFails
<1>6. ASSUME NEW m \in MSPs, ServerStops(m) \/ PeerCommits(m) PROVE UNCHANGED vars
  BY <1>6 DEF ServerStops, PeerCommits
<1> QED
  BY <1>1, <1>2, <1>3, <1>4, <1>5, <1>6 DEF ApiNext, Serve

\* Every way in which a call of a client ends, other than a stop of the server.
Ends(c) == RejectBody(c) \/ Refuse(c) \/ Confirm(c) \/ CallFails(c)

LEMMA EndsWithACode ==
  ASSUME CallsOK, NEW c \in Clients, Ends(c)
  PROVE  /\ stage[c] \in InFlight /\ BetweenBlocks
         /\ stage' = [stage EXCEPT ![c] = "answered"]
         /\ \E code \in Verdicts \cup Unknowns : answer' = [answer EXCEPT ![c] = code]
         /\ UNCHANGED <<vars, network, call, sent>>
         /\ lost' \in 0..MaxLostCalls
<1> USE DEF InFlight, Say
<1>1. CASE RejectBody(c)
  BY <1>1 DEF RejectBody, CallsOK, Verdicts
<1>2. CASE Refuse(c)
  BY <1>2 DEF Refuse, CallsOK, Verdicts, Unknowns, handleFabricError
<1>3. CASE Confirm(c)
  BY <1>3 DEF Confirm, CallsOK, Verdicts, Unknowns, Success
<1>4. CASE CallFails(c)
  <2>1. lost' \in 0..MaxLostCalls
    BY <1>4, ApiAssumption DEF CallFails, CallsOK, ApiAssumption
  <2> QED
    BY <1>4, <2>1 DEF CallFails, CallsOK
<1> QED
  BY <1>1, <1>2, <1>3, <1>4 DEF Ends

LEMMA CallsStayOK ==
  ASSUME CallsOK, [ApiNext]_apiVars
  PROVE  CallsOK'
<1> USE DEF CallsOK, InFlight
<1>1. ASSUME NEW c \in Clients, NEW q \in Requests, Send(c, q) PROVE CallsOK'
  BY <1>1 DEF Send
<1>2. ASSUME NEW c \in Clients, Repeat(c) PROVE CallsOK'
  BY <1>2 DEF Repeat, Unknowns
<1>3. ASSUME NEW c \in Clients, Ends(c) PROVE CallsOK'
  BY <1>3, EndsWithACode DEF Verdicts, Unknowns
<1>4. ASSUME NEW c \in Clients, Submit(c) PROVE CallsOK'
  BY <1>4 DEF Submit
<1>5. ASSUME NEW org \in MSPs, ServerStops(org) PROVE CallsOK'
  BY <1>5, ApiAssumption DEF ServerStops, ApiAssumption, Unknowns
<1>6. ASSUME NEW b \in SUBSET Tx, Order(b) PROVE CallsOK'
  BY <1>6 DEF Order, apiState
<1>7. ASSUME NEW t \in Tx, ValidateBlock(t) PROVE CallsOK'
  BY <1>7 DEF ValidateBlock
<1>8. ASSUME NEW m \in MSPs, PeerCommits(m) PROVE CallsOK'
  BY <1>8 DEF PeerCommits
<1>9. CASE UNCHANGED apiVars
  BY <1>9 DEF apiVars, apiState
<1> QED
  BY <1>1, <1>2, <1>3, <1>4, <1>5, <1>6, <1>7, <1>8, <1>9 DEF ApiNext, Serve, Ends

LEMMA InitCalls == ApiInit => CallsOK
BY ApiAssumption DEF ApiInit, CallsOK, ApiAssumption, InFlight

(***************************************************************************)
(* The three servers do nothing to the ledger that InvoiceLedger does not  *)
(* allow: every endpoint submits a call of a transaction function with     *)
(* documents of the right type, and everything proved of the ledger holds  *)
(* behind the API.                                                         *)
(***************************************************************************)
THEOREM ApiKeepsToTheLedger == ApiSpec => Spec
<1>1. ApiInit => Init
  BY DEF ApiInit
<1> QED
  BY <1>1, InitCalls, CallsStayOK, ApiStepIsLedgerStep, PTL DEF ApiSpec, Spec

(***************************************************************************)
(* Behind the API too, whatever is repeated, lost or cut off, an invoice   *)
(* takes the atomic steps of its lifecycle and no others.                  *)
(***************************************************************************)
THEOREM TheApiImplementsTheLifecycle == ApiSpec => ImplementsLifecycle
BY ApiKeepsToTheLedger, ImplementsTheLifecycle, PTL

-----------------------------------------------------------------------------
(***************************************************************************)
(* What a step of the ledger leaves as it was.                             *)
(***************************************************************************)
\* The statuses that an invoice may have from now on.
Reach(status) == IF status = "NONE" THEN Statuses \cup {"NONE"} ELSE Onwards(status)

Beyond(status) == Reach(status) \ {status}

LEMMA LifecycleIsATree ==
  /\ \A s \in Statuses \cup {"NONE"} :
       s \in Reach(s) /\ Reach(s) \subseteq Statuses \cup {"NONE"}
  /\ \A s \in Statuses \cup {"NONE"} : \A r \in Reach(s) : Reach(r) \subseteq Reach(s)
  /\ \A s \in Statuses \cup {"NONE"} : \A r \in Beyond(s) : s \notin Reach(r)
  /\ \A op \in Operations : To(op) \in Reach(From(op)) /\ From(op) \in Statuses \cup {"NONE"}
  /\ \A op, other \in Operations :
       To(op) \in Beyond(From(other)) => From(op) \in Beyond(From(other)) \cup {From(other)}
  /\ \A op \in Operations : \A s \in After(op) : Reach(s) \subseteq After(op)
BY DEF Reach, Beyond, Onwards, Statuses, Operations, From, To, After

\* Whoever takes an invoice out of a status is a valid transaction.
Taken ==
  \A id \in Ids, op \in Operations :
    StatusOf(id) \in Beyond(From(op)) =>
      \E u \in Tx : phase[u] = "VALID" /\ tx[u].id = id /\ From(tx[u].op) = From(op)

LEMMA LedgerMoves ==
  ASSUME IInv, [Next]_vars
  PROVE  /\ \A id \in Ids : StatusOf(id)' \in Reach(StatusOf(id))
         /\ \A id \in Ids, k \in PrivateKeys :
              private[id][k] # Absent => private'[id][k] = private[id][k]
         /\ \A t \in Tx : phase[t] \in Decided => phase'[t] = phase[t]
         /\ \A t \in Tx : phase[t] # "idle" => phase'[t] # "idle" /\ tx'[t] = tx[t]
<1>0. TypeOK /\ \A id \in Ids : StatusOf(id) \in Statuses \cup {"NONE"}
  BY DEF IInv, TypeOK, StatusOf, Invoices
<1>1. ASSUME UNCHANGED <<invoice, private>>
      PROVE  /\ \A id \in Ids : StatusOf(id)' \in Reach(StatusOf(id))
             /\ \A id \in Ids, k \in PrivateKeys :
                  private[id][k] # Absent => private'[id][k] = private[id][k]
  BY <1>0, <1>1, LifecycleIsATree DEF StatusOf
<1>2. ASSUME NEW t \in Tx, Propose(t)
      PROVE  /\ UNCHANGED <<invoice, private>> /\ phase[t] = "idle"
             /\ phase'[t] = "endorsed"
             /\ \A u \in Tx \ {t} : phase'[u] = phase[u] /\ tx'[u] = tx[u]
  BY <1>0, <1>2, ProposeIsSound
     DEF SoundProposal, Proposed, Endorse, Propose, CanEndorse, TypeOK
<1>3. ASSUME NEW t \in Tx, Validate(t)
      PROVE  /\ phase[t] = "endorsed" /\ phase'[t] \in Decided /\ tx' = tx
             /\ \A u \in Tx \ {t} : phase'[u] = phase[u]
  BY <1>0, <1>3
     DEF Validate, FailEndorsement, FailMVCC, Commit, TypeOK, Decided, Failures
<1>4. ASSUME NEW b \in SUBSET Tx, CutBlock(b)
      PROVE  UNCHANGED <<invoice, private, tx, phase>>
  BY <1>4 DEF CutBlock
<1>5. ASSUME NEW t \in Tx, Commit(t)
      PROVE  /\ \A id \in Ids : StatusOf(id)' \in Reach(StatusOf(id))
             /\ \A id \in Ids, k \in PrivateKeys :
                  private[id][k] # Absent => private'[id][k] = private[id][k]
  <2> USE <1>5, CommitEffect
  <2>1. StatusOf(tx[t].id) = From(tx[t].op) /\ StatusOf(tx[t].id)' = To(tx[t].op)
    BY AbsentIsNoRecord DEF Sound, SoundFor, StatusOf, Transactions
  <2>2. \A id \in Ids \ {tx[t].id} : StatusOf(id)' = StatusOf(id) /\ private'[id] = private[id]
    BY DEF StatusOf
  <2>3. tx[t].op \in Operations
    BY DEF Transactions
  <2>4. \A k \in PrivateKeys :
          private[tx[t].id][k] # Absent => private'[tx[t].id][k] = private[tx[t].id][k]
    BY CommitKeeps DEF Kept, Written
  <2> QED
    BY <1>0, <2>1, <2>2, <2>3, <2>4, LifecycleIsATree
<1>6. ASSUME NEW t \in Tx, FailEndorsement(t) \/ FailMVCC(t)
      PROVE  UNCHANGED <<invoice, private>>
  BY <1>6 DEF FailEndorsement, FailMVCC
<1>7. CASE UNCHANGED vars
  BY <1>1, <1>7 DEF vars
<1>8. ASSUME NEW t \in Tx, Propose(t)
      PROVE  /\ \A u \in Tx : phase[u] \in Decided => phase'[u] = phase[u]
             /\ \A u \in Tx : phase[u] # "idle" => phase'[u] # "idle" /\ tx'[u] = tx[u]
  BY <1>2, <1>8 DEF Decided, Failures
<1>9. ASSUME NEW t \in Tx, Validate(t)
      PROVE  /\ \A u \in Tx : phase[u] \in Decided => phase'[u] = phase[u]
             /\ \A u \in Tx : phase[u] # "idle" => phase'[u] # "idle" /\ tx'[u] = tx[u]
  BY <1>3, <1>9 DEF Decided, Failures
<1> QED
  BY <1>1, <1>2, <1>4, <1>5, <1>6, <1>7, <1>8, <1>9 DEF Next, Validate

LEMMA TakenStays ==
  ASSUME IInv, Taken, [Next]_vars
  PROVE  Taken'
<1> SUFFICES ASSUME NEW id \in Ids, NEW op \in Operations,
                    StatusOf(id)' \in Beyond(From(op))
             PROVE  \E u \in Tx : /\ phase'[u] = "VALID" /\ tx'[u].id = id
                                  /\ From(tx'[u].op) = From(op)
  BY DEF Taken
<1>1. CASE StatusOf(id) \in Beyond(From(op))
  <2>1. PICK u \in Tx : phase[u] = "VALID" /\ tx[u].id = id /\ From(tx[u].op) = From(op)
    BY <1>1 DEF Taken
  <2> QED
    BY <2>1, LedgerMoves DEF Decided
<1>2. CASE StatusOf(id) \notin Beyond(From(op))
  <2>1. PICK t \in Tx : Commit(t)
    BY <1>2, OnlyCommitsChangeTheLedger DEF StatusOf
  <2>2. /\ tx[t].op \in Operations /\ tx[t].id = id
        /\ StatusOf(id) = From(tx[t].op) /\ StatusOf(id)' = To(tx[t].op)
    BY <1>2, <2>1, CommitEffect, AbsentIsNoRecord DEF Sound, SoundFor, StatusOf, Transactions
  <2>3. From(tx[t].op) = From(op)
    BY <1>2, <2>2, LifecycleIsATree
  <2> QED
    BY <2>1, <2>2, <2>3, CommitEffect
<1> QED
  BY <1>1, <1>2

LEMMA InitTaken == Init => Taken
BY DEF Init, Taken, StatusOf, Beyond, Reach, From, Operations, Onwards, Statuses

-----------------------------------------------------------------------------
(***************************************************************************)
(* The peers.  Whatever a peer has committed was once the ledger: sound in *)
(* itself, no further than the ledger is now, with documents that are the  *)
(* ledger's, and with the effects of the transactions it calls valid.      *)
(***************************************************************************)
Snapshots ==
  [invoice : [Ids -> Invoices(Tx) \cup {Absent}],
   private : [Ids -> [PrivateKeys -> AmountDocs \cup DetailDocs \cup {Absent}]],
   policy : [Ids -> SUBSET MSPs],
   code : [Tx -> Decided \cup {"none"}]]

Genuine(v, records, documents, codes, txs) ==
  /\ \A id \in Ids :
       /\ InvoiceOK(v.invoice[id], v.private[id], v.policy[id])
       /\ StatusIn(records[id]) \in Reach(StatusIn(v.invoice[id]))
       /\ \A k \in PrivateKeys :
            v.private[id][k] # Absent => v.private[id][k] = documents[id][k]
  /\ \A t \in Tx : v.code[t] # "none" => codes[t] = v.code[t]
  /\ \A t \in Tx :
       v.code[t] = "VALID" => StatusIn(v.invoice[txs[t].id]) \in After(txs[t].op)

Before(v, w) ==
  /\ \A id \in Ids : StatusIn(w.invoice[id]) \in Reach(StatusIn(v.invoice[id]))
  /\ \A t \in Tx : v.code[t] # "none" => w.code[t] = v.code[t]

Newest(m) == IF UpToDate(m) THEN view[m] ELSE backlog[m][Len(backlog[m])]

PeersOK ==
  /\ view \in [MSPs -> Snapshots]
  /\ backlog \in [MSPs -> Seq(Snapshots)]
  /\ \A m \in MSPs :
       /\ Genuine(view[m], invoice, private, phase, tx)
       /\ \A i \in 1..Len(backlog[m]) :
            /\ Genuine(backlog[m][i], invoice, private, phase, tx)
            /\ Before(view[m], backlog[m][i])
            /\ \A j \in 1..Len(backlog[m]) :
                 i < j => Before(backlog[m][i], backlog[m][j])
       /\ Len(backlog[m]) <= MaxLag
       /\ block # {} => Len(backlog[m]) < MaxLag
       /\ block = {} => Newest(m) = Snapshot

LEMMA SnapshotIsGenuine ==
  IInv => Snapshot \in Snapshots /\ Genuine(Snapshot, invoice, private, phase, tx)
<1> SUFFICES ASSUME IInv
             PROVE  Snapshot \in Snapshots /\ Genuine(Snapshot, invoice, private, phase, tx)
  OBVIOUS
<1>1. TypeOK
  BY DEF IInv
<1>2. Snapshot \in Snapshots
  BY <1>1 DEF TypeOK, Snapshot, Snapshots, Decided
<1>3. ASSUME NEW id \in Ids
      PROVE  /\ InvoiceOK(invoice[id], private[id], policy[id])
             /\ StatusIn(invoice[id]) \in Reach(StatusIn(invoice[id]))
  <2>1. StatusIn(invoice[id]) \in Statuses \cup {"NONE"}
    BY <1>1 DEF TypeOK, StatusIn, Invoices
  <2> QED
    BY <2>1, LifecycleIsATree DEF IInv, InvoicesOK
<1>4. \A t \in Tx : phase[t] = "VALID" => StatusIn(invoice[tx[t].id]) \in After(tx[t].op)
  BY DEF IInv, CommittedAreBehind, StatusIn, StatusOf
<1> QED
  BY <1>2, <1>3, <1>4 DEF Snapshot, Genuine

LEMMA NextSnapshotIsGenuine ==
  IInv' => Snapshot' \in Snapshots /\ Genuine(Snapshot', invoice', private', phase', tx')
<1>1. (IInv => Snapshot \in Snapshots /\ Genuine(Snapshot, invoice, private, phase, tx))'
  BY SnapshotIsGenuine, PTL
<1>2. Snapshots' = Snapshots
  BY DEF Snapshots
<1> QED
  BY <1>1, <1>2

LEMMA GenuineStays ==
  ASSUME IInv, [Next]_vars, NEW v \in Snapshots,
         Genuine(v, invoice, private, phase, tx)
  PROVE  Genuine(v, invoice', private', phase', tx')
<1>1. \A id \in Ids : /\ StatusIn(v.invoice[id]) \in Statuses \cup {"NONE"}
                      /\ StatusIn(invoice'[id]) \in Reach(StatusIn(invoice[id]))
  BY LedgerMoves DEF StatusIn, StatusOf, Snapshots, Invoices
<1>2. \A id \in Ids : StatusIn(invoice'[id]) \in Reach(StatusIn(v.invoice[id]))
  BY <1>1, LifecycleIsATree DEF Genuine
<1>3. \A id \in Ids, k \in PrivateKeys :
        v.private[id][k] # Absent => v.private[id][k] = private'[id][k]
  BY LedgerMoves DEF Genuine
<1>4. \A t \in Tx : v.code[t] # "none" =>
        /\ phase[t] = v.code[t] /\ v.code[t] \in Decided
        /\ phase'[t] = v.code[t] /\ tx'[t] = tx[t]
  BY LedgerMoves DEF Genuine, Snapshots, Decided, Failures
<1> QED
  BY <1>2, <1>3, <1>4 DEF Genuine

LEMMA GenuineIsBefore ==
  ASSUME IInv', NEW v \in Snapshots, Genuine(v, invoice', private', phase', tx')
  PROVE  Before(v, Snapshot')
<1>1. \A id \in Ids : StatusIn(Snapshot'.invoice[id]) \in Reach(StatusIn(v.invoice[id]))
  BY DEF Genuine, Snapshot
<1>2. \A t \in Tx : v.code[t] # "none" => v.code[t] \in Decided /\ phase'[t] = v.code[t]
  BY DEF Genuine, Snapshots
<1>3. \A t \in Tx : v.code[t] # "none" => Snapshot'.code[t] = v.code[t]
  BY <1>2 DEF Snapshot
<1> QED
  BY <1>1, <1>3 DEF Before

LEMMA PeersWait ==
  ASSUME IInv, [Next]_vars, PeersOK, UNCHANGED <<network, block>>, Snapshot' = Snapshot
  PROVE  PeersOK'
<1>1. Snapshots' = Snapshots
  BY DEF Snapshots
<1>2. \A v \in Snapshots : Genuine(v, invoice, private, phase, tx)
                             => Genuine(v, invoice', private', phase', tx')
  BY GenuineStays
<1>3. \A m \in MSPs : /\ view[m] \in Snapshots
                      /\ \A i \in 1..Len(backlog[m]) : backlog[m][i] \in Snapshots
                      /\ Newest(m)' = Newest(m)
  BY DEF PeersOK, network, Newest, UpToDate
<1> QED
  BY <1>1, <1>2, <1>3 DEF PeersOK, network

LEMMA PeersAwaitBlock ==
  ASSUME IInv, NEW b \in SUBSET Tx, Order(b), PeersOK
  PROVE  PeersOK'
<1>1. [Next]_vars
  BY DEF Order, Next
<1>2. Snapshots' = Snapshots
  BY DEF Snapshots
<1>3. \A v \in Snapshots : Genuine(v, invoice, private, phase, tx)
                             => Genuine(v, invoice', private', phase', tx')
  BY <1>1, GenuineStays
<1>4. \A m \in MSPs : /\ view[m] \in Snapshots
                      /\ \A i \in 1..Len(backlog[m]) : backlog[m][i] \in Snapshots
  BY DEF PeersOK
<1>5. /\ UNCHANGED <<view, backlog>> /\ block' # {}
      /\ \A m \in MSPs : Len(backlog[m]) < MaxLag
  BY DEF Order, CutBlock, apiState, network
<1> QED
  BY <1>2, <1>3, <1>4, <1>5 DEF PeersOK

LEMMA PeersHearOfBlock ==
  ASSUME IInv, NEW t \in Tx, ValidateBlock(t), PeersOK
  PROVE  PeersOK'
<1>1. [Next]_vars /\ IInv' /\ view' = view /\ block # {}
  BY NextIInv DEF ValidateBlock, Next, Validate, FailEndorsement, FailMVCC, Commit
<1>2. Snapshots' = Snapshots
  BY DEF Snapshots
<1>3. \A v \in Snapshots : Genuine(v, invoice, private, phase, tx)
        => Genuine(v, invoice', private', phase', tx') /\ Before(v, Snapshot')
  BY <1>1, GenuineStays, GenuineIsBefore
<1>4. Snapshot' \in Snapshots /\ Genuine(Snapshot', invoice', private', phase', tx')
  BY <1>1, NextSnapshotIsGenuine
<1>5. \A m \in MSPs : /\ view[m] \in Snapshots /\ backlog[m] \in Seq(Snapshots)
                      /\ \A i \in 1..Len(backlog[m]) : backlog[m][i] \in Snapshots
  BY DEF PeersOK
<1>6. CASE block' = {}
  <2>1. /\ backlog' = [m \in MSPs |-> Append(backlog[m], Snapshot')]
    BY <1>6 DEF ValidateBlock
  <2>2. /\ view' \in [MSPs -> Snapshots] /\ backlog' \in [MSPs -> Seq(Snapshots)]
    BY <1>1, <1>4, <1>5, <2>1 DEF PeersOK
  <2>3. ASSUME NEW m \in MSPs
        PROVE  /\ backlog'[m] # << >> /\ Len(backlog'[m]) = Len(backlog[m]) + 1
               /\ backlog'[m][Len(backlog[m]) + 1] = Snapshot'
               /\ \A i \in 1..Len(backlog[m]) : backlog'[m][i] = backlog[m][i]
    BY <1>4, <1>5, <2>1
  <2>4. ASSUME NEW m \in MSPs, NEW i \in 1..Len(backlog'[m])
        PROVE  /\ Genuine(backlog'[m][i], invoice', private', phase', tx')
               /\ Before(view[m], backlog'[m][i])
               /\ \A j \in 1..Len(backlog'[m]) :
                    i < j => Before(backlog'[m][i], backlog'[m][j])
    <3>1. Len(backlog[m]) \in Nat
      BY <1>5
    <3>2. CASE i = Len(backlog[m]) + 1
      BY <1>3, <1>4, <1>5, <2>3, <3>1, <3>2 DEF PeersOK
    <3>3. CASE i # Len(backlog[m]) + 1
      <4>1. i \in 1..Len(backlog[m]) /\ backlog'[m][i] = backlog[m][i]
        BY <2>3, <3>1, <3>3
      <4>2. Genuine(backlog[m][i], invoice', private', phase', tx')
        BY <1>3, <1>5, <4>1 DEF PeersOK
      <4>3. ASSUME NEW j \in 1..Len(backlog'[m]), i < j
            PROVE  Before(backlog[m][i], backlog'[m][j])
        <5>1. CASE j = Len(backlog[m]) + 1
          BY <1>3, <1>5, <2>3, <4>1, <5>1 DEF PeersOK
        <5>2. CASE j # Len(backlog[m]) + 1
          <6>1. j \in 1..Len(backlog[m]) /\ backlog'[m][j] = backlog[m][j]
            BY <2>3, <3>1, <5>2
          <6> QED
            BY <4>1, <4>3, <6>1 DEF PeersOK
        <5> QED
          BY <5>1, <5>2
      <4> QED
        BY <4>1, <4>2, <4>3 DEF PeersOK
    <3> QED
      BY <3>2, <3>3
  <2>5. ASSUME NEW m \in MSPs
        PROVE  /\ Genuine(view'[m], invoice', private', phase', tx')
               /\ Len(backlog'[m]) <= MaxLag
               /\ Newest(m)' = Snapshot'
    <3>1. Len(backlog[m]) \in Nat /\ Len(backlog[m]) < MaxLag /\ MaxLag \in Nat
      BY <1>1, <1>5, ApiAssumption DEF PeersOK, ApiAssumption
    <3>2. Newest(m)' = Snapshot'
      BY <2>3 DEF Newest, UpToDate
    <3> QED
      BY <1>1, <1>3, <1>5, <2>3, <3>1, <3>2 DEF PeersOK
  <2> QED
    BY <1>1, <1>2, <1>6, <2>2, <2>4, <2>5 DEF PeersOK
<1>7. CASE block' # {}
  BY <1>1, <1>2, <1>3, <1>5, <1>7 DEF PeersOK, ValidateBlock
<1> QED
  BY <1>6, <1>7

LEMMA TailEndsAlike ==
  ASSUME NEW S, NEW s \in Seq(S), s # << >>, Len(s) # 1
  PROVE  Tail(s) # << >> /\ Tail(s)[Len(Tail(s))] = s[Len(s)]
<1>1. Len(s) \in Nat /\ Len(s) > 1
  BY EmptySeq
<1>2. Len(Tail(s)) = Len(s) - 1
  BY HeadTailProperties
<1>3. Len(Tail(s)) # 0 /\ Len(s) - 1 \in 1..(Len(s) - 1)
  BY <1>1, <1>2
<1>4. Tail(s) # << >>
  BY <1>3, EmptySeq
<1>5. Tail(s)[Len(s) - 1] = s[Len(s)]
  BY <1>1, <1>3
<1> QED
  BY <1>2, <1>4, <1>5

LEMMA PeersAdvance ==
  ASSUME NEW m \in MSPs, PeerCommits(m), PeersOK
  PROVE  PeersOK' /\ Before(view[m], view'[m])
<1>1. /\ block = {} /\ backlog[m] # << >> /\ backlog[m] \in Seq(Snapshots)
      /\ view' = [view EXCEPT ![m] = Head(backlog[m])]
      /\ backlog' = [backlog EXCEPT ![m] = Tail(backlog[m])]
      /\ UNCHANGED vars
  BY DEF PeerCommits, BetweenBlocks, UpToDate, PeersOK
<1>2. Snapshots' = Snapshots /\ Snapshot' = Snapshot
  BY <1>1 DEF Snapshots, Snapshot, vars
<1>3. /\ Len(backlog[m]) \in Nat \ {0} /\ Tail(backlog[m]) \in Seq(Snapshots)
      /\ Len(Tail(backlog[m])) = Len(backlog[m]) - 1
      /\ Head(backlog[m]) = backlog[m][1]
      /\ \A i \in 1..(Len(backlog[m]) - 1) : Tail(backlog[m])[i] = backlog[m][i + 1]
      /\ \A i \in 1..Len(backlog[m]) : backlog[m][i] \in Snapshots
  BY <1>1
<1>4. /\ view' \in [MSPs -> Snapshots] /\ backlog' \in [MSPs -> Seq(Snapshots)]
      /\ view'[m] = backlog[m][1] /\ backlog'[m] = Tail(backlog[m])
      /\ \A n \in MSPs \ {m} : view'[n] = view[n] /\ backlog'[n] = backlog[n]
  BY <1>1, <1>3 DEF PeersOK
<1>5. Before(view[m], view'[m])
  <2>1. 1 \in 1..Len(backlog[m])
    BY <1>3
  <2>2. Before(view[m], backlog[m][1])
    BY <2>1 DEF PeersOK
  <2> QED
    BY <1>4, <2>2
<1>6. Genuine(view'[m], invoice, private, phase, tx)
  BY <1>3, <1>4 DEF PeersOK
<1>7. ASSUME NEW i \in 1..Len(backlog'[m])
      PROVE  /\ Genuine(backlog'[m][i], invoice, private, phase, tx)
             /\ Before(view'[m], backlog'[m][i])
             /\ \A j \in 1..Len(backlog'[m]) :
                  i < j => Before(backlog'[m][i], backlog'[m][j])
  <2>1. /\ 1 \in 1..Len(backlog[m]) /\ i + 1 \in 1..Len(backlog[m]) /\ 1 < i + 1
        /\ backlog'[m][i] = backlog[m][i + 1]
    BY <1>3, <1>4
  <2>2. ASSUME NEW j \in 1..Len(backlog'[m]), i < j
        PROVE  Before(backlog'[m][i], backlog'[m][j])
    <3>1. /\ j + 1 \in 1..Len(backlog[m]) /\ i + 1 < j + 1
          /\ backlog'[m][j] = backlog[m][j + 1]
      BY <1>3, <1>4, <2>2
    <3> QED
      BY <2>1, <3>1 DEF PeersOK
  <2> QED
    BY <1>4, <2>1, <2>2 DEF PeersOK
<1>8. Len(backlog'[m]) <= MaxLag
  BY <1>3, <1>4, ApiAssumption DEF PeersOK, ApiAssumption
<1>9. Newest(m)' = Newest(m)
  <2>1. Newest(m) = backlog[m][Len(backlog[m])]
    BY <1>1 DEF Newest, UpToDate
  <2>2. CASE Len(backlog[m]) = 1
    BY <1>1, <1>3, <1>4, <2>1, <2>2 DEF Newest, UpToDate
  <2>3. CASE Len(backlog[m]) # 1
    BY <1>1, <1>4, <2>1, <2>3, TailEndsAlike DEF Newest, UpToDate
  <2> QED
    BY <2>2, <2>3
<1>10. \A n \in MSPs \ {m} : Newest(n)' = Newest(n)
  BY <1>4 DEF Newest, UpToDate
<1>11. Newest(m)' = Snapshot' /\ \A n \in MSPs \ {m} : Newest(n)' = Snapshot'
  BY <1>1, <1>2, <1>9, <1>10 DEF PeersOK
<1>12. UNCHANGED <<invoice, private, phase, tx, block>>
  BY <1>1 DEF vars
<1>13. ASSUME NEW n \in MSPs
       PROVE  /\ Genuine(view'[n], invoice, private, phase, tx)
              /\ \A i \in 1..Len(backlog'[n]) :
                   /\ Genuine(backlog'[n][i], invoice, private, phase, tx)
                   /\ Before(view'[n], backlog'[n][i])
                   /\ \A j \in 1..Len(backlog'[n]) :
                        i < j => Before(backlog'[n][i], backlog'[n][j])
              /\ Len(backlog'[n]) <= MaxLag
  <2>1. CASE n = m
    BY <1>6, <1>7, <1>8, <2>1
  <2>2. CASE n # m
    BY <1>4, <2>2 DEF PeersOK
  <2> QED
    BY <2>1, <2>2
<1> QED
  BY <1>1, <1>2, <1>4, <1>5, <1>11, <1>12, <1>13 DEF PeersOK

LEMMA PeersStayOK ==
  ASSUME IInv, CallsOK, PeersOK, [ApiNext]_apiVars
  PROVE  PeersOK'
<1>1. [Next]_vars
  BY ApiStepIsLedgerStep
<1>2. ASSUME NEW b \in SUBSET Tx, Order(b) PROVE PeersOK'
  BY <1>2, PeersAwaitBlock
<1>3. ASSUME NEW t \in Tx, ValidateBlock(t) PROVE PeersOK'
  BY <1>3, PeersHearOfBlock
<1>4. ASSUME NEW m \in MSPs, PeerCommits(m) PROVE PeersOK'
  BY <1>4, PeersAdvance
<1>5. ASSUME UNCHANGED <<vars, network>> PROVE PeersOK'
  BY <1>1, <1>5, PeersWait DEF vars, Snapshot
<1>6. ASSUME NEW c \in Clients, Submit(c) PROVE PeersOK'
  <2>1. PICK t \in Tx : Propose(t)
    BY <1>6, SubmitProposes
  <2>2. UNCHANGED <<invoice, private, policy, block, network>> /\ phase[t] = "idle"
        /\ phase' = [phase EXCEPT ![t] = "endorsed"]
    BY <1>6, <2>1, ProposeIsSound
       DEF Submit, SoundProposal, Proposed, Endorse, Propose, CanEndorse
  <2>3. Snapshot' = Snapshot
    BY <2>2 DEF Snapshot, Decided, Failures, IInv, TypeOK
  <2> QED
    BY <1>1, <2>2, <2>3, PeersWait
<1>7. ASSUME NEW c \in Clients, (\E q \in Requests : Send(c, q)) \/ Repeat(c) \/ Ends(c)
      PROVE  UNCHANGED <<vars, network>>
  BY <1>7, EndsWithACode DEF Send, Repeat
<1>8. ASSUME NEW m \in MSPs, ServerStops(m) PROVE UNCHANGED <<vars, network>>
  BY <1>8 DEF ServerStops
<1>9. CASE UNCHANGED apiVars
  BY <1>5, <1>9 DEF apiVars, apiState
<1> QED
  BY <1>2, <1>3, <1>4, <1>5, <1>6, <1>7, <1>8, <1>9 DEF ApiNext, Serve, Ends

-----------------------------------------------------------------------------
(***************************************************************************)
(* The parties.  Every state that a peer has, or has still to commit,      *)
(* names in its records the organizations that the roles are for.          *)
(***************************************************************************)
HasItsParties(v) ==
  \A id \in Ids : v.invoice[id] # Absent => MadeByTheParties(v.invoice[id])

PartiesOK ==
  /\ WellMade
  /\ \A m \in MSPs :
       /\ HasItsParties(view[m])
       /\ \A i \in 1..Len(backlog[m]) : HasItsParties(backlog[m][i])

LEMMA SnapshotHasItsParties ==
  /\ WellMade => HasItsParties(Snapshot)
  /\ WellMade' => HasItsParties(Snapshot')
<1>1. WellMade => HasItsParties(Snapshot)
  BY DEF WellMade, HasItsParties, Snapshot
<1>2. (WellMade => HasItsParties(Snapshot))'
  BY <1>1, PTL
<1> QED
  BY <1>1, <1>2 DEF HasItsParties

LEMMA PartiesStay ==
  ASSUME IInv, CallsOK, PeersOK, PartiesOK, [ApiNext]_apiVars
  PROVE  PartiesOK'
<1>1. WellMade'
  BY ApiStepIsLedgerStep, NextWInv DEF WInv, PartiesOK
<1>2. ASSUME UNCHANGED network PROVE PartiesOK'
  BY <1>1, <1>2 DEF PartiesOK, HasItsParties, network
<1>3. ASSUME NEW t \in Tx, ValidateBlock(t) PROVE PartiesOK'
  <2>1. CASE block' = {}
    <3>1. HasItsParties(Snapshot')
      BY <1>1, SnapshotHasItsParties
    <3>2. view' = view /\ backlog' = [m \in MSPs |-> Append(backlog[m], Snapshot')]
      BY <1>3, <2>1 DEF ValidateBlock
    <3>3. ASSUME NEW m \in MSPs, NEW i \in 1..Len(backlog'[m])
          PROVE  HasItsParties(backlog'[m][i])
      <4>1. /\ backlog[m] \in Seq(Snapshots) /\ Len(backlog[m]) \in Nat
            /\ backlog'[m] = Append(backlog[m], Snapshot')
        BY <3>2 DEF PeersOK
      <4>2. i = Len(backlog[m]) + 1 \/ i \in 1..Len(backlog[m])
        BY <4>1
      <4>3. CASE i = Len(backlog[m]) + 1
        BY <3>1, <4>1, <4>3
      <4>4. CASE i \in 1..Len(backlog[m])
        <5>1. backlog'[m][i] = backlog[m][i]
          BY <4>1, <4>4
        <5> QED
          BY <4>4, <5>1 DEF PartiesOK
      <4> QED
        BY <4>2, <4>3, <4>4
    <3> QED
      BY <1>1, <3>2, <3>3 DEF PartiesOK, HasItsParties
  <2>2. CASE block' # {}
    BY <1>2, <1>3, <2>2 DEF ValidateBlock, network
  <2> QED
    BY <2>1, <2>2
<1>4. ASSUME NEW m \in MSPs, PeerCommits(m) PROVE PartiesOK'
  <2>1. /\ backlog[m] # << >> /\ backlog[m] \in Seq(Snapshots)
        /\ view'[m] = Head(backlog[m]) /\ backlog'[m] = Tail(backlog[m])
        /\ \A n \in MSPs \ {m} : view'[n] = view[n] /\ backlog'[n] = backlog[n]
    BY <1>4 DEF PeerCommits, UpToDate, PeersOK
  <2>2. /\ Len(backlog[m]) \in Nat \ {0} /\ Head(backlog[m]) = backlog[m][1]
        /\ Len(Tail(backlog[m])) = Len(backlog[m]) - 1
        /\ \A i \in 1..(Len(backlog[m]) - 1) : Tail(backlog[m])[i] = backlog[m][i + 1]
    BY <2>1
  <2>3. ASSUME NEW n \in MSPs
        PROVE  /\ HasItsParties(view'[n])
               /\ \A i \in 1..Len(backlog'[n]) : HasItsParties(backlog'[n][i])
    <3>1. CASE n = m
      <4>1. \A i \in 1..Len(backlog[m]) : HasItsParties(backlog[m][i])
        BY DEF PartiesOK
      <4>2. 1 \in 1..Len(backlog[m])
        BY <2>2
      <4>3. HasItsParties(view'[m])
        BY <2>1, <2>2, <4>1, <4>2
      <4>4. ASSUME NEW i \in 1..Len(backlog'[m]) PROVE HasItsParties(backlog'[m][i])
        <5>1. /\ i \in 1..(Len(backlog[m]) - 1) /\ i + 1 \in 1..Len(backlog[m])
              /\ backlog'[m][i] = backlog[m][i + 1]
          BY <2>1, <2>2
        <5> QED
          BY <4>1, <5>1
      <4> QED
        BY <3>1, <4>3, <4>4
    <3>2. CASE n # m
      BY <2>1, <3>2 DEF PartiesOK
    <3> QED
      BY <3>1, <3>2
  <2> QED
    BY <1>1, <2>3 DEF PartiesOK, HasItsParties
<1>5. ASSUME NEW c \in Clients,
             (\E q \in Requests : Send(c, q)) \/ Repeat(c) \/ Submit(c) \/ Ends(c)
      PROVE  UNCHANGED network
  BY <1>5, EndsWithACode DEF Send, Repeat, Submit
<1>6. ASSUME NEW m \in MSPs, ServerStops(m) PROVE UNCHANGED network
  BY <1>6 DEF ServerStops
<1>7. ASSUME NEW b \in SUBSET Tx, Order(b) PROVE UNCHANGED network
  BY <1>7 DEF Order, apiState
<1>8. CASE UNCHANGED apiVars
  BY <1>2, <1>8 DEF apiVars, apiState
<1> QED
  BY <1>2, <1>3, <1>4, <1>5, <1>6, <1>7, <1>8 DEF ApiNext, Serve, Ends

-----------------------------------------------------------------------------
(***************************************************************************)
(* The transactions of a request.  Each is the function, the invoice and   *)
(* the documents of the request; the peers that would be asked to endorse  *)
(* it again are among those that did, and they have not gone back since.   *)
(***************************************************************************)
\* The peers whose endorsement the function needs in the status it is for.
Consulted(op) ==
  PolicyFor(From(op)) \cup
    (CASE op = "CreateInvoice"                          -> {"SupplierMSP", "BuyerMSP"}
       [] op \in {"RequestFinancing", "FinanceInvoice"} -> {"SupplierMSP", "FinanceMSP"}
       [] OTHER                                         -> {})

\* The transaction is what the handler makes of the request.
MadeFrom(r, q) ==
  /\ r.op = q.op
  /\ ValidInvoiceID(q.raw) /\ r.id = Canonical[q.raw]
  /\ q.org = CallerOf(q.op)
  /\ q.op = "CreateInvoice" => q.buyer = "BuyerMSP" /\ q.text \in WellFormed
  /\ Consulted(q.op) \subseteq r.endorsers

SentFor(r, q, documents, peers) ==
  /\ MadeFrom(r, q)
  /\ q.complete
  /\ ValidDocuments([private |-> documents], q, r.id)
  /\ \A m \in r.endorsers \cup {q.org} :
       m \in MSPs /\ StatusIn(peers[m].invoice[r.id]) \in Reach(From(r.op))

SentOK ==
  /\ \A c \in Clients : \A t \in sent[c] :
       phase[t] # "idle" /\ SentFor(tx[t], call[c], private, view)
  /\ \A c, d \in Clients : c # d => sent[c] \cap sent[d] = {}

\* What every handler ends with.
LEMMA EndorseSends ==
  ASSUME IInv, NEW t \in Tx, CanEndorse(t), NEW q \in Requests, NEW record, NEW writes,
         ValidInvoiceID(q.raw), StatusOf(Canonical[q.raw]) = From(q.op),
         q.org = CallerOf(q.op),
         q.op = "CreateInvoice" => q.buyer = "BuyerMSP" /\ q.text \in WellFormed,
         Consulted(q.op) \ PolicyFor(From(q.op))
           \subseteq UNION {CollectionMembers(k) : k \in Written(writes)},
         Endorse(t, q.org, q.op, Canonical[q.raw], record, writes)
  PROVE  MadeFrom(tx'[t], q) /\ tx'[t].endorsers \subseteq MSPs
<1> DEFINE id == Canonical[q.raw]
<1>1. id \in Ids
  BY CanonicalIsId, RequestFields
<1>2. /\ tx'[t].op = q.op /\ tx'[t].id = id
      /\ tx'[t].endorsers = RequiredEndorsers(id, writes)
  BY DEF Endorse, IInv, TypeOK
<1>3. policy[id] = PolicyFor(From(q.op)) /\ policy[id] \subseteq MSPs
  BY <1>1 DEF IInv, InvoicesOK, InvoiceOK, StatusIn, StatusOf, TypeOK
<1>4. Consulted(q.op) \subseteq RequiredEndorsers(id, writes)
  BY <1>3 DEF RequiredEndorsers
<1>5. RequiredEndorsers(id, writes) \subseteq MSPs
  BY <1>3 DEF RequiredEndorsers, CollectionMembers, MSPs
<1> QED
  BY <1>2, <1>4, <1>5 DEF MadeFrom

LEMMA HandleSends ==
  ASSUME IInv, NEW t \in Tx, CanEndorse(t), NEW q \in Requests, Handle(t, q)
  PROVE  /\ MadeFrom(tx'[t], q) /\ tx'[t].endorsers \subseteq MSPs
         /\ StatusOf(Canonical[q.raw]) = From(q.op)
         /\ ValidDocuments([private |-> private], q, Canonical[q.raw])
<1> USE RequestFields DEF RequireMSP, CallerOf
<1>0. Absent \notin Invoices(Tx)
  BY AbsentIsNoRecord
<1>1. CASE handleCreateInvoice(t, q)
  <2> DEFINE writes == [NoWrites EXCEPT !["commercialTerms"] = AmountDoc(q, q.amount),
                                        !["paymentDetails"] = DetailDoc(q)]
  <2>1. /\ q.op = "CreateInvoice" /\ ValidInvoiceID(q.raw) /\ q.org = "SupplierMSP"
        /\ StatusOf(Canonical[q.raw]) = "NONE" /\ q.buyer = "BuyerMSP"
        /\ q.text \in WellFormed
        /\ ValidDocuments([private |-> private], q, Canonical[q.raw])
        /\ \E record : Endorse(t, q.org, q.op, Canonical[q.raw], record, writes)
    BY <1>1 DEF handleCreateInvoice, CreateInvoice, StatusOf, ValidDocuments
  <2>2. "commercialTerms" \in Written(writes)
    BY DocumentsAreTyped, AbsentIsNoDocument
       DEF Written, NoWrites, PrivateKeys, AmountKeys, DetailKeys
  <2> HIDE DEF writes
  <2>3. Consulted(q.op) \ PolicyFor(From(q.op))
          \subseteq UNION {CollectionMembers(k) : k \in Written(writes)}
    BY <2>1, <2>2 DEF Consulted, CollectionMembers, InvoicePartiesKeys
  <2> QED
    BY <2>1, <2>3, EndorseSends DEF From
<1>2. CASE handleApprove(t, q)
  <2>1. /\ q.op = "ApproveInvoice" /\ ValidInvoiceID(q.raw) /\ q.org = "BuyerMSP"
        /\ StatusOf(Canonical[q.raw]) = "CREATED"
        /\ \E record : Endorse(t, q.org, q.op, Canonical[q.raw], record, NoWrites)
    BY <1>2 DEF handleApprove, ApproveInvoice, StatusOf
  <2>2. ValidDocuments([private |-> private], q, Canonical[q.raw])
    BY <2>1 DEF ValidDocuments
  <2> QED
    BY <2>1, <2>2, EndorseSends DEF From, Consulted
<1>3. CASE handleReject(t, q)
  <2>1. /\ q.op = "RejectInvoice" /\ ValidInvoiceID(q.raw) /\ q.org = "BuyerMSP"
        /\ StatusOf(Canonical[q.raw]) = "CREATED"
        /\ \E record : Endorse(t, q.org, q.op, Canonical[q.raw], record, NoWrites)
    BY <1>3 DEF handleReject, RejectInvoice, StatusOf
  <2>2. ValidDocuments([private |-> private], q, Canonical[q.raw])
    BY <2>1 DEF ValidDocuments
  <2> QED
    BY <2>1, <2>2, EndorseSends DEF From, Consulted
<1>4. CASE handleRequestFinancing(t, q)
  <2> DEFINE writes == [NoWrites EXCEPT !["disclosure"] = AmountDoc(q, q.amount),
                                        !["financingRequest"] = AmountDoc(q, q.asked),
                                        !["disbursementDetails"] = DetailDoc(q)]
  <2>1. /\ q.op = "RequestFinancing" /\ ValidInvoiceID(q.raw) /\ q.org = "SupplierMSP"
        /\ StatusOf(Canonical[q.raw]) = "APPROVED"
        /\ \E record : Endorse(t, q.org, q.op, Canonical[q.raw], record, writes)
    BY <1>4 DEF handleRequestFinancing, RequestFinancing, StatusOf
  <2>2. ValidDocuments([private |-> private], q, Canonical[q.raw])
    BY <1>4 DEF handleRequestFinancing, RequestFinancing, ValidDocuments, AmountDoc
  <2>3. "financingRequest" \in Written(writes)
    BY DocumentsAreTyped, AbsentIsNoDocument
       DEF Written, NoWrites, PrivateKeys, AmountKeys, DetailKeys
  <2> HIDE DEF writes
  <2>4. Consulted(q.op) \ PolicyFor(From(q.op))
          \subseteq UNION {CollectionMembers(k) : k \in Written(writes)}
    BY <2>1, <2>3 DEF Consulted, CollectionMembers, InvoicePartiesKeys
  <2> QED
    BY <2>1, <2>2, <2>4, EndorseSends DEF From
<1>5. CASE handleFinance(t, q)
  <2> DEFINE writes == [NoWrites EXCEPT !["financingAgreement"] = AmountDoc(q, q.asked)]
  <2>1. /\ q.op = "FinanceInvoice" /\ ValidInvoiceID(q.raw) /\ q.org = "FinanceMSP"
        /\ StatusOf(Canonical[q.raw]) = "FINANCING_REQUESTED"
        /\ \E record : Endorse(t, q.org, q.op, Canonical[q.raw], record, writes)
    BY <1>5 DEF handleFinance, FinanceInvoice, StatusOf
  <2>2. ValidDocuments([private |-> private], q, Canonical[q.raw])
    BY <1>5 DEF handleFinance, FinanceInvoice, ValidDocuments
  <2>3. "financingAgreement" \in Written(writes)
    BY DocumentsAreTyped, AbsentIsNoDocument
       DEF Written, NoWrites, PrivateKeys, AmountKeys, DetailKeys
  <2> HIDE DEF writes
  <2>4. Consulted(q.op) \ PolicyFor(From(q.op))
          \subseteq UNION {CollectionMembers(k) : k \in Written(writes)}
    BY <2>1, <2>3 DEF Consulted, CollectionMembers, InvoicePartiesKeys
  <2> QED
    BY <2>1, <2>2, <2>4, EndorseSends DEF From
<1>6. CASE handleSettle(t, q)
  <2>1. /\ q.op = "SettleInvoice" /\ ValidInvoiceID(q.raw) /\ q.org = "BuyerMSP"
        /\ StatusOf(Canonical[q.raw]) = "FINANCED"
        /\ \E record : Endorse(t, q.org, q.op, Canonical[q.raw], record, NoWrites)
    BY <1>6 DEF handleSettle, SettleInvoice, StatusOf
  <2>2. ValidDocuments([private |-> private], q, Canonical[q.raw])
    BY <2>1 DEF ValidDocuments
  <2> QED
    BY <2>1, <2>2, EndorseSends DEF From, Consulted
<1> QED
  BY <1>1, <1>2, <1>3, <1>4, <1>5, <1>6 DEF Handle

\* The documents that the function compares with are there to stay.
LEMMA SentStays ==
  ASSUME IInv, [Next]_vars, PeersOK, NEW t \in Tx, NEW q \in Requests,
         phase[t] # "idle", SentFor(tx[t], q, private, view),
         NEW views, \A m \in MSPs : views[m] = view[m] \/ Before(view[m], views[m])
  PROVE  phase'[t] # "idle" /\ SentFor(tx'[t], q, private', views)
<1> DEFINE id == tx[t].id
<1>1. /\ tx'[t] = tx[t] /\ phase'[t] # "idle"
      /\ tx[t] \in Transactions /\ id \in Ids /\ q.op \in Operations /\ q.org \in MSPs
  BY LedgerMoves, RequestFields DEF IInv, TypeOK, Transactions
<1>2. /\ q.org \in MSPs /\ tx[t].op = q.op
      /\ StatusIn(view[q.org].invoice[id]) \in Reach(From(q.op))
  BY <1>1 DEF SentFor, MadeFrom
<1>3. StatusOf(id) \in Reach(From(q.op))
  <2>1. StatusOf(id) \in Reach(StatusIn(view[q.org].invoice[id]))
    BY <1>1, <1>2 DEF PeersOK, Genuine, StatusOf, StatusIn
  <2> QED
    BY <1>1, <1>2, <2>1, LifecycleIsATree
<1>4. InvoiceOK(invoice[id], private[id], policy[id]) /\ StatusIn(invoice[id]) = StatusOf(id)
  BY <1>1 DEF IInv, InvoicesOK, StatusIn, StatusOf
<1>5. ValidDocuments([private |-> private'], q, id)
  <2>1. ValidDocuments([private |-> private], q, id)
    BY DEF SentFor
  <2>2. \A k \in PrivateKeys : k \in DocumentsFor(StatusOf(id)) => private'[id][k] = private[id][k]
    BY <1>1, <1>4, LedgerMoves DEF InvoiceOK
  <2>3. CASE q.op = "RequestFinancing"
    <3>1. "commercialTerms" \in PrivateKeys /\ "commercialTerms" \in DocumentsFor(StatusOf(id))
      BY <1>3, <2>3 DEF Reach, Onwards, From, Statuses, DocumentsFor, InvoicePartiesKeys,
                        PrivateKeys, AmountKeys, DetailKeys
    <3>2. private'[id]["commercialTerms"] = private[id]["commercialTerms"]
      BY <2>2, <3>1
    <3> QED
      BY <2>1, <2>3, <3>2 DEF ValidDocuments
  <2>4. CASE q.op = "FinanceInvoice"
    <3>1. /\ {"disclosure", "financingRequest"} \subseteq PrivateKeys
          /\ {"disclosure", "financingRequest"} \subseteq DocumentsFor(StatusOf(id))
      BY <1>3, <2>4 DEF Reach, Onwards, From, Statuses, DocumentsFor, InvoicePartiesKeys,
                        PrivateKeys, AmountKeys, DetailKeys
    <3>2. /\ private'[id]["disclosure"] = private[id]["disclosure"]
          /\ private'[id]["financingRequest"] = private[id]["financingRequest"]
      BY <2>2, <3>1
    <3> QED
      BY <2>1, <2>4, <3>2 DEF ValidDocuments
  <2>5. CASE q.op \notin {"RequestFinancing", "FinanceInvoice"}
    BY <2>1, <2>5 DEF ValidDocuments
  <2> QED
    BY <2>3, <2>4, <2>5
<1>6. ASSUME NEW m \in tx[t].endorsers \cup {q.org}
      PROVE  m \in MSPs /\ StatusIn(views[m].invoice[id]) \in Reach(From(tx[t].op))
  <2>1. m \in MSPs /\ StatusIn(view[m].invoice[id]) \in Reach(From(tx[t].op))
    BY <1>6 DEF SentFor
  <2>2. CASE Before(view[m], views[m])
    BY <1>1, <1>2, <2>1, <2>2, LifecycleIsATree DEF Before
  <2> QED
    BY <2>1, <2>2
<1> QED
  BY <1>1, <1>5, <1>6 DEF SentFor

\* What a submission adds.
LEMMA SubmitSends ==
  ASSUME IInv, CallsOK, PeersOK, NEW c \in Clients, Submit(c)
  PROVE  \E t \in Tx :
           /\ phase[t] = "idle" /\ phase' = [phase EXCEPT ![t] = "endorsed"]
           /\ sent' = [sent EXCEPT ![c] = @ \cup {t}]
           /\ SentFor(tx'[t], call[c], private', view')
<1>1. call[c] \in Requests /\ UNCHANGED <<view, call>>
  BY DEF Submit, CallsOK, network
<1>2. PICK t \in Tx : /\ Propose(t) /\ Handle(t, call[c]) /\ CanEndorse(t)
                      /\ \A m \in tx'[t].endorsers \cup {call[c].org} : UpToDate(m)
                      /\ sent' = [sent EXCEPT ![c] = @ \cup {t}]
  BY SubmitProposes
<1> DEFINE q == call[c]
           id == Canonical[q.raw]
<1>3. /\ phase[t] = "idle" /\ block = {} /\ phase' = [phase EXCEPT ![t] = "endorsed"]
      /\ private' = private
  BY <1>2, ProposeIsSound DEF SoundProposal, Proposed, Endorse, CanEndorse
<1>4. /\ MadeFrom(tx'[t], q) /\ tx'[t].endorsers \subseteq MSPs
      /\ StatusOf(id) = From(q.op) /\ ValidDocuments([private |-> private], q, id)
  BY <1>1, <1>2, HandleSends
<1>5. tx'[t].id = id /\ id \in Ids /\ tx'[t].op = q.op /\ q.op \in Operations
  BY <1>1, <1>4, CanonicalIsId, RequestFields DEF MadeFrom
<1>6. ASSUME NEW m \in tx'[t].endorsers \cup {q.org}
      PROVE  m \in MSPs /\ StatusIn(view[m].invoice[id]) \in Reach(From(q.op))
  <2>1. m \in MSPs /\ view[m] = Snapshot
    BY <1>1, <1>2, <1>3, <1>4, <1>6, RequestFields DEF PeersOK, Newest
  <2> QED
    BY <1>4, <1>5, <2>1, LifecycleIsATree DEF Snapshot, StatusIn, StatusOf
<1>7. q.complete
  BY DEF Submit, BadBody
<1> HIDE DEF q, id
<1>8. SentFor(tx'[t], q, private', view')
  BY <1>1, <1>3, <1>4, <1>5, <1>6, <1>7 DEF SentFor
<1> QED
  BY <1>2, <1>3, <1>8 DEF q

LEMMA SentStaysOK ==
  ASSUME IInv, CallsOK, PeersOK, SentOK, [ApiNext]_apiVars
  PROVE  SentOK'
<1>1. [Next]_vars
  BY ApiStepIsLedgerStep
<1>2. \A c \in Clients : sent[c] \subseteq Tx /\ \A t \in sent[c] : call[c] \in Requests
  BY DEF CallsOK
<1>3. ASSUME \A m \in MSPs : view'[m] = view[m] \/ Before(view[m], view'[m])
      PROVE  \A c \in Clients : \A t \in sent[c] :
               phase'[t] # "idle" /\ SentFor(tx'[t], call[c], private', view')
  BY <1>1, <1>2, <1>3, SentStays DEF SentOK
<1>4. ASSUME UNCHANGED <<call, sent>>,
             \A m \in MSPs : view'[m] = view[m] \/ Before(view[m], view'[m])
      PROVE  SentOK'
  BY <1>3, <1>4 DEF SentOK
<1>5. ASSUME NEW c \in Clients, NEW q \in Requests, Send(c, q) PROVE SentOK'
  <2>1. /\ view' = view /\ call' = [call EXCEPT ![c] = q]
        /\ sent' = [sent EXCEPT ![c] = {}]
    BY <1>5 DEF Send, network
  <2>2. \A d \in Clients : \/ sent'[d] = {}
                           \/ sent'[d] = sent[d] /\ call'[d] = call[d]
    BY <2>1 DEF CallsOK
  <2> QED
    BY <1>3, <2>1, <2>2 DEF SentOK
<1>6. ASSUME NEW c \in Clients, Submit(c) PROVE SentOK'
  <2>1. PICK t \in Tx :
          /\ phase[t] = "idle" /\ phase' = [phase EXCEPT ![t] = "endorsed"]
          /\ sent' = [sent EXCEPT ![c] = @ \cup {t}]
          /\ SentFor(tx'[t], call[c], private', view')
    BY <1>6, SubmitSends
  <2>2. call' = call /\ view' = view /\ phase'[t] = "endorsed"
    BY <1>6, <2>1 DEF Submit, network, IInv, TypeOK
  <2>3. /\ sent'[c] = sent[c] \cup {t}
        /\ \A d \in Clients \ {c} : sent'[d] = sent[d]
        /\ \A d \in Clients : t \notin sent[d]
    BY <2>1 DEF CallsOK, SentOK
  <2>4. \A d \in Clients : \A u \in sent'[d] :
          phase'[u] # "idle" /\ SentFor(tx'[u], call'[d], private', view')
    BY <1>3, <2>1, <2>2, <2>3
  <2>5. \A d, e \in Clients : d # e => sent'[d] \cap sent'[e] = {}
    BY <2>3 DEF SentOK
  <2> QED
    BY <2>4, <2>5 DEF SentOK
<1>7. ASSUME NEW m \in MSPs, PeerCommits(m) PROVE SentOK'
  <2>1. Before(view[m], view'[m]) /\ UNCHANGED <<call, sent>>
    BY <1>7, PeersAdvance DEF PeerCommits
  <2>2. \A n \in MSPs \ {m} : view'[n] = view[n]
    BY <1>7 DEF PeerCommits, PeersOK
  <2> QED
    BY <1>4, <2>1, <2>2
<1>8. ASSUME NEW c \in Clients, Repeat(c) \/ Ends(c)
      PROVE  UNCHANGED <<view, call, sent>>
  BY <1>8, EndsWithACode DEF Repeat, network
<1>9. ASSUME NEW t \in Tx, ValidateBlock(t)
      PROVE  UNCHANGED <<view, call, sent>>
  BY <1>9 DEF ValidateBlock
<1>10. ASSUME NEW b \in SUBSET Tx, Order(b)
       PROVE  UNCHANGED <<view, call, sent>>
  BY <1>10 DEF Order, apiState, network
<1>11. ASSUME NEW m \in MSPs, ServerStops(m)
       PROVE  UNCHANGED <<view, call, sent>>
  BY <1>11 DEF ServerStops, network
<1>12. CASE UNCHANGED apiVars
  BY <1>4, <1>12 DEF apiVars, apiState, network
<1> QED
  BY <1>4, <1>5, <1>6, <1>7, <1>8, <1>9, <1>10, <1>11, <1>12 DEF ApiNext, Serve, Ends

-----------------------------------------------------------------------------
(***************************************************************************)
(* What a repetition is told.                                              *)
(***************************************************************************)
\* The checks that follow the one of the status.
LaterChecks == {"financed", "duplicate", "missing", "documents"}

\* The refusal is the first check that fails.
LEMMA RefusalIsTheFirst ==
  ASSUME NEW v, NEW q
  PROVE  LET r == Refusal(v, q)
             all == {"MSP", "arguments", "existence", "party", "status"} \cup LaterChecks IN
         /\ r = "none" => \A check \in all : ~Fails(v, q, check)
         /\ r # "none" =>
              /\ r \in all /\ Fails(v, q, r)
              /\ r \in {"party", "status"} \cup LaterChecks => ~Fails(v, q, "existence")
              /\ r \in LaterChecks => ~Fails(v, q, "status")
<1> DEFINE P(i) == Fails(v, q, Checks[i])
           First(i) == P(i) /\ \A j \in 1..(i - 1) : ~P(j)
           all == {"MSP", "arguments", "existence", "party", "status"} \cup LaterChecks
<1>1. /\ Len(Checks) = 9 /\ Checks[1] = "MSP" /\ Checks[2] = "arguments"
      /\ Checks[3] = "existence" /\ Checks[4] = "party" /\ Checks[5] = "status"
      /\ Checks[6] = "financed" /\ Checks[7] = "duplicate" /\ Checks[8] = "missing"
      /\ Checks[9] = "documents"
  BY DEF Checks
<1>2. Refusal(v, q) = IF \E i \in 1..9 : P(i)
                      THEN Checks[CHOOSE i \in 1..9 : First(i)] ELSE "none"
  BY <1>1 DEF Refusal
<1>3. ASSUME \E i \in 1..9 : P(i) PROVE \E i \in 1..9 : First(i)
  <2> HIDE DEF P
  <2>1. ASSUME NEW n \in 1..9, P(n), \A j \in 1..(n - 1) : ~P(j) PROVE \E i \in 1..9 : First(i)
    BY <2>1
  <2>2. \/ P(1) \/ P(2) \/ P(3) \/ P(4) \/ P(5) \/ P(6) \/ P(7) \/ P(8) \/ P(9)
    BY <1>3
  <2>3. \E n \in 1..9 : P(n) /\ \A j \in 1..(n - 1) : ~P(j)
    <3>1. CASE P(1) \/ P(2) \/ P(3) \/ P(4)
      BY <3>1
    <3>2. CASE ~(P(1) \/ P(2) \/ P(3) \/ P(4))
      BY <2>2, <3>2
    <3> QED
      BY <3>1, <3>2
  <2> QED
    BY <2>1, <2>3
<1>4. CASE \E i \in 1..9 : P(i)
  <2>1. PICK i \in 1..9 : i = CHOOSE j \in 1..9 : First(j)
    BY <1>3, <1>4
  <2>2. First(i)
    BY <1>3, <1>4, <2>1
  <2>3. Refusal(v, q) = Checks[i]
    BY <1>2, <1>4, <2>1
  <2>4. /\ Refusal(v, q) \in {"party", "status"} \cup LaterChecks => i > 3
        /\ Refusal(v, q) \in LaterChecks => i > 5
        /\ Refusal(v, q) \in all
    BY <1>1, <2>3 DEF LaterChecks
  <2>5. Fails(v, q, Refusal(v, q))
    BY <2>2, <2>3
  <2>6. i > 3 => ~Fails(v, q, "existence")
    BY <1>1, <2>2
  <2>7. i > 5 => ~Fails(v, q, "status")
    BY <1>1, <2>2
  <2>8. Refusal(v, q) # "none"
    BY <2>4 DEF LaterChecks
  <2> QED
    BY <2>4, <2>5, <2>6, <2>7, <2>8
<1>5. CASE ~\E i \in 1..9 : P(i)
  BY <1>1, <1>2, <1>5 DEF LaterChecks
<1> QED
  BY <1>4, <1>5

\* The status for which the function is, in the words of the code.
LEMMA FromIsStatusBefore ==
  ASSUME NEW op \in Operations
  PROVE  /\ op = "CreateInvoice" <=> From(op) = "NONE"
         /\ op # "CreateInvoice" => From(op) = StatusBefore(op)
BY DEF Operations, From, StatusBefore

\* The peers that are asked again are among those that endorsed.
LEMMA AskedAgain ==
  ASSUME IInv, PeersOK, NEW t \in Tx, NEW q \in Requests, SentFor(tx[t], q, private, view)
  PROVE  Asked(q) \subseteq tx[t].endorsers \cup {q.org}
<1> DEFINE own == view[q.org]
           id == Canonical[q.raw]
<1> USE RequestFields
<1>1. /\ MadeFrom(tx[t], q) /\ id \in Ids /\ own \in Snapshots
      /\ InvoiceOK(own.invoice[id], own.private[id], own.policy[id])
  BY CanonicalIsId DEF SentFor, MadeFrom, PeersOK, Genuine
<1>2. CASE Refusal(own, q) # "none"
  BY <1>2 DEF Asked
<1>3. CASE Refusal(own, q) = "none"
  <2>1. ~Fails(own, q, "existence") /\ ~Fails(own, q, "status")
    BY <1>3, RefusalIsTheFirst
  <2>2. own.invoice[id] # Absent => own.invoice[id].status \in Statuses
    BY <1>1 DEF Snapshots, Invoices
  <2>3. StatusIn(own.invoice[id]) = From(q.op)
    BY <2>1, FromIsStatusBefore DEF Fails, StatusIn
  <2>4. own.policy[id] = PolicyFor(From(q.op))
    BY <1>1, <2>3 DEF InvoiceOK
  <2>5. Asked(q) \subseteq Consulted(q.op)
    <3> DEFINE written ==
                 CASE q.op = "CreateInvoice"    -> InvoicePartiesKeys
                   [] q.op = "RequestFinancing" -> PrivateKeys \ InvoicePartiesKeys
                   [] q.op = "FinanceInvoice"   -> {"financingAgreement"}
                   [] OTHER                     -> {}
    <3>1. Asked(q) = PolicyFor(From(q.op)) \cup UNION {CollectionMembers(k) : k \in written}
      BY <1>3, <2>4 DEF Asked
    <3>2. UNION {CollectionMembers(k) : k \in written} \subseteq Consulted(q.op)
      BY DEF Consulted, CollectionMembers, InvoicePartiesKeys, Operations
    <3> QED
      BY <3>1, <3>2 DEF Consulted
  <2> QED
    BY <1>1, <2>5 DEF MadeFrom
<1> QED
  BY <1>2, <1>3

\* Where the invoice is still in the status that the function is for, no peer
\* objects to the documents of the request.
LEMMA DocumentsPassAgain ==
  ASSUME IInv, PeersOK, NEW t \in Tx, NEW q \in Requests, SentFor(tx[t], q, private, view),
         NEW m \in MSPs, StatusIn(view[m].invoice[tx[t].id]) = From(q.op)
  PROVE  ValidDocuments(view[m], q, tx[t].id)
<1> DEFINE id == tx[t].id
<1> USE RequestFields
<1>1. /\ id \in Ids /\ ValidDocuments([private |-> private], q, id)
      /\ InvoiceOK(view[m].invoice[id], view[m].private[id], view[m].policy[id])
      /\ \A k \in PrivateKeys :
           view[m].private[id][k] # Absent => view[m].private[id][k] = private[id][k]
  BY CanonicalIsId DEF SentFor, MadeFrom, PeersOK, Genuine
<1>2. \A k \in PrivateKeys : k \in DocumentsFor(From(q.op)) =>
        view[m].private[id][k] = private[id][k]
  BY <1>1 DEF InvoiceOK
<1>3. CASE q.op = "RequestFinancing"
  <2>1. "commercialTerms" \in PrivateKeys /\ "commercialTerms" \in DocumentsFor(From(q.op))
    BY <1>3 DEF From, DocumentsFor, InvoicePartiesKeys, PrivateKeys, AmountKeys
  <2>2. view[m].private[id]["commercialTerms"] = private[id]["commercialTerms"]
    BY <1>2, <2>1
  <2> QED
    BY <1>1, <1>3, <2>2 DEF ValidDocuments
<1>4. CASE q.op = "FinanceInvoice"
  <2>1. /\ {"disclosure", "financingRequest"} \subseteq PrivateKeys
        /\ {"disclosure", "financingRequest"} \subseteq DocumentsFor(From(q.op))
    BY <1>4 DEF From, DocumentsFor, InvoicePartiesKeys, PrivateKeys, AmountKeys
  <2>2. /\ view[m].private[id]["disclosure"] = private[id]["disclosure"]
        /\ view[m].private[id]["financingRequest"] = private[id]["financingRequest"]
    BY <1>2, <2>1
  <2> QED
    BY <1>1, <1>4, <2>2 DEF ValidDocuments
<1>5. CASE q.op \notin {"RequestFinancing", "FinanceInvoice"}
  BY <1>1, <1>5 DEF ValidDocuments
<1> QED
  BY <1>3, <1>4, <1>5

\* The caller that has the role is the party that the record names.
LEMMA PartiesPassAgain ==
  ASSUME PartiesOK, NEW q \in Requests, NEW m \in MSPs, ValidInvoiceID(q.raw),
         q.org = CallerOf(q.op), ~Fails(view[m], q, "existence")
  PROVE  ~Fails(view[m], q, "party")
<1> DEFINE record == view[m].invoice[Canonical[q.raw]]
<1>1. record # Absent => record.supplier = "SupplierMSP" /\ record.buyer = "BuyerMSP"
  BY CanonicalIsId, RequestFields DEF PartiesOK, HasItsParties, MadeByTheParties
<1> QED
  BY <1>1, RequestFields DEF Fails, CallerOf, RequireInvoiceBuyer, RequireInvoiceSupplier

\* Where the invoice is still in the status that the function is for, it objects
\* to nothing after that.
LEMMA LaterChecksPassAgain ==
  ASSUME IInv, PeersOK, NEW t \in Tx, NEW q \in Requests, SentFor(tx[t], q, private, view),
         NEW m \in MSPs, StatusIn(view[m].invoice[tx[t].id]) = From(q.op)
  PROVE  \A check \in LaterChecks : ~Fails(view[m], q, check)
<1> DEFINE id == Canonical[q.raw]
           record == view[m].invoice[id]
           doc == view[m].private[id]
<1> USE RequestFields
<1>1. /\ tx[t].id = id /\ id \in Ids /\ StatusIn(record) = From(q.op)
      /\ InvoiceOK(record, doc, view[m].policy[id])
  BY CanonicalIsId DEF SentFor, MadeFrom, PeersOK, Genuine
<1>2. ~Fails(view[m], q, "financed")
  BY <1>1 DEF Fails, InvoiceOK, StatusIn, From
<1>3. \A k \in NotYet(q.op) : k \in PrivateKeys /\ k \notin DocumentsFor(From(q.op))
  BY DEF NotYet, From, DocumentsFor, InvoicePartiesKeys, PrivateKeys, AmountKeys, DetailKeys
<1>4. \A k \in Needed(q.op) : k \in PrivateKeys /\ k \in DocumentsFor(From(q.op))
  BY DEF Needed, From, DocumentsFor, InvoicePartiesKeys, PrivateKeys, AmountKeys, DetailKeys
<1>5. ~Fails(view[m], q, "duplicate") /\ ~Fails(view[m], q, "missing")
  BY <1>1, <1>3, <1>4 DEF Fails, InvoiceOK
<1>6. ~Fails(view[m], q, "documents")
  BY <1>1, DocumentsPassAgain DEF Fails
<1> QED
  BY <1>2, <1>5, <1>6 DEF LaterChecks

\* The key fact about repetitions: a peer that refuses one does so because the
\* invoice has moved on, and someone has moved it.
LEMMA RefusedForARival ==
  ASSUME IInv, PeersOK, PartiesOK, Taken, NEW t \in Tx, NEW q \in Requests, phase[t] # "idle",
         SentFor(tx[t], q, private, view),
         NEW m \in Asked(q), Refusal(view[m], q) # "none"
  PROVE  /\ handleFabricError(q.op, Refusal(view[m], q)) = "409"
         /\ \E u \in Tx : phase[u] = "VALID" /\ (u = t \/ Rivals(t, u))
<1> DEFINE id == tx[t].id
           refusal == Refusal(view[m], q)
           shown == StatusIn(view[m].invoice[id])
<1> USE RequestFields
<1>1. /\ MadeFrom(tx[t], q) /\ id = Canonical[q.raw] /\ id \in Ids /\ tx[t].op = q.op
  BY CanonicalIsId DEF SentFor, MadeFrom
<1>2. m \in MSPs /\ shown \in Reach(From(q.op))
  BY <1>1, AskedAgain DEF SentFor
<1>3. /\ view[m].invoice[id] \in Invoices(Tx) \cup {Absent}
      /\ StatusOf(id) \in Reach(shown)
  BY <1>1, <1>2 DEF PeersOK, Snapshots, Genuine, StatusOf, StatusIn
<1>4. shown \in Statuses \cup {"NONE"} /\ (view[m].invoice[id] = Absent <=> shown = "NONE")
  BY <1>3 DEF StatusIn, Invoices, Statuses
<1>5. /\ refusal \in {"existence", "party", "status"} \cup LaterChecks
      /\ Fails(view[m], q, refusal)
  <2>1. ~Fails(view[m], q, "MSP") /\ ~Fails(view[m], q, "arguments")
    BY <1>1 DEF MadeFrom, Fails
  <2> QED
    BY <2>1, RefusalIsTheFirst
<1>6. ASSUME refusal # "existence"
      PROVE  ~Fails(view[m], q, "existence") /\ ~Fails(view[m], q, "party")
  <2>1. ~Fails(view[m], q, "existence")
    BY <1>5, <1>6, RefusalIsTheFirst
  <2> QED
    BY <1>1, <1>2, <2>1, PartiesPassAgain DEF MadeFrom
<1>7. shown # From(q.op)
  <2> SUFFICES ASSUME shown = From(q.op) PROVE FALSE
    OBVIOUS
  <2>1. ~Fails(view[m], q, "existence")
    BY <1>1, <1>4, FromIsStatusBefore DEF Fails
  <2>2. ~Fails(view[m], q, "status")
    BY <1>1, <1>4, FromIsStatusBefore DEF Fails, StatusIn
  <2>3. \A check \in LaterChecks : ~Fails(view[m], q, check)
    BY <1>1, <1>2, LaterChecksPassAgain
  <2> QED
    BY <1>5, <1>6, <2>1, <2>2, <2>3
<1>8. refusal = "existence" => q.op = "CreateInvoice"
  <2> SUFFICES ASSUME refusal = "existence", q.op # "CreateInvoice" PROVE FALSE
    OBVIOUS
  <2>1. shown = "NONE"
    BY <1>1, <1>4, <1>5 DEF Fails
  <2> QED
    BY <1>2, <1>7, <2>1, FromIsStatusBefore DEF Reach, Onwards, From, Statuses, Operations
<1>9. refusal \in {"existence", "status"}
  <2> SUFFICES ASSUME refusal \in LaterChecks PROVE FALSE
    BY <1>5, <1>6
  <2>1. ~Fails(view[m], q, "existence") /\ ~Fails(view[m], q, "status")
    BY RefusalIsTheFirst DEF LaterChecks
  <2>2. shown = From(q.op)
    BY <1>1, <1>4, <2>1, FromIsStatusBefore DEF Fails, StatusIn
  <2> QED
    BY <1>7, <2>2
<1>10. handleFabricError(q.op, refusal) = "409"
  BY <1>8, <1>9
     DEF handleFabricError, IsNotFoundError, IsAuthorizationError, IsConflictError
<1>11. StatusOf(id) \in Beyond(From(q.op))
  BY <1>2, <1>3, <1>4, <1>7, LifecycleIsATree DEF Beyond
<1>12. PICK u \in Tx : phase[u] = "VALID" /\ tx[u].id = id /\ From(tx[u].op) = From(q.op)
  BY <1>1, <1>11 DEF Taken
<1>13. tx[u].op \in Operations
  BY <1>12 DEF IInv, TypeOK, Transactions
<1>14. tx[u].op = q.op \/ {q.op, tx[u].op} = {"ApproveInvoice", "RejectInvoice"}
  BY <1>12, <1>13 DEF From, Operations
<1> QED
  BY <1>1, <1>10, <1>12, <1>14 DEF Rivals

\* A 2xx is said of a transaction that the server's own peer has committed.
SuccessIsCommitted ==
  \A c \in Clients : answer[c] \in {"200", "201"} =>
    \E t \in sent[c] : view[call[c].org].code[t] = "VALID"

LEMMA VerdictsStay ==
  ASSUME IInv, CallsOK, PeersOK, PartiesOK, SentOK, Taken, SuccessIsCommitted,
         RepeatsAreResolved, [ApiNext]_apiVars
  PROVE  SuccessIsCommitted' /\ RepeatsAreResolved'
<1> DEFINE Resolved(t, u) == phase[u] = "VALID" /\ (u = t \/ Rivals(t, u))
<1>1. [Next]_vars
  BY ApiStepIsLedgerStep
<1>2. \A c \in Clients : \A t \in sent[c] : \A u \in Tx :
        Resolved(t, u) => Resolved(t, u)'
  <2> SUFFICES ASSUME NEW c \in Clients, NEW t \in sent[c], NEW u \in Tx, Resolved(t, u)
               PROVE  Resolved(t, u)'
    OBVIOUS
  <2>1. t \in Tx /\ phase[t] # "idle"
    BY DEF CallsOK, SentOK
  <2>2. tx'[t] = tx[t] /\ tx'[u] = tx[u] /\ phase'[u] = "VALID"
    BY <1>1, <2>1, LedgerMoves DEF Decided
  <2> QED
    BY <2>2 DEF Rivals
<1>3. ASSUME NEW c \in Clients, UNCHANGED <<call[c], stage[c], sent[c], answer[c]>>,
             \A m \in MSPs : view'[m] = view[m] \/ Before(view[m], view'[m])
      PROVE  /\ answer'[c] \in {"200", "201"} =>
                  \E t \in sent'[c] : view'[call'[c].org].code[t] = "VALID"
             /\ stage'[c] = "answered" /\ sent'[c] # {}
                  /\ answer'[c] \in Verdicts \ {"200", "201"} =>
                  /\ answer'[c] = "409"
                  /\ \E t \in sent'[c], u \in Tx : Resolved(t, u)'
  <2>1. ASSUME answer[c] \in {"200", "201"}
        PROVE  \E t \in sent[c] : view'[call[c].org].code[t] = "VALID"
    <3>1. PICK t \in sent[c] : view[call[c].org].code[t] = "VALID"
      BY <2>1 DEF SuccessIsCommitted
    <3>2. t \in Tx /\ call[c].org \in MSPs
      BY RequestFields, <2>1 DEF CallsOK
    <3> QED
      BY <1>3, <3>1, <3>2 DEF Before
  <2>2. ASSUME stage[c] = "answered", sent[c] # {}, answer[c] \in Verdicts \ {"200", "201"}
        PROVE  answer[c] = "409" /\ \E t \in sent[c], u \in Tx : Resolved(t, u)'
    <3>1. answer[c] = "409" /\ \E t \in sent[c], u \in Tx : Resolved(t, u)
      BY <2>2 DEF RepeatsAreResolved
    <3> QED
      BY <1>2, <3>1
  <2> QED
    BY <1>3, <2>1, <2>2
<1>4. ASSUME NEW c \in Clients, stage'[c] \in InFlight \/ answer'[c] \in Unknowns, CallsOK'
      PROVE  /\ answer'[c] \notin {"200", "201"}
             /\ ~(stage'[c] = "answered" /\ answer'[c] \in Verdicts \ {"200", "201"})
  BY <1>4 DEF CallsOK, InFlight, Unknowns, Verdicts
<1>5. CallsOK'
  BY CallsStayOK
<1>6. ASSUME NEW C \in SUBSET Clients,
             \A m \in MSPs : view'[m] = view[m] \/ Before(view[m], view'[m]),
             \A c \in C : stage'[c] \in InFlight \/ answer'[c] \in Unknowns,
             \A c \in Clients \ C : UNCHANGED <<call[c], stage[c], sent[c], answer[c]>>
      PROVE  SuccessIsCommitted' /\ RepeatsAreResolved'
  BY <1>3, <1>4, <1>5, <1>6 DEF SuccessIsCommitted, RepeatsAreResolved
<1>7. ASSUME NEW c \in Clients, NEW q \in Requests, Send(c, q)
      PROVE  SuccessIsCommitted' /\ RepeatsAreResolved'
  <2>1. /\ view' = view /\ stage'[c] = "handling" /\ {c} \in SUBSET Clients
        /\ \A d \in Clients \ {c} : UNCHANGED <<call[d], stage[d], sent[d], answer[d]>>
    BY <1>7 DEF Send, network, CallsOK
  <2> QED
    BY <1>6, <2>1 DEF InFlight
<1>8. ASSUME NEW c \in Clients, Repeat(c)
      PROVE  SuccessIsCommitted' /\ RepeatsAreResolved'
  <2>1. /\ view' = view /\ stage'[c] = "handling" /\ {c} \in SUBSET Clients
        /\ \A d \in Clients \ {c} : UNCHANGED <<call[d], stage[d], sent[d], answer[d]>>
    BY <1>8 DEF Repeat, network, CallsOK
  <2> QED
    BY <1>6, <2>1 DEF InFlight
<1>9. ASSUME NEW c \in Clients, Submit(c)
      PROVE  SuccessIsCommitted' /\ RepeatsAreResolved'
  <2>1. /\ view' = view /\ stage'[c] = "waiting" /\ {c} \in SUBSET Clients
        /\ \A d \in Clients \ {c} : UNCHANGED <<call[d], stage[d], sent[d], answer[d]>>
    BY <1>9 DEF Submit, network, CallsOK
  <2> QED
    BY <1>6, <2>1 DEF InFlight
<1>10. ASSUME NEW org \in MSPs, ServerStops(org)
       PROVE  SuccessIsCommitted' /\ RepeatsAreResolved'
  <2> DEFINE C == {c \in Clients : stage[c] \in InFlight /\ call[c].org = org}
  <2>1. /\ view' = view /\ C \in SUBSET Clients
        /\ \A c \in C : answer'[c] \in Unknowns
        /\ \A d \in Clients \ C : UNCHANGED <<call[d], stage[d], sent[d], answer[d]>>
    BY <1>10 DEF ServerStops, network, CallsOK, Unknowns
  <2> HIDE DEF C
  <2> QED
    BY <1>6, <2>1
<1>11. ASSUME NEW c \in Clients, Ends(c)
       PROVE  SuccessIsCommitted' /\ RepeatsAreResolved'
  <2>1. /\ UNCHANGED <<vars, network, call, sent>> /\ view' = view
        /\ \A d \in Clients \ {c} : UNCHANGED <<call[d], stage[d], sent[d], answer[d]>>
        /\ call[c] \in Requests /\ {c} \in SUBSET Clients
    BY <1>11, EndsWithACode DEF network, CallsOK, InFlight
  <2>2. CASE answer'[c] \in Unknowns
    BY <1>6, <2>1, <2>2
  <2>3. CASE RejectBody(c)
    <3>1. sent[c] = {} /\ answer'[c] = "400"
      BY <2>3 DEF RejectBody, BadBody, SentOK, SentFor, Say, CallsOK
    <3>2. \A d \in Clients \ {c} : UNCHANGED <<call[d], stage[d], sent[d], answer[d]>>
      BY <2>1
    <3> QED
      BY <1>3, <2>1, <3>1, <3>2 DEF SuccessIsCommitted, RepeatsAreResolved
  <2>4. CASE Refuse(c) /\ answer'[c] \notin Unknowns
    <3>1. PICK m \in Asked(call[c]) :
            /\ Refusal(view[m], call[c]) # "none"
            /\ answer'[c] = handleFabricError(call[c].op, Refusal(view[m], call[c]))
      BY <2>4 DEF Refuse, Say, CallsOK, Unknowns
    <3>2. answer'[c] \notin {"200", "201"}
      BY <3>1 DEF handleFabricError
    <3>3. ASSUME NEW t \in sent[c]
          PROVE  answer'[c] = "409" /\ \E u \in Tx : Resolved(t, u)
      <4>1. t \in Tx /\ phase[t] # "idle" /\ SentFor(tx[t], call[c], private, view)
        BY DEF SentOK, CallsOK
      <4> QED
        BY <2>1, <3>1, <4>1, RefusedForARival
    <3>4. sent[c] # {} => answer'[c] = "409" /\ \E t \in sent[c], u \in Tx : Resolved(t, u)'
      BY <1>2, <3>3
    <3> QED
      BY <1>3, <2>1, <3>2, <3>4 DEF SuccessIsCommitted, RepeatsAreResolved
  <2>5. CASE Confirm(c) /\ answer'[c] \notin Unknowns
    <3>1. PICK t \in Tx : /\ Latest(c, t) /\ view[call[c].org].code[t] = "VALID"
                          /\ answer'[c] = Success(call[c])
      BY <2>5 DEF Confirm, Say, CallsOK, Unknowns
    <3>2. t \in sent[c] /\ answer'[c] \in {"200", "201"}
      BY <3>1 DEF Latest, Success
    <3> QED
      BY <1>3, <2>1, <3>1, <3>2 DEF SuccessIsCommitted, RepeatsAreResolved
  <2>6. CASE CallFails(c)
    <3>1. answer'[c] \in Unknowns
      BY <2>6 DEF CallFails, Say, CallsOK
    <3> QED
      BY <2>2, <3>1
  <2> QED
    BY <1>11, <2>2, <2>3, <2>4, <2>5, <2>6 DEF Ends
<1>12. ASSUME NEW m \in MSPs, PeerCommits(m)
       PROVE  SuccessIsCommitted' /\ RepeatsAreResolved'
  <2>1. Before(view[m], view'[m]) /\ UNCHANGED <<call, stage, sent, answer>>
    BY <1>12, PeersAdvance DEF PeerCommits
  <2>2. \A n \in MSPs \ {m} : view'[n] = view[n]
    BY <1>12 DEF PeerCommits, PeersOK
  <2> QED
    BY <1>3, <2>1, <2>2 DEF SuccessIsCommitted, RepeatsAreResolved
<1>13. ASSUME UNCHANGED <<view, call, stage, sent, answer>>
       PROVE  SuccessIsCommitted' /\ RepeatsAreResolved'
  BY <1>3, <1>13 DEF SuccessIsCommitted, RepeatsAreResolved
<1>14. ASSUME NEW t \in Tx, ValidateBlock(t)
       PROVE  UNCHANGED <<view, call, stage, sent, answer>>
  BY <1>14 DEF ValidateBlock
<1>15. ASSUME NEW b \in SUBSET Tx, Order(b)
       PROVE  UNCHANGED <<view, call, stage, sent, answer>>
  BY <1>15 DEF Order, apiState, network
<1>16. CASE UNCHANGED apiVars
  BY <1>13, <1>16 DEF apiVars, apiState, network
<1> QED
  BY <1>7, <1>8, <1>9, <1>10, <1>11, <1>12, <1>13, <1>14, <1>15, <1>16
     DEF ApiNext, Serve, Ends

(***************************************************************************)
(* The invariant of the API.                                               *)
(***************************************************************************)
AInv ==
  /\ IInv /\ Taken
  /\ CallsOK /\ PeersOK /\ PartiesOK /\ SentOK
  /\ SuccessIsCommitted /\ RepeatsAreResolved

LEMMA InitAInv == ApiInit => AInv
<1> SUFFICES ASSUME ApiInit PROVE AInv
  OBVIOUS
<1>1. Init /\ IInv /\ Taken /\ CallsOK
  BY InitIInv, InitTaken, InitCalls DEF ApiInit
<1>2. PeersOK
  <2>1. Snapshot \in Snapshots /\ Genuine(Snapshot, invoice, private, phase, tx)
    BY <1>1, SnapshotIsGenuine
  <2>2. /\ view = [m \in MSPs |-> Snapshot] /\ backlog = [m \in MSPs |-> << >>]
        /\ block = {}
    BY DEF ApiInit, Init
  <2>3. \A m \in MSPs : view[m] = Snapshot /\ Len(backlog[m]) = 0 /\ Newest(m) = Snapshot
    BY <2>2 DEF Newest, UpToDate
  <2>4. backlog \in [MSPs -> Seq(Snapshots)] /\ view \in [MSPs -> Snapshots]
    BY <2>1, <2>2
  <2>5. \A m \in MSPs : 1..Len(backlog[m]) = {} /\ Len(backlog[m]) <= MaxLag
    BY <2>3, ApiAssumption DEF ApiAssumption
  <2> QED
    BY <2>1, <2>2, <2>3, <2>4, <2>5 DEF PeersOK
<1>3. SentOK /\ SuccessIsCommitted /\ RepeatsAreResolved
  BY DEF ApiInit, SentOK, SuccessIsCommitted, RepeatsAreResolved
<1>4. PartiesOK
  <2>1. WellMade
    BY <1>1, InitWInv DEF WInv
  <2>2. view = [m \in MSPs |-> Snapshot] /\ backlog = [m \in MSPs |-> << >>]
    BY DEF ApiInit
  <2> QED
    BY <2>1, <2>2, SnapshotHasItsParties DEF PartiesOK
<1> QED
  BY <1>1, <1>2, <1>3, <1>4 DEF AInv

LEMMA NextAInv == AInv /\ [ApiNext]_apiVars => AInv'
<1> SUFFICES ASSUME AInv, [ApiNext]_apiVars PROVE AInv'
  OBVIOUS
<1>1. IInv' /\ Taken'
  BY ApiStepIsLedgerStep, NextIInv, TakenStays DEF AInv
<1>2. /\ CallsOK' /\ PeersOK' /\ PartiesOK' /\ SentOK'
      /\ SuccessIsCommitted' /\ RepeatsAreResolved'
  BY CallsStayOK, PeersStayOK, PartiesStay, SentStaysOK, VerdictsStay DEF AInv
<1> QED
  BY <1>1, <1>2 DEF AInv

(***************************************************************************)
(* The invariant holds of every behaviour of the servers and the ledger.   *)
(***************************************************************************)
THEOREM ApiInvariance == ApiSpec => []AInv
BY InitAInv, NextAInv, PTL DEF ApiSpec

-----------------------------------------------------------------------------
(***************************************************************************)
(* Every variable of the servers keeps its type; the peers are never more  *)
(* than MaxLag blocks behind, and the newest of what a peer has and what   *)
(* it has still to commit is the ledger.                                   *)
(***************************************************************************)
THEOREM ApiTypesAreCorrect == ApiSpec => []ApiTypeOK
<1>1. AInv => ApiTypeOK
  <2> SUFFICES ASSUME AInv PROVE ApiTypeOK
    OBVIOUS
  <2>1. DOMAIN view = MSPs /\ DOMAIN backlog = MSPs
    BY DEF AInv, PeersOK
  <2>2. ASSUME NEW m \in MSPs, block = {}
        PROVE  Last(<<view[m]>> \o backlog[m]) = Snapshot
    <3>1. /\ view[m] \in Snapshots /\ backlog[m] \in Seq(Snapshots)
          /\ Newest(m) = Snapshot
      BY <2>2 DEF AInv, PeersOK
    <3>2. CASE backlog[m] = << >>
      <4>1. <<view[m]>> \o backlog[m] = <<view[m]>>
        BY <3>1, <3>2, ConcatEmptySeq
      <4> QED
        BY <3>1, <3>2, <4>1 DEF Newest, UpToDate, Last
    <3>3. CASE backlog[m] # << >>
      <4>1. /\ Len(backlog[m]) \in Nat \ {0} /\ <<view[m]>> \in Seq(Snapshots)
            /\ Len(<<view[m]>>) = 1
        BY <3>1, <3>3, EmptySeq
      <4>2. /\ Len(<<view[m]>> \o backlog[m]) = Len(backlog[m]) + 1
            /\ (<<view[m]>> \o backlog[m])[Len(backlog[m]) + 1] = backlog[m][Len(backlog[m])]
        BY <3>1, <4>1
      <4> QED
        BY <3>1, <3>3, <4>2 DEF Newest, UpToDate, Last
    <3> QED
      BY <3>2, <3>3
  <2>3. sent \in [Clients -> SUBSET {t \in Tx : phase[t] # "idle"}]
    BY DEF AInv, CallsOK, SentOK
  <2> QED
    BY <2>1, <2>2, <2>3 DEF AInv, CallsOK, PeersOK, ApiTypeOK
<1> QED
  BY <1>1, ApiInvariance, PTL

(***************************************************************************)
(* A request that got as far as a transaction and is refused when it is    *)
(* repeated is refused with 409, after it or a rival has been committed,   *)
(* whatever the distance between the peers and however often it is         *)
(* repeated.                                                               *)
(***************************************************************************)
THEOREM EveryRefusedRepeatIsAConflict == ApiSpec => []RepeatsAreResolved
<1>1. AInv => RepeatsAreResolved
  BY DEF AInv
<1> QED
  BY <1>1, ApiInvariance, PTL

(***************************************************************************)
(* After a 2xx the same server shows the effect, or what came of it.       *)
(***************************************************************************)
THEOREM ClientsReadTheirWrites == ApiSpec => []ReadYourWrites
<1>1. AInv => ReadYourWrites
  <2> SUFFICES ASSUME AInv, NEW c \in Clients, answer[c] \in {"200", "201"}
               PROVE  Shows(call[c].org, call[c])
    BY DEF ReadYourWrites
  <2> DEFINE q == call[c]
             id == Canonical[q.raw]
             v == view[q.org]
  <2>1. q \in Requests /\ q.op \in Operations /\ q.org \in MSPs
    BY RequestFields DEF AInv, CallsOK
  <2>2. PICK t \in sent[c] : v.code[t] = "VALID"
    BY DEF AInv, SuccessIsCommitted
  <2>3. t \in Tx /\ MadeFrom(tx[t], q)
    BY DEF AInv, SentOK, SentFor, CallsOK
  <2>4. id \in Ids /\ ValidInvoiceID(q.raw)
    BY <2>1, <2>3, CanonicalIsId, RequestFields DEF MadeFrom
  <2>5. v \in Snapshots /\ StatusIn(v.invoice[id]) \in After(q.op)
    BY <2>1, <2>2, <2>3 DEF AInv, PeersOK, Genuine, MadeFrom
  <2>6. /\ After(q.op) \subseteq Onwards(StatusAfter(q.op))
        /\ "NONE" \notin After(q.op)
    BY <2>1 DEF Operations, After, Onwards, StatusAfter, Statuses
  <2>7. v.invoice[id] # Absent /\ v.invoice[id].status \in Onwards(StatusAfter(q.op))
    BY <2>5, <2>6 DEF StatusIn
  <2>8. handleGetInvoice(q.org, q.raw) = Reply("200", v.invoice[id])
    BY <2>1, <2>4, <2>7 DEF handleGetInvoice, ReadPublicInvoice, Read
  <2>9. /\ handleQueryInvoices(q.org, v.invoice[id].status).code = "200"
        /\ id \in handleQueryInvoices(q.org, v.invoice[id].status).body
    <3>1. v.invoice[id].status \in Statuses
      BY <2>4, <2>5, <2>7 DEF Snapshots, Invoices
    <3> QED
      BY <2>1, <2>4, <2>7, <3>1 DEF handleQueryInvoices, QueryPublicInvoicesByStatus, Reply
  <2> HIDE DEF q, id, v
  <2>10. Shows(q.org, q)
    BY <2>7, <2>8, <2>9 DEF Shows, Reply, id
  <2> QED
    BY <2>10 DEF q
<1> QED
  BY <1>1, ApiInvariance, PTL

-----------------------------------------------------------------------------
\* What a server shows of an invoice's documents is what its peer has stored.
LEMMA ShownIsStored ==
  ASSUME NEW m \in MSPs, NEW id \in Ids, NEW p \in DocumentsShown(m, id)
  PROVE  \E k \in PrivateKeys : p = <<k, view[m].private[id][k]>>
<1>1. Canonical[id] = id
  BY IdsAreCanonical
<1> DEFINE terms == handleGetPrivateData(m, id)
           financing == handleGetFinancingTerms(m, id)
           doc == view[m].private[id]
<1>2. terms.code = "200" => terms.body = [k \in InvoicePartiesKeys |-> doc[k]]
  BY <1>1 DEF handleGetPrivateData, ReadPrivateInvoiceData, Read, Reply, handleFabricError
<1>3. financing.code = "200" =>
        financing.body = [k \in PrivateKeys \ (InvoicePartiesKeys \cup {"disbursementDetails"})
                            |-> doc[k]]
  BY <1>1 DEF handleGetFinancingTerms, ReadFinancingTerms, Read, Reply, handleFabricError
<1>4. InvoicePartiesKeys \subseteq PrivateKeys
  BY DEF InvoicePartiesKeys, PrivateKeys, AmountKeys, DetailKeys
<1> HIDE DEF terms, financing, doc
<1>5. p \in {<<k, terms.body[k]>> : k \in IF terms.code = "200" THEN DOMAIN terms.body ELSE {}}
            \cup {<<k, financing.body[k]>> :
                    k \in IF financing.code = "200" THEN DOMAIN financing.body ELSE {}}
  BY DEF DocumentsShown, terms, financing
<1>6. \E k \in PrivateKeys : p = <<k, doc[k]>>
  BY <1>2, <1>3, <1>4, <1>5
<1> QED
  BY <1>6 DEF doc

(***************************************************************************)
(* No two servers show different documents of an invoice, the financier is *)
(* shown the terms that the buyer is shown, and a status is shown with     *)
(* exactly its documents, from whatever peers.                             *)
(***************************************************************************)
THEOREM ServersAgreeOnDocuments == ApiSpec => []ShownDocumentsAgree
<1>1. AInv => ShownDocumentsAgree
  <2> SUFFICES ASSUME AInv, NEW id \in Ids
               PROVE  \A m, n \in MSPs :
                 /\ \A p \in DocumentsShown(m, id), q \in DocumentsShown(n, id) :
                      (p[2] # Absent /\ q[2] # Absent
                         /\ (p[1] = q[1] \/ {p[1], q[1]} = {"commercialTerms", "disclosure"}))
                      => p[2] = q[2]
                 /\ handleGetInvoice(m, id).code = "200" =>
                      \A p \in DocumentsShown(m, id) :
                        p[2] # Absent
                          <=> p[1] \in DocumentsFor(handleGetInvoice(m, id).body.status)
    BY DEF ShownDocumentsAgree
  <2>1. ASSUME NEW m \in MSPs, NEW p \in DocumentsShown(m, id), p[2] # Absent
        PROVE  p[1] \in PrivateKeys /\ p[2] = private[id][p[1]]
    BY <2>1, ShownIsStored DEF AInv, PeersOK, Genuine
  <2>2. private[id]["disclosure"] # Absent =>
          private[id]["disclosure"] = private[id]["commercialTerms"]
    BY DEF AInv, IInv, InvoicesOK, InvoiceOK, Chained
  <2>3. ASSUME NEW m \in MSPs, NEW n \in MSPs,
               NEW p \in DocumentsShown(m, id), NEW q \in DocumentsShown(n, id),
               p[2] # Absent, q[2] # Absent,
               p[1] = q[1] \/ {p[1], q[1]} = {"commercialTerms", "disclosure"}
        PROVE  p[2] = q[2]
    <3>1. p[2] = private[id][p[1]] /\ q[2] = private[id][q[1]]
      BY <2>1, <2>3
    <3>2. \/ p[1] = q[1]
          \/ p[1] = "commercialTerms" /\ q[1] = "disclosure"
          \/ p[1] = "disclosure" /\ q[1] = "commercialTerms"
      BY <2>3
    <3> QED
      BY <2>2, <2>3, <3>1, <3>2
  <2>4. ASSUME NEW m \in MSPs, handleGetInvoice(m, id).code = "200",
               NEW p \in DocumentsShown(m, id)
        PROVE  p[2] # Absent <=> p[1] \in DocumentsFor(handleGetInvoice(m, id).body.status)
    <3> DEFINE v == view[m]
    <3>1. Canonical[id] = id
      BY IdsAreCanonical
    <3>2. v.invoice[id] # Absent /\ handleGetInvoice(m, id).body = v.invoice[id]
      BY <2>4, <3>1 DEF handleGetInvoice, ReadPublicInvoice, Read, Reply, handleFabricError
    <3>3. \A k \in PrivateKeys :
            v.private[id][k] # Absent <=> k \in DocumentsFor(v.invoice[id].status)
      BY <3>2 DEF AInv, PeersOK, Genuine, InvoiceOK, StatusIn
    <3>4. PICK k \in PrivateKeys : p = <<k, v.private[id][k]>>
      BY ShownIsStored
    <3> QED
      BY <3>2, <3>3, <3>4
  <2> QED
    BY <2>3, <2>4
<1> QED
  BY <1>1, ApiInvariance, PTL

-----------------------------------------------------------------------------
(***************************************************************************)
(* From block to block.  Between one block and the next of those that a    *)
(* peer has still to commit, no invoice moves by more than one edge; and   *)
(* while a block is validated, the ledger is no further than that from     *)
(* the block before it: an invoice that has moved has made every           *)
(* transaction on it that is still to come stale.                          *)
(***************************************************************************)
AtMostOneEdge(before, after) ==
  before # after => <<before, after>> \in Edges \cup {<<"NONE", "CREATED">>}

Continues(v, records, documents) ==
  \A id \in Ids :
    /\ AtMostOneEdge(StatusIn(v.invoice[id]), StatusIn(records[id]))
    /\ v.invoice[id] # Absent =>
         /\ records[id] # Absent
         /\ records[id].supplier = v.invoice[id].supplier
         /\ records[id].buyer = v.invoice[id].buyer
    /\ \A k \in PrivateKeys :
         v.private[id][k] # Absent => documents[id][k] = v.private[id][k]

Follows(w, v) == Continues(v, w.invoice, w.private)

BlockContinues(v) ==
  /\ Continues(v, invoice, private)
  /\ \A t \in block :
       StatusOf(tx[t].id) # StatusIn(v.invoice[tx[t].id]) => ~Unstale(t)

PeersGoByOne ==
  \A m \in MSPs :
    /\ backlog[m] # << >> => Follows(backlog[m][1], view[m])
    /\ \A i \in 1..(Len(backlog[m]) - 1) : Follows(backlog[m][i + 1], backlog[m][i])
    /\ block # {} => BlockContinues(Newest(m))

\* Every verdict keeps to it.
LEMMA BlockGoesOn ==
  ASSUME IInv, NEW t \in Tx, Validate(t), NEW v, BlockContinues(v)
  PROVE  BlockContinues(v)'
<1>1. CASE FailEndorsement(t) \/ FailMVCC(t)
  <2>1. UNCHANGED <<invoice, private, version, tx>> /\ block' \subseteq block
    BY <1>1 DEF FailEndorsement, FailMVCC
  <2> QED
    BY <2>1 DEF BlockContinues, Continues, StatusOf, Unstale
<1>2. CASE Commit(t)
  <2> DEFINE own == tx[t].id
  <2>0. t \in block
    BY <1>2 DEF Commit
  <2>1. /\ tx' = tx /\ own \in Ids /\ Unstale(t) /\ Sound(t)
        /\ tx[t] \in Transactions /\ invoice'[own] = tx[t].invoice
        /\ \A id \in Ids \ {own} : UNCHANGED <<invoice[id], private[id]>>
    BY <1>2, CommitEffect
  <2>2. tx[t].op \in Operations /\ tx[t].invoice # Absent
    BY <2>1, AbsentIsNoRecord DEF Transactions
  <2>3. StatusOf(own) = From(tx[t].op) /\ StatusOf(own)' = To(tx[t].op)
    BY <2>1, <2>2 DEF Sound, SoundFor, StatusOf
  <2>4. \A id \in Ids : AtMostOneEdge(StatusIn(v.invoice[id]), StatusIn(invoice'[id]))
    <3>1. StatusIn(v.invoice[own]) = StatusOf(own) /\ StatusIn(invoice'[own]) = StatusOf(own)'
      BY <2>0, <2>1 DEF BlockContinues, StatusOf, StatusIn
    <3>2. AtMostOneEdge(StatusIn(v.invoice[own]), StatusIn(invoice'[own]))
      BY <2>2, <2>3, <3>1, EventsOfTheEdges DEF AtMostOneEdge
    <3> QED
      BY <2>1, <3>2 DEF BlockContinues, Continues
  <2>5. \A id \in Ids : invoice[id] # Absent => invoice'[id] # Absent
    BY <2>1, <2>2
  <2>6. Continues(v, invoice, private)'
    BY <1>2, <2>4, <2>5, CommitKeeps DEF BlockContinues, Continues, Kept, Written
  <2>7. ASSUME NEW u \in block',
               StatusOf(tx[u].id)' # StatusIn(v.invoice[tx[u].id])
        PROVE  ~Unstale(u)'
    <3>1. CASE tx[u].id = own
      BY <1>2, <3>1, CommitMakesStale
    <3>2. CASE tx[u].id # own
      <4>1. u \in block /\ tx[u].id \in Ids /\ (Unstale(u)' <=> Unstale(u))
        BY <1>2, <3>2, CommitMakesStale
      <4>2. StatusOf(tx[u].id)' = StatusOf(tx[u].id)
        BY <2>1, <3>2, <4>1 DEF StatusOf
      <4> QED
        BY <2>7, <4>1, <4>2 DEF BlockContinues
    <3> QED
      BY <3>1, <3>2
  <2> QED
    BY <2>1, <2>6, <2>7 DEF BlockContinues
<1> QED
  BY <1>1, <1>2 DEF Validate

\* A step that leaves the peers and the block alone.
LEMMA NothingToFollow ==
  ASSUME UNCHANGED network, UNCHANGED block, block = {}, PeersGoByOne
  PROVE  PeersGoByOne'
<1>1. view' = view /\ backlog' = backlog /\ block' = {}
  BY DEF network
<1>2. ASSUME NEW m \in MSPs
      PROVE  /\ backlog'[m] # << >> => Follows(backlog'[m][1], view'[m])
             /\ \A i \in 1..(Len(backlog'[m]) - 1) :
                  Follows(backlog'[m][i + 1], backlog'[m][i])
  BY <1>1 DEF PeersGoByOne
<1> QED
  BY <1>1, <1>2 DEF PeersGoByOne, Follows, Continues

LEMMA OrderGoesOn ==
  ASSUME AInv, PeersGoByOne, NEW b \in SUBSET Tx, Order(b)
  PROVE  PeersGoByOne'
<1>1. /\ block = {} /\ block' \subseteq Tx
      /\ UNCHANGED <<view, backlog, invoice, private, version, tx>>
  BY DEF Order, CutBlock, apiState, network
<1>2. ASSUME NEW m \in MSPs PROVE BlockContinues(Newest(m))'
  <2>1. Newest(m)' = Snapshot
    BY <1>1 DEF AInv, PeersOK, Newest, UpToDate
  <2>2. Snapshot.invoice = invoice /\ Snapshot.private = private
    BY DEF Snapshot
  <2>3. Continues(Snapshot, invoice, private)
    BY <2>2 DEF Continues, AtMostOneEdge
  <2>4. \A t \in block' : StatusOf(tx[t].id) = StatusIn(Snapshot.invoice[tx[t].id])
    BY <2>2 DEF StatusOf, StatusIn
  <2> QED
    BY <1>1, <2>1, <2>3, <2>4 DEF BlockContinues, StatusOf
<1> QED
  BY <1>1, <1>2 DEF PeersGoByOne, Follows

LEMMA BlockIsFollowed ==
  ASSUME AInv, PeersGoByOne, NEW t \in Tx, ValidateBlock(t)
  PROVE  PeersGoByOne'
<1>1. Validate(t) /\ block # {} /\ view' = view
  BY DEF ValidateBlock, Validate, FailEndorsement, FailMVCC, Commit
<1>2. \A m \in MSPs : BlockContinues(Newest(m)) /\ Continues(Newest(m), invoice', private')
  BY <1>1, BlockGoesOn DEF AInv, PeersGoByOne, BlockContinues
<1>3. CASE block' = {}
  <2>1. backlog' = [m \in MSPs |-> Append(backlog[m], Snapshot')]
    BY <1>3 DEF ValidateBlock
  <2>2. Snapshot'.invoice = invoice' /\ Snapshot'.private = private'
    BY DEF Snapshot
  <2>3. \A m \in MSPs : Follows(Snapshot', Newest(m))
    BY <1>2, <2>2 DEF Follows
  <2>4. ASSUME NEW m \in MSPs
        PROVE  /\ Len(backlog[m]) \in Nat /\ Len(backlog'[m]) = Len(backlog[m]) + 1
               /\ backlog'[m][Len(backlog[m]) + 1] = Snapshot'
               /\ \A i \in 1..Len(backlog[m]) : backlog'[m][i] = backlog[m][i]
               /\ backlog[m] = << >> <=> Len(backlog[m]) = 0
    <3>1. Snapshot' \in Snapshots /\ backlog[m] \in Seq(Snapshots)
      BY <1>1, NextIInv, NextSnapshotIsGenuine DEF AInv, PeersOK, Next
    <3> QED
      BY <2>1, <3>1, EmptySeq
  <2>5. ASSUME NEW m \in MSPs
        PROVE  Follows(backlog'[m][1], view'[m])
    <3>1. CASE backlog[m] = << >>
      BY <1>1, <2>3, <2>4, <3>1 DEF Newest, UpToDate
    <3>2. CASE backlog[m] # << >>
      BY <1>1, <2>4, <3>2 DEF PeersGoByOne
    <3> QED
      BY <3>1, <3>2
  <2>6. ASSUME NEW m \in MSPs, NEW i \in 1..(Len(backlog'[m]) - 1)
        PROVE  Follows(backlog'[m][i + 1], backlog'[m][i])
    <3>1. i \in 1..Len(backlog[m]) /\ backlog'[m][i] = backlog[m][i]
      BY <2>4
    <3>2. CASE i = Len(backlog[m])
      BY <2>3, <2>4, <3>1, <3>2 DEF Newest, UpToDate
    <3>3. CASE i # Len(backlog[m])
      <4>1. i \in 1..(Len(backlog[m]) - 1) /\ backlog'[m][i + 1] = backlog[m][i + 1]
        BY <2>4, <3>1, <3>3
      <4> QED
        BY <3>1, <4>1 DEF PeersGoByOne
    <3> QED
      BY <3>2, <3>3
  <2> QED
    BY <1>3, <2>5, <2>6 DEF PeersGoByOne, Follows, Continues
<1>4. CASE block' # {}
  <2>1. UNCHANGED network
    BY <1>1, <1>4 DEF ValidateBlock, network
  <2>2. \A m \in MSPs : BlockContinues(Newest(m))'
    BY <1>1, <1>2, <2>1, BlockGoesOn DEF AInv, Newest, UpToDate, network
  <2> QED
    BY <2>1, <2>2 DEF PeersGoByOne, Follows, network
<1> QED
  BY <1>3, <1>4

\* A peer that commits a block takes the step that its backlog begins with.
LEMMA PeerTakesOneStep ==
  ASSUME AInv, PeersGoByOne, NEW m \in MSPs, PeerCommits(m)
  PROVE  /\ PeersGoByOne'
         /\ Follows(view'[m], view[m])
         /\ \A n \in MSPs \ {m} : view'[n] = view[n]
<1>1. /\ block = {} /\ block' = {} /\ backlog[m] # << >> /\ backlog[m] \in Seq(Snapshots)
      /\ view' = [view EXCEPT ![m] = Head(backlog[m])]
      /\ backlog' = [backlog EXCEPT ![m] = Tail(backlog[m])]
  BY DEF PeerCommits, BetweenBlocks, UpToDate, AInv, PeersOK, vars
<1>2. /\ Len(backlog[m]) \in Nat \ {0} /\ Tail(backlog[m]) \in Seq(Snapshots)
      /\ Len(Tail(backlog[m])) = Len(backlog[m]) - 1
      /\ Head(backlog[m]) = backlog[m][1]
      /\ \A i \in 1..(Len(backlog[m]) - 1) : Tail(backlog[m])[i] = backlog[m][i + 1]
  BY <1>1
<1>3. /\ view'[m] = backlog[m][1] /\ backlog'[m] = Tail(backlog[m])
      /\ \A n \in MSPs \ {m} : view'[n] = view[n] /\ backlog'[n] = backlog[n]
  BY <1>1, <1>2 DEF AInv, PeersOK
<1>4. Follows(view'[m], view[m])
  BY <1>1, <1>3 DEF PeersGoByOne
<1>5. ASSUME backlog'[m] # << >> PROVE Follows(backlog'[m][1], view'[m])
  <2>1. Len(backlog[m]) \in Nat /\ Len(backlog[m]) > 1
    <3> DEFINE n == Len(backlog[m])
    <3>1. n - 1 # 0 /\ n \in Nat \ {0}
      BY <1>2, <1>3, <1>5, EmptySeq
    <3> HIDE DEF n
    <3>2. n \in Nat /\ n > 1
      BY <3>1
    <3> QED
      BY <3>2 DEF n
  <2>2. 1 \in 1..(Len(backlog[m]) - 1)
    BY <2>1
  <2>3. backlog'[m][1] = backlog[m][1 + 1] /\ view'[m] = backlog[m][1]
    BY <1>2, <1>3, <2>2
  <2> QED
    BY <2>2, <2>3 DEF PeersGoByOne
<1>6. ASSUME NEW i \in 1..(Len(backlog'[m]) - 1)
      PROVE  Follows(backlog'[m][i + 1], backlog'[m][i])
  <2>1. /\ i + 1 \in 1..(Len(backlog[m]) - 1) /\ i \in 1..(Len(backlog[m]) - 1)
        /\ backlog'[m][i] = backlog[m][i + 1]
        /\ backlog'[m][i + 1] = backlog[m][(i + 1) + 1]
    BY <1>2, <1>3
  <2> QED
    BY <2>1 DEF PeersGoByOne
<1>7. ASSUME NEW n \in MSPs
      PROVE  /\ backlog'[n] # << >> => Follows(backlog'[n][1], view'[n])
             /\ \A i \in 1..(Len(backlog'[n]) - 1) :
                  Follows(backlog'[n][i + 1], backlog'[n][i])
  <2>1. CASE n = m
    BY <1>5, <1>6, <2>1
  <2>2. CASE n # m
    BY <1>3, <2>2 DEF PeersGoByOne
  <2> QED
    BY <2>1, <2>2
<1> QED
  BY <1>1, <1>3, <1>4, <1>7 DEF PeersGoByOne, Follows, Continues

LEMMA PeersGoOnByOne ==
  ASSUME AInv, PeersGoByOne, [ApiNext]_apiVars
  PROVE  /\ PeersGoByOne'
         /\ \A m \in MSPs : view'[m] # view[m] => Follows(view'[m], view[m])
<1>1. ASSUME NEW b \in SUBSET Tx, Order(b) PROVE PeersGoByOne' /\ view' = view
  BY <1>1, OrderGoesOn DEF Order, apiState, network
<1>2. ASSUME NEW t \in Tx, ValidateBlock(t) PROVE PeersGoByOne' /\ view' = view
  BY <1>2, BlockIsFollowed DEF ValidateBlock
<1>3. ASSUME NEW m \in MSPs, PeerCommits(m)
      PROVE  PeersGoByOne' /\ \A n \in MSPs : view'[n] # view[n] => Follows(view'[n], view[n])
  BY <1>3, PeerTakesOneStep
<1>4. ASSUME UNCHANGED <<vars, network>> PROVE PeersGoByOne' /\ view' = view
  <2>1. /\ UNCHANGED <<network, block, invoice, private, version, tx>>
        /\ \A m \in MSPs : Newest(m)' = Newest(m)
    BY <1>4 DEF vars, network, Newest, UpToDate
  <2> QED
    BY <2>1 DEF PeersGoByOne, BlockContinues, Follows, Continues, StatusOf, Unstale, network
<1>5. ASSUME NEW c \in Clients, Submit(c) PROVE PeersGoByOne' /\ view' = view
  <2>1. PICK t \in Tx : Propose(t)
    BY <1>5, SubmitProposes DEF AInv
  <2>2. UNCHANGED <<network, block>> /\ block = {}
    BY <1>5, <2>1, ProposeIsSound
       DEF AInv, Submit, SoundProposal, Proposed, Endorse, Propose, CanEndorse
  <2> QED
    BY <2>2, NothingToFollow DEF network
<1>6. ASSUME NEW c \in Clients, (\E q \in Requests : Send(c, q)) \/ Repeat(c) \/ Ends(c)
      PROVE  UNCHANGED <<vars, network>>
  BY <1>6, EndsWithACode DEF AInv, Send, Repeat
<1>7. ASSUME NEW m \in MSPs, ServerStops(m) PROVE UNCHANGED <<vars, network>>
  BY <1>7 DEF ServerStops
<1>8. CASE UNCHANGED apiVars
  BY <1>4, <1>8 DEF apiVars, apiState
<1> QED
  BY <1>1, <1>2, <1>3, <1>4, <1>5, <1>6, <1>7, <1>8 DEF ApiNext, Serve, Ends

LEMMA InitPeersGoByOne == ApiInit => PeersGoByOne
<1> SUFFICES ASSUME ApiInit, NEW m \in MSPs
             PROVE  backlog[m] = << >> /\ 1..(Len(backlog[m]) - 1) = {} /\ block = {}
  BY DEF PeersGoByOne
<1>1. backlog[m] = << >> /\ block = {}
  BY DEF ApiInit, Init
<1> QED
  BY <1>1

\* The documents that a peer shows its own organization depend on the record
\* only by its parties.
KeysShown(m, record) ==
  (IF record # Absent /\ m \in {"SupplierMSP", "BuyerMSP"} \cap {record.supplier, record.buyer}
   THEN InvoicePartiesKeys ELSE {})
  \cup
  (IF /\ record # Absent
      /\ m \in {"SupplierMSP", "FinanceMSP"}
                 \cap {record.supplier, "FinanceMSP", record.financier}
   THEN PrivateKeys \ (InvoicePartiesKeys \cup {"disbursementDetails"}) ELSE {})

LEMMA WhatIsShown ==
  \A m \in MSPs, id \in Ids :
    LET v == view[m] IN
    /\ ShownStatus(m, id) = StatusIn(v.invoice[id])
    /\ DocumentsShown(m, id) =
         {<<k, v.private[id][k]>> : k \in KeysShown(m, v.invoice[id])}
<1> SUFFICES ASSUME NEW m \in MSPs, NEW id \in Ids
             PROVE  /\ ShownStatus(m, id) = StatusIn(view[m].invoice[id])
                    /\ DocumentsShown(m, id) =
                         {<<k, view[m].private[id][k]>> : k \in KeysShown(m, view[m].invoice[id])}
  OBVIOUS
<1> DEFINE record == view[m].invoice[id]
           doc == view[m].private[id]
           terms == handleGetPrivateData(m, id)
           financing == handleGetFinancingTerms(m, id)
           partiesKeys == InvoicePartiesKeys
           financingKeys == PrivateKeys \ (InvoicePartiesKeys \cup {"disbursementDetails"})
<1>1. Canonical[id] = id /\ ValidInvoiceID(id)
  BY IdsAreCanonical
<1>2. \A refusal : handleFabricError("Read", refusal) # "200"
  BY DEF handleFabricError
<1>3. ShownStatus(m, id) = StatusIn(record)
  BY <1>1, <1>2 DEF ShownStatus, handleGetInvoice, ReadPublicInvoice, Read, Reply, StatusIn
<1>4. IF record # Absent /\ m \in {"SupplierMSP", "BuyerMSP"} \cap {record.supplier, record.buyer}
      THEN terms.code = "200" /\ terms.body = [k \in partiesKeys |-> doc[k]]
      ELSE terms.code # "200"
  BY <1>1, <1>2 DEF handleGetPrivateData, ReadPrivateInvoiceData, Read, Reply
<1>5. IF /\ record # Absent
         /\ m \in {"SupplierMSP", "FinanceMSP"}
                    \cap {record.supplier, "FinanceMSP", record.financier}
      THEN financing.code = "200" /\ financing.body = [k \in financingKeys |-> doc[k]]
      ELSE financing.code # "200"
  BY <1>1, <1>2 DEF handleGetFinancingTerms, ReadFinancingTerms, Read, Reply
<1> HIDE DEF record, doc, terms, financing, partiesKeys, financingKeys
<1>6. DocumentsShown(m, id) =
        {<<k, terms.body[k]>> : k \in IF terms.code = "200" THEN DOMAIN terms.body ELSE {}}
          \cup {<<k, financing.body[k]>> :
                  k \in IF financing.code = "200" THEN DOMAIN financing.body ELSE {}}
  BY DEF DocumentsShown, terms, financing
<1>7. DocumentsShown(m, id) = {<<k, doc[k]>> : k \in KeysShown(m, record)}
  BY <1>4, <1>5, <1>6 DEF KeysShown, partiesKeys, financingKeys
<1> QED
  BY <1>3, <1>7 DEF record, doc

LEMMA WhatIsShownNext ==
  \A m \in MSPs, id \in Ids :
    /\ ShownStatus(m, id)' = StatusIn(view'[m].invoice[id])
    /\ DocumentsShown(m, id)' =
         {<<k, view'[m].private[id][k]>> : k \in KeysShown(m, view'[m].invoice[id])}
<1>1. (\A m \in MSPs, id \in Ids :
         LET v == view[m] IN
         /\ ShownStatus(m, id) = StatusIn(v.invoice[id])
         /\ DocumentsShown(m, id) =
              {<<k, v.private[id][k]>> : k \in KeysShown(m, v.invoice[id])})'
  BY WhatIsShown, PTL
<1> QED
  BY <1>1 DEF StatusIn, KeysShown

(***************************************************************************)
(* Whoever keeps asking one server sees an invoice go through its          *)
(* lifecycle one status at a time, and no document that it has been shown  *)
(* changes or disappears.                                                  *)
(***************************************************************************)
THEOREM ServersLeaveNothingOut == ApiSpec => ServersShowEveryStep
<1> DEFINE Shown ==
      \A m \in MSPs, id \in Ids :
        view'[m] # view[m] =>
          /\ ShownStatus(m, id)' # ShownStatus(m, id) =>
               <<ShownStatus(m, id), ShownStatus(m, id)'>>
                 \in Edges \cup {<<"NONE", "CREATED">>}
          /\ {p \in DocumentsShown(m, id) : p[2] # Absent}
               \subseteq DocumentsShown(m, id)'
<1>1. AInv /\ PeersGoByOne /\ [ApiNext]_apiVars => PeersGoByOne' /\ Shown
  <2> SUFFICES ASSUME AInv, PeersGoByOne, [ApiNext]_apiVars,
                      NEW m \in MSPs, NEW id \in Ids, view'[m] # view[m]
               PROVE  /\ ShownStatus(m, id)' # ShownStatus(m, id) =>
                           <<ShownStatus(m, id), ShownStatus(m, id)'>>
                             \in Edges \cup {<<"NONE", "CREATED">>}
                      /\ \A p \in DocumentsShown(m, id) :
                           p[2] # Absent => p \in DocumentsShown(m, id)'
    BY PeersGoOnByOne
  <2> DEFINE old == view[m].invoice[id]
             new == view'[m].invoice[id]
  <2>1. /\ AtMostOneEdge(StatusIn(old), StatusIn(new))
        /\ old # Absent =>
             new # Absent /\ new.supplier = old.supplier /\ new.buyer = old.buyer
        /\ \A k \in PrivateKeys :
             view[m].private[id][k] # Absent =>
               view'[m].private[id][k] = view[m].private[id][k]
    BY PeersGoOnByOne DEF Follows, Continues
  <2>2. old # Absent => old.financier \in {"FinanceMSP", "none"}
    BY DEF AInv, PeersOK, Genuine, InvoiceOK
  <2>3. KeysShown(m, old) \subseteq KeysShown(m, new) /\ KeysShown(m, old) \subseteq PrivateKeys
    BY <2>1, <2>2
       DEF KeysShown, MSPs, InvoicePartiesKeys, PrivateKeys, AmountKeys, DetailKeys
  <2>4. /\ ShownStatus(m, id) = StatusIn(old) /\ ShownStatus(m, id)' = StatusIn(new)
        /\ DocumentsShown(m, id) = {<<k, view[m].private[id][k]>> : k \in KeysShown(m, old)}
        /\ DocumentsShown(m, id)' = {<<k, view'[m].private[id][k]>> : k \in KeysShown(m, new)}
    BY WhatIsShown, WhatIsShownNext
  <2> HIDE DEF old, new
  <2> QED
    BY <2>1, <2>3, <2>4 DEF AtMostOneEdge
<1>2. ApiSpec => [](AInv /\ PeersGoByOne)
  BY <1>1, InitAInv, InitPeersGoByOne, NextAInv, PTL DEF ApiSpec
<1> QED
  BY <1>1, <1>2, PTL DEF ApiSpec, ServersShowEveryStep
=============================================================================
