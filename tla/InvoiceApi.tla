----------------------------- MODULE InvoiceApi -----------------------------
(***************************************************************************)
(* The HTTP API in front of the ledger: three servers, one per             *)
(* organization, each calling the chaincode through the gateway of its own *)
(* organization's peer (internal/api/server.go, internal/fabric/           *)
(* gateway.go, and the four query functions of contract.go).               *)
(*                                                                         *)
(* A server keeps no state about invoices.  What makes its answers hard to *)
(* get right is that the transaction it submits lives on without it: the   *)
(* call may time out, the server may stop or the answer may be lost while  *)
(* the transaction is still on its way to a block; the client then repeats *)
(* the request; and the peers commit a block one after the other, so what  *)
(* a server reads and refuses depends on how far its own peer is.          *)
(*                                                                         *)
(* Endorsement on a state that has since moved on is what InvoiceLedger    *)
(* has anyway, a transaction that is endorsed and ordered much later;      *)
(* hence a function that succeeds is simulated on the newest state here,   *)
(* and one that refuses on whatever state the consulted peer has.          *)
(***************************************************************************)
EXTENDS InvoiceLedger, SequencesExt

CONSTANTS
  Clients,        \* those who call the API, one request at a time each
  Requests,       \* the POST requests that they may send
  MaxLag,         \* blocks that a peer may be behind
  MaxLostCalls,   \* calls that end without a verdict
  ErrorsAreTold   \* whether the gateway library's error carries the chaincode's
                  \* message; if not, it is a transport error like any other

ASSUME ApiAssumption ==
  /\ MaxLag \in Nat \ {0} /\ MaxLostCalls \in Nat /\ ErrorsAreTold \in BOOLEAN
  /\ Requests \subseteq
       [op : Operations, org : MSPs, raw : RawIds, complete : BOOLEAN, buyer : MSPs,
        amount : Amounts, asked : Amounts, text : Texts]
  /\ Absent \notin Requests

VARIABLES
  view,    \* [MSPs -> what the organization's peer has committed]
  backlog, \* [MSPs -> the ledger after each block that it has still to commit]
  call,    \* [Clients -> the request it last sent, or Absent]
  stage,   \* [Clients -> where its call is]
  sent,    \* [Clients -> the transactions endorsed for that request]
  answer,  \* [Clients -> the HTTP status, "lost", or "none"]
  lost     \* calls so far that ended without a verdict

network == <<view, backlog>>
apiState == <<network, call, stage, sent, answer, lost>>
apiVars == <<vars, apiState>>

Verdicts == {"200", "201", "400", "403", "404", "409"}
Unknowns == {"502", "lost"}
InFlight == {"handling", "waiting"}

Decided == Failures \cup {"VALID"}

\* What the peers have once they have committed a block.
Snapshot ==
  [invoice |-> invoice, private |-> private, policy |-> policy,
   code |-> [t \in Tx |-> IF phase[t] \in Decided THEN phase[t] ELSE "none"]]

UpToDate(m) == backlog[m] = << >>

ApiTypeOK ==
  /\ DOMAIN view = MSPs /\ DOMAIN backlog = MSPs
  /\ \A m \in MSPs :
       /\ Len(backlog[m]) <= MaxLag
       /\ block = {} => Last(<<view[m]>> \o backlog[m]) = Snapshot
  /\ call \in [Clients -> Requests \cup {Absent}]
  /\ stage \in [Clients -> {"idle", "answered"} \cup InFlight]
  /\ sent \in [Clients -> SUBSET {t \in Tx : phase[t] # "idle"}]
  /\ answer \in [Clients -> Verdicts \cup Unknowns \cup {"none"}]
  /\ lost \in 0..MaxLostCalls
  /\ \A c \in Clients : /\ stage[c] = "answered" <=> answer[c] # "none"
                        /\ stage[c] = "waiting" => sent[c] # {}

ApiInit ==
  /\ Init
  /\ view = [m \in MSPs |-> Snapshot]
  /\ backlog = [m \in MSPs |-> << >>]
  /\ call = [c \in Clients |-> Absent]
  /\ stage = [c \in Clients |-> "idle"]
  /\ sent = [c \in Clients |-> {}]
  /\ answer = [c \in Clients |-> "none"]
  /\ lost = 0

-----------------------------------------------------------------------------
(***************************************************************************)
(* The handlers, up to the transaction they submit.                        *)
(***************************************************************************)
\* As if the id went into the documents the way the client spells it.
RawIdInDocuments(raw) == raw

\* The id as the handler puts it into the documents.  The argument goes to the
\* chaincode as the client spells it.
CanonicalID(raw) == ToUpper[TrimSpace[raw]]

AmountDoc(q, amount) == [id |-> CanonicalID(q.raw), amount |-> amount, text |-> q.text]
DetailDoc(q) == [id |-> CanonicalID(q.raw), text |-> q.text]

handleCreateInvoice(t, q) ==
  /\ q.op = "CreateInvoice"
  /\ CreateInvoice(t, q.org, q.raw, q.buyer, q.text, AmountDoc(q, q.amount), DetailDoc(q))

handleApprove(t, q) == q.op = "ApproveInvoice" /\ ApproveInvoice(t, q.org, q.raw)

handleReject(t, q) == q.op = "RejectInvoice" /\ RejectInvoice(t, q.org, q.raw)

handleRequestFinancing(t, q) ==
  /\ q.op = "RequestFinancing"
  /\ RequestFinancing(t, q.org, q.raw, AmountDoc(q, q.amount), AmountDoc(q, q.asked),
                      DetailDoc(q))

handleFinance(t, q) ==
  /\ q.op = "FinanceInvoice"
  /\ FinanceInvoice(t, q.org, q.raw, AmountDoc(q, q.asked))

handleSettle(t, q) == q.op = "SettleInvoice" /\ SettleInvoice(t, q.org, q.raw)

Handle(t, q) ==
  \/ handleCreateInvoice(t, q) \/ handleApprove(t, q) \/ handleReject(t, q)
  \/ handleRequestFinancing(t, q) \/ handleFinance(t, q) \/ handleSettle(t, q)

\* The body does not decode, or lacks a document or a required field.
BadBody(q) == ~q.complete

-----------------------------------------------------------------------------
(***************************************************************************)
(* What a transaction function refuses, and the status code for it.        *)
(***************************************************************************)
CallerOf(op) ==
  CASE op \in {"CreateInvoice", "RequestFinancing"}               -> "SupplierMSP"
    [] op \in {"ApproveInvoice", "RejectInvoice", "SettleInvoice"} -> "BuyerMSP"
    [] op = "FinanceInvoice"                                       -> "FinanceMSP"

StatusBefore(op) ==
  CASE op \in {"ApproveInvoice", "RejectInvoice"} -> "CREATED"
    [] op = "RequestFinancing"                    -> "APPROVED"
    [] op = "FinanceInvoice"                      -> "FINANCING_REQUESTED"
    [] op = "SettleInvoice"                       -> "FINANCED"

\* What must not be stored yet when the function is called, and what must be.
NotYet(op) ==
  CASE op = "RequestFinancing" -> {"financingAgreement", "financingRequest"}
    [] op = "FinanceInvoice"   -> {"financingAgreement"}
    [] OTHER                   -> {}

Needed(op) ==
  CASE op \in {"ApproveInvoice", "RequestFinancing"} -> {"commercialTerms"}
    [] op = "FinanceInvoice" -> {"disclosure", "financingRequest"}
    [] OTHER                 -> {}

ValidDocuments(v, q, id) ==
  CASE q.op = "CreateInvoice" ->
         ValidCommercialTerms(AmountDoc(q, q.amount), id) /\ ValidDetails(DetailDoc(q), id)
    [] q.op = "RequestFinancing" ->
         /\ ValidCommercialTerms(AmountDoc(q, q.amount), id)
         /\ AmountDoc(q, q.amount) = v.private[id]["commercialTerms"]
         /\ ValidFinancingRequest(AmountDoc(q, q.asked), id, q.amount)
         /\ ValidDetails(DetailDoc(q), id)
    [] q.op = "FinanceInvoice" ->
         ValidFinancingAgreement(AmountDoc(q, q.asked), id,
           v.private[id]["disclosure"].amount, v.private[id]["financingRequest"].amount)
    [] OTHER -> TRUE

\* The checks of the transaction functions, in their order.  A function that
\* does not make one of them passes it.
Checks == <<"MSP", "arguments", "existence", "party", "status", "financed",
            "duplicate", "missing", "documents">>

Fails(v, q, check) ==
  LET id     == Canonical[q.raw]
      record == v.invoice[id] IN
  CASE check = "MSP" -> q.org # CallerOf(q.op)
    [] check = "arguments" ->
         \/ ~ValidInvoiceID(q.raw)
         \/ q.op = "CreateInvoice" /\ (q.buyer # "BuyerMSP" \/ q.text \notin WellFormed)
    [] check = "existence" -> (record = Absent) # (q.op = "CreateInvoice")
    [] check = "party" ->
         \/ /\ q.op \in {"ApproveInvoice", "RejectInvoice", "SettleInvoice"}
            /\ ~RequireInvoiceBuyer(q.org, record)
         \/ q.op = "RequestFinancing" /\ ~RequireInvoiceSupplier(q.org, record)
    [] check = "status" -> q.op # "CreateInvoice" /\ record.status # StatusBefore(q.op)
    [] check = "financed" ->
         \/ q.op \in {"RequestFinancing", "FinanceInvoice"} /\ record.financed
         \/ q.op = "SettleInvoice" /\ ~record.financed
    [] check = "duplicate" -> \E k \in NotYet(q.op) : v.private[id][k] # Absent
    [] check = "missing" -> \E k \in Needed(q.op) : v.private[id][k] = Absent
    [] check = "documents" -> ~ValidDocuments(v, q, id)

\* What a peer in state v makes of the request: the first check that fails.
Refusal(v, q) ==
  IF \E i \in 1..Len(Checks) : Fails(v, q, Checks[i])
  THEN Checks[CHOOSE i \in 1..Len(Checks) :
                /\ Fails(v, q, Checks[i])
                /\ \A j \in 1..(i - 1) : ~Fails(v, q, Checks[j])]
  ELSE "none"

\* handleFabricError looks for phrases of the chaincode's messages in the error:
\* "not found"; "unauthorized", "caller is not"; "already exists", "invalid
\* status", "already financed".  "invoice not financed" has none of them.
IsNotFoundError(op, refusal) ==
  refusal = "missing" \/ (refusal = "existence" /\ op # "CreateInvoice")

IsAuthorizationError(refusal) == refusal \in {"MSP", "party"}

IsConflictError(op, refusal) ==
  \/ refusal \in {"status", "duplicate"}
  \/ refusal = "existence" /\ op = "CreateInvoice"
  \/ refusal = "financed" /\ op # "SettleInvoice"

handleFabricError(op, refusal) ==
  CASE IsNotFoundError(op, refusal) -> "404"
    [] IsAuthorizationError(refusal) -> "403"
    [] IsConflictError(op, refusal) -> "409"
    [] OTHER -> "502"

\* As if any organization's peer might be asked.
AnyPeer(q) == MSPs

\* The gateway asks its own organization's peer; if that one accepts, it goes on
\* to those whose endorsement the write set needs in that peer's state.
Asked(q) ==
  LET own == view[q.org]
      id  == Canonical[q.raw]
      written == CASE q.op = "CreateInvoice"    -> InvoicePartiesKeys
                   [] q.op = "RequestFinancing" -> PrivateKeys \ InvoicePartiesKeys
                   [] q.op = "FinanceInvoice"   -> {"financingAgreement"}
                   [] OTHER                     -> {} IN
  IF Refusal(own, q) # "none"
  THEN {q.org}
  ELSE own.policy[id] \cup UNION {CollectionMembers(k) : k \in written}

-----------------------------------------------------------------------------
(***************************************************************************)
(* The life of a call.                                                     *)
(***************************************************************************)
\* No peer shows the middle of a block, so nothing is lost by validating a block
\* in one go: what the servers do meanwhile they might as well do before or after.
BetweenBlocks == block = {}

Say(c, code) ==
  /\ BetweenBlocks
  /\ stage' = [stage EXCEPT ![c] = "answered"]
  /\ answer' = [answer EXCEPT ![c] = code]

Send(c, q) ==
  /\ BetweenBlocks
  /\ stage[c] \notin InFlight
  /\ call' = [call EXCEPT ![c] = q]
  /\ sent' = [sent EXCEPT ![c] = {}]
  /\ stage' = [stage EXCEPT ![c] = "handling"]
  /\ answer' = [answer EXCEPT ![c] = "none"]
  /\ UNCHANGED <<vars, network, lost>>

\* The client sends the same request again when it does not know what became
\* of it.
Repeat(c) ==
  /\ BetweenBlocks
  /\ answer[c] \in Unknowns
  /\ stage' = [stage EXCEPT ![c] = "handling"]
  /\ answer' = [answer EXCEPT ![c] = "none"]
  /\ UNCHANGED <<vars, network, call, sent, lost>>

RejectBody(c) ==
  /\ stage[c] = "handling" /\ BadBody(call[c])
  /\ Say(c, "400")
  /\ UNCHANGED <<vars, network, call, sent, lost>>

\* Every peer that is asked endorses, and the transaction goes to the orderer.
Submit(c) ==
  /\ stage[c] = "handling" /\ ~BadBody(call[c])
  /\ \E t \in Tx :
       /\ CanEndorse(t)
       /\ Handle(t, call[c])
       /\ \A m \in tx'[t].endorsers \cup {call[c].org} : UpToDate(m)
       /\ sent' = [sent EXCEPT ![c] = @ \cup {t}]
  /\ stage' = [stage EXCEPT ![c] = "waiting"]
  /\ UNCHANGED <<network, call, answer, lost>>

\* A peer that is asked refuses.
Refuse(c) ==
  /\ stage[c] = "handling" /\ ~BadBody(call[c])
  /\ \E m \in Asked(call[c]) :
       LET refusal == Refusal(view[m], call[c]) IN
       /\ refusal # "none"
       /\ \E code \in {handleFabricError(call[c].op, refusal)}
                        \cup (IF ErrorsAreTold THEN {} ELSE {"502"}) : Say(c, code)
  /\ UNCHANGED <<vars, network, call, sent, lost>>

Success(q) == IF q.op = "CreateInvoice" THEN "201" ELSE "200"

\* As if the call returned once the orderer has the transaction.
AnswersOnceOrdered(c) ==
  /\ stage[c] = "waiting"
  /\ Say(c, Success(call[c]))
  /\ UNCHANGED <<vars, network, call, sent, lost>>

\* The transaction of this call, not of one that it repeats.
Latest(c, t) == t \in sent[c] /\ \A u \in sent[c] : u <= t

\* As if the commit status came from whichever peer commits first.
ConfirmedByAnyPeer(c) ==
  /\ stage[c] = "waiting"
  /\ \E m \in MSPs, t \in Tx : Latest(c, t) /\ view[m].code[t] = "VALID"
  /\ Say(c, Success(call[c]))
  /\ UNCHANGED <<vars, network, call, sent, lost>>

\* As if only a valid transaction were reported.
ConfirmsSuccessOnly(c) ==
  /\ stage[c] = "waiting"
  /\ \E t \in Tx : Latest(c, t) /\ view[call[c].org].code[t] = "VALID"
  /\ Say(c, Success(call[c]))
  /\ UNCHANGED <<vars, network, call, sent, lost>>

\* The own peer has committed the transaction and reports its validation code.
Confirm(c) ==
  /\ stage[c] = "waiting"
  /\ \E t \in Tx :
       /\ Latest(c, t)
       /\ LET status == view[call[c].org].code[t] IN
            \/ status = "VALID" /\ Say(c, Success(call[c]))
            \/ status \in Failures /\ Say(c, "502")
  /\ UNCHANGED <<vars, network, call, sent, lost>>

\* As if the handler lacked the return after it has written the error.
CallGoesOn(c) ==
  /\ stage[c] \in InFlight /\ BetweenBlocks
  /\ lost < MaxLostCalls
  /\ lost' = lost + 1
  /\ answer' = [answer EXCEPT ![c] = "502"]
  /\ UNCHANGED <<vars, network, call, stage, sent>>

\* The call ends without a verdict: some other error or the timeout of 30
\* seconds, answered with 502; or nothing reaches the client, because it is gone
\* or because the server's write timeout, which is no longer, has run out too.
CallFails(c) ==
  /\ stage[c] \in InFlight
  /\ lost < MaxLostCalls
  /\ lost' = lost + 1
  /\ \E a \in Unknowns : Say(c, a)
  /\ UNCHANGED <<vars, network, call, sent>>

\* A server stops.  Its shutdown waits ten seconds, less than a call may take,
\* so calls are cut off; the next process knows nothing of them.
ServerStops(org) ==
  LET C == {c \in Clients : stage[c] \in InFlight /\ call[c].org = org} IN
  /\ BetweenBlocks
  /\ C # {}
  /\ lost < MaxLostCalls
  /\ lost' = lost + 1
  /\ stage' = [c \in Clients |-> IF c \in C THEN "answered" ELSE stage[c]]
  /\ answer' = [c \in Clients |-> IF c \in C THEN "lost" ELSE answer[c]]
  /\ UNCHANGED <<vars, network, call, sent>>

-----------------------------------------------------------------------------
(***************************************************************************)
(* The ledger and the peers.                                               *)
(***************************************************************************)
Order(b) ==
  /\ \A m \in MSPs : Len(backlog[m]) < MaxLag
  /\ CutBlock(b)
  /\ UNCHANGED apiState

ValidateBlock(t) ==
  /\ Validate(t)
  /\ backlog' = IF block' = {} THEN [m \in MSPs |-> Append(backlog[m], Snapshot')]
                               ELSE backlog
  /\ UNCHANGED <<view, call, stage, sent, answer, lost>>

PeerCommits(m) ==
  /\ BetweenBlocks
  /\ ~UpToDate(m)
  /\ view' = [view EXCEPT ![m] = Head(backlog[m])]
  /\ backlog' = [backlog EXCEPT ![m] = Tail(@)]
  /\ UNCHANGED <<vars, call, stage, sent, answer, lost>>

Serve(c) == RejectBody(c) \/ Submit(c) \/ Refuse(c) \/ Confirm(c)

ApiNext ==
  \/ \E c \in Clients, q \in Requests : Send(c, q)
  \/ \E c \in Clients : Repeat(c)
  \/ \E c \in Clients : Serve(c)
  \/ \E c \in Clients : CallFails(c)
  \/ \E org \in MSPs : ServerStops(org)
  \/ \E b \in SUBSET Tx : Order(b)
  \/ \E t \in Tx : ValidateBlock(t)
  \/ \E m \in MSPs : PeerCommits(m)

ApiSpec == ApiInit /\ [][ApiNext]_apiVars

\* The servers handle their calls, the network makes progress, and the clients
\* repeat what they have no verdict on.
FairApiSpec ==
  /\ ApiSpec
  /\ \A c \in Clients : WF_apiVars(Serve(c)) /\ WF_apiVars(Repeat(c))
  /\ WF_apiVars(\E b \in SUBSET Tx : Order(b))
  /\ WF_apiVars(\E t \in Tx : ValidateBlock(t))
  /\ \A m \in MSPs : WF_apiVars(PeerCommits(m))

-----------------------------------------------------------------------------
(***************************************************************************)
(* The query functions, and the GET endpoints, whose transactions are      *)
(* evaluated by the server's own peer and go no further.                   *)
(***************************************************************************)
Reply(code, body) == [code |-> code, body |-> body]

\* What the reads of one invoice have in common.
Read(v, caller, readers, raw, parties, body) ==
  LET refuse(refusal) == Reply(handleFabricError("Read", refusal), Absent) IN
  IF caller \notin readers THEN refuse("MSP")
  ELSE IF ~ValidInvoiceID(raw) THEN refuse("arguments")
  ELSE IF v.invoice[Canonical[raw]] = Absent THEN refuse("existence")
  ELSE IF caller \notin parties THEN refuse("party")
  ELSE Reply("200", body)

ReadPublicInvoice(v, caller, raw) ==
  Read(v, caller, MSPs, raw, MSPs, v.invoice[Canonical[raw]])

ReadPrivateInvoiceData(v, caller, raw) ==
  LET id == Canonical[raw] IN
  Read(v, caller, {"SupplierMSP", "BuyerMSP"}, raw,
    {v.invoice[id].supplier, v.invoice[id].buyer},
    [k \in InvoicePartiesKeys |-> v.private[id][k]])

\* Everything of the collection but the disbursement details.
ReadFinancingTerms(v, caller, raw) ==
  LET id == Canonical[raw] IN
  Read(v, caller, {"SupplierMSP", "FinanceMSP"}, raw,
    {v.invoice[id].supplier, "FinanceMSP", v.invoice[id].financier},
    [k \in PrivateKeys \ (InvoicePartiesKeys \cup {"disbursementDetails"}) |->
       v.private[id][k]])

QueryPublicInvoicesByStatus(v, caller, status) ==
  IF caller \notin MSPs THEN Reply(handleFabricError("Read", "MSP"), {})
  ELSE IF status \notin Statuses THEN Reply(handleFabricError("Read", "status"), {})
  ELSE Reply("200", {id \in Ids : v.invoice[id] # Absent /\ v.invoice[id].status = status})

handleGetInvoice(org, raw) == ReadPublicInvoice(view[org], org, raw)
handleGetPrivateData(org, raw) == ReadPrivateInvoiceData(view[org], org, raw)
handleGetFinancingTerms(org, raw) == ReadFinancingTerms(view[org], org, raw)

\* A status that is missing or unknown is refused before the peer is asked.
handleQueryInvoices(org, status) ==
  IF status \notin Statuses
  THEN Reply("400", {})
  ELSE QueryPublicInvoicesByStatus(view[org], org, status)

-----------------------------------------------------------------------------
(***************************************************************************)
(* Properties.                                                             *)
(***************************************************************************)
(***************************************************************************)
(* Timeouts, lost answers, stopped servers, repetitions and races notwith- *)
(* standing, every POST behaves as the atomic request of ApiCall: no       *)
(* effect twice, no 2xx before the effect, and no effect after a 4xx.      *)
(***************************************************************************)
Told(c) ==
  CASE stage[c] = "idle" -> "OK"
    [] stage[c] \in InFlight -> "nothing"
    [] answer[c] \in {"200", "201"} -> "OK"
    [] answer[c] \in Unknowns -> "unknown"
    [] OTHER -> "refused"

Effects(c) ==
  IF stage[c] = "idle" THEN 1 ELSE Cardinality({t \in sent[c] : phase[t] = "VALID"})

Atomic == INSTANCE ApiCall WITH told <- [c \in Clients |-> Told(c)],
                                done <- [c \in Clients |-> Effects(c)]

ImplementsCalls == Atomic!Spec

(***************************************************************************)
(* README.md, "Concurrency Correctness", as a client sees it: if a request *)
(* got as far as a transaction and is refused when it is repeated, then    *)
(* with 409, and because it or a rival of it has been committed.  A peer   *)
(* that is behind cannot make the repetition look unauthorized, or its     *)
(* invoice unknown.                                                        *)
(***************************************************************************)
RepeatsAreResolved ==
  \A c \in Clients :
    stage[c] = "answered" /\ sent[c] # {} /\ answer[c] \in Verdicts \ {"200", "201"} =>
      /\ answer[c] = "409"
      /\ \E t \in sent[c], u \in Tx :
           phase[u] = "VALID" /\ (u = t \/ Rivals(t, u))

(***************************************************************************)
(* A client that has been told 2xx and reads from the same server sees     *)
(* what it did, or what came of it: the GET of the invoice and the list by *)
(* status come from the peer that reported the commit.                     *)
(***************************************************************************)
StatusAfter(op) ==
  CASE op = "CreateInvoice"    -> "CREATED"
    [] op = "ApproveInvoice"   -> "APPROVED"
    [] op = "RejectInvoice"    -> "REJECTED"
    [] op = "RequestFinancing" -> "FINANCING_REQUESTED"
    [] op = "FinanceInvoice"   -> "FINANCED"
    [] op = "SettleInvoice"    -> "SETTLED"

\* A status and those that the lifecycle leads to from it.
Onwards(status) ==
  CASE status = "CREATED"             -> Statuses
    [] status = "APPROVED"            -> Statuses \ {"CREATED", "REJECTED"}
    [] status = "FINANCING_REQUESTED" -> {"FINANCING_REQUESTED", "FINANCED", "SETTLED"}
    [] status = "FINANCED"            -> {"FINANCED", "SETTLED"}
    [] OTHER                          -> {status}

Shows(m, q) ==
  LET shown  == handleGetInvoice(m, q.raw)
      listed == handleQueryInvoices(m, shown.body.status) IN
  /\ shown.code = "200"
  /\ shown.body.status \in Onwards(StatusAfter(q.op))
  /\ listed.code = "200" /\ Canonical[q.raw] \in listed.body

ReadYourWrites ==
  \A c \in Clients : answer[c] \in {"200", "201"} => Shows(call[c].org, call[c])

(***************************************************************************)
(* Whatever two servers show of an invoice at the same time, from peers of *)
(* different heights, is of one piece: the terms the financier is shown    *)
(* are those the buyer is shown, no document differs between two servers,  *)
(* and with a status come all the documents that belong to it.             *)
(***************************************************************************)
DocumentsShown(m, id) ==
  LET terms     == handleGetPrivateData(m, id)
      financing == handleGetFinancingTerms(m, id) IN
  {<<k, terms.body[k]>> : k \in IF terms.code = "200" THEN DOMAIN terms.body ELSE {}}
    \cup {<<k, financing.body[k]>> :
            k \in IF financing.code = "200" THEN DOMAIN financing.body ELSE {}}

ShownDocumentsAgree ==
  \A id \in Ids, m, n \in MSPs :
    /\ \A p \in DocumentsShown(m, id), q \in DocumentsShown(n, id) :
         (p[2] # Absent /\ q[2] # Absent
            /\ (p[1] = q[1] \/ {p[1], q[1]} = {"commercialTerms", "disclosure"}))
         => p[2] = q[2]
    /\ handleGetInvoice(m, id).code = "200" =>
         \A p \in DocumentsShown(m, id) :
           p[2] # Absent <=> p[1] \in DocumentsFor(handleGetInvoice(m, id).body.status)

(***************************************************************************)
(* The servers leave nothing out and take nothing back.  A peer moves on   *)
(* by whole blocks, and a block may hold several transactions of the same  *)
(* invoice; still, to whoever keeps asking one server, an invoice goes     *)
(* through its lifecycle one status at a time, and a document that was     *)
(* shown once is shown, unchanged, ever after.                             *)
(***************************************************************************)
ShownStatus(m, id) ==
  LET shown == handleGetInvoice(m, id) IN
  IF shown.code = "200" THEN shown.body.status ELSE "NONE"

ServersShowEveryStep ==
  [][\A m \in MSPs, id \in Ids :
       view'[m] # view[m] =>
         /\ ShownStatus(m, id)' # ShownStatus(m, id) =>
              <<ShownStatus(m, id), ShownStatus(m, id)'>>
                \in Edges \cup {<<"NONE", "CREATED">>}
         /\ {p \in DocumentsShown(m, id) : p[2] # Absent}
              \subseteq DocumentsShown(m, id)']_view

(***************************************************************************)
(* If the gateway's errors carry the chaincode's messages, then a client   *)
(* whose requests are in good order, and who repeats them or sends others  *)
(* of that kind while it has no verdict, gets one in the end, however it   *)
(* spells the id: its call cannot be lost between a transaction that       *)
(* failed, one that is still under way and a repetition.  (Or the bound on *)
(* transactions is used up.)  This is not so of a request whose arguments  *)
(* or documents the chaincode refuses: handleFabricError knows no phrase   *)
(* of those messages, and the answer is 502 as often as it is repeated.    *)
(***************************************************************************)
BoundReached == \A t \in Tx : phase[t] # "idle"

\* The chaincode would accept what the client sends, filed under the id that the
\* client means; where documents have to match others, those are on the ledger.
InGoodOrder(q) ==
  LET id == Canonical[q.raw]
      Doc(amount) == [id |-> id, amount |-> amount, text |-> q.text]
      stored == private[id] IN
  /\ ValidInvoiceID(q.raw)
  /\ CASE q.op = "CreateInvoice" ->
            q.buyer = "BuyerMSP" /\ ValidCommercialTerms(Doc(q.amount), id)
       [] q.op = "RequestFinancing" ->
            /\ Doc(q.amount) = stored["commercialTerms"]
            /\ ValidFinancingRequest(Doc(q.asked), id, q.amount)
       [] q.op = "FinanceInvoice" ->
            /\ stored["financingRequest"] # Absent
            /\ ValidFinancingAgreement(Doc(q.asked), id, stored["disclosure"].amount,
                                       stored["financingRequest"].amount)
       [] OTHER -> TRUE

AsksInGoodOrder(c) == stage[c] # "idle" /\ InGoodOrder(call[c])

EveryRequestIsResolved ==
  ErrorsAreTold =>
    \A c \in Clients :
      (stage[c] = "handling" /\ AsksInGoodOrder(c))
        ~> (answer[c] \in Verdicts \/ ~AsksInGoodOrder(c) \/ BoundReached)
=============================================================================
