------------------------------ MODULE FinTrust ------------------------------
(***************************************************************************)
(* The ledger, one API server's event consumer and the queries on its      *)
(* projection, put together.                                               *)
(*                                                                         *)
(* InvoiceLedger says which events there are and EventConsumer which of    *)
(* them are stored, each without regard to the other: for the consumer an  *)
(* event is a number.  Here event number i of the stream is the i-th event *)
(* of the ledger, a block reaches the server's peer with the chaincode     *)
(* events of its valid transactions, and what GET /events answers can be   *)
(* held against the invoices (internal/projection/store.go, QueryEvents,   *)
(* and the two handlers of internal/api/server.go that call it).           *)
(***************************************************************************)
EXTENDS InvoiceLedger, EventConsumer

CONSTANTS
  DefaultLimit,       \* of a query that names no limit or none that is positive; 50
  InvoiceEventsLimit, \* of the query for the events of one invoice; 100
  MaxLimit            \* of any query; 500

ASSUME LimitAssumption ==
  /\ {DefaultLimit, InvoiceEventsLimit, MaxLimit} \subseteq Nat \ {0}
  /\ DefaultLimit <= MaxLimit /\ InvoiceEventsLimit <= MaxLimit

\* A block of the ledger is one of the stream.
ASSUME SameBlocks == MaxBlocks >= MaxTx /\ MaxEventsPerBlock >= MaxBlockTxs

\* A filter's invoice or name that is not given.  It is no spelling of an id:
\* canonicalizeInvoiceID refuses it.
Unfiltered == ""

ASSUME UnfilteredIsNoId == Unfiltered \in RawIds => Canonical[Unfiltered] = Absent

allVars == <<vars, consumerVars>>

ServerInit == Init /\ ConsumerInit

-----------------------------------------------------------------------------
ServerProposes(t) == Propose(t) /\ UNCHANGED consumerVars

OrdererCuts(b) == CutBlock(b) /\ UNCHANGED consumerVars

\* With its last transaction the block is complete; the peer commits it, and its
\* event service has one event for each transaction of it that is valid.
PeerValidates(t) ==
  /\ Validate(t)
  /\ IF block' = {} THEN CommitBlock(Len(events') - Len(chain))
                    ELSE UNCHANGED consumerVars

ServerConsumes == Consume /\ UNCHANGED vars

ProcessChanges ==
  /\ Cancel \/ Exit \/ Restart
  /\ UNCHANGED vars

ServerNext ==
  \/ \E t \in Tx : ServerProposes(t)
  \/ \E b \in SUBSET Tx : OrdererCuts(b)
  \/ \E t \in Tx : PeerValidates(t)
  \/ ServerConsumes
  \/ ProcessChanges

ServerSpec == ServerInit /\ [][ServerNext]_allVars

\* The consumer's goroutine runs, and a block that was cut is validated.
FairServerSpec ==
  /\ ServerSpec
  /\ WF_consumerVars(ServerConsumes)
  /\ WF_vars(\E t \in Tx : PeerValidates(t))

-----------------------------------------------------------------------------
(***************************************************************************)
(* The queries.                                                            *)
(***************************************************************************)
\* invoice_events, its rows as InsertEventAndCheckpoint fills them.
Table ==
  [i \in 1..Len(rows) |->
     [id |-> i, block |-> chain[rows[i]], tx |-> events[rows[i]].tx,
      invoice |-> events[rows[i]].id, name |-> events[rows[i]].name,
      status |-> events[rows[i]].status]]

Clamp(limit) ==
  IF limit <= 0 THEN DefaultLimit ELSE IF limit > MaxLimit THEN MaxLimit ELSE limit

\* ORDER BY block_number DESC, id DESC.
Precedes(r, s) == r.block > s.block \/ (r.block = s.block /\ r.id > s.id)

\* The numbers of the rows of a set, in that order.
InOrder(found) ==
  LET n == Cardinality(found) IN
  CHOOSE s \in [1..n -> found] :
    /\ \A i \in found : \E k \in 1..n : s[k] = i
    /\ \A k, l \in 1..n : k < l => Precedes(Table[s[k]], Table[s[l]])

\* The rows that pass the filter.
Matching(id, name) ==
  {i \in 1..Len(rows) : /\ id = Unfiltered \/ Table[i].invoice = id
                        /\ name = Unfiltered \/ Table[i].name = name}

QueryEvents(id, name, limit) ==
  LET found == Matching(id, name)
      n == IF Cardinality(found) > Clamp(limit) THEN Clamp(limit) ELSE Cardinality(found)
  IN [k \in 1..n |-> Table[InOrder(found)[k]]]

\* As if the path's id were used as it is.
InvoiceEventsByRawId(raw) == QueryEvents(raw, Unfiltered, InvoiceEventsLimit)

\* GET /invoices/{id}/events normalizes the id without validating it.
handleGetInvoiceEvents(raw) ==
  QueryEvents(ToUpper[TrimSpace[raw]], Unfiltered, InvoiceEventsLimit)

\* GET /events takes the id as it comes.  A limit that is not given, or not a
\* positive number, is 0 here.
handleQueryEvents(raw, name, limit) ==
  QueryEvents(raw, name, IF limit > 0 THEN limit ELSE DefaultLimit)

-----------------------------------------------------------------------------
(***************************************************************************)
(* Properties.                                                             *)
(***************************************************************************)
(***************************************************************************)
(* What is asked of an invoice is answered newest event first, even where  *)
(* inserts failed and the checkpoint block was replayed out of order, so   *)
(* that rows of one block are not in the ledger's order.  The query only   *)
(* sorts by block: it is the version check of the ledger that keeps two    *)
(* events of one invoice out of one block.                                 *)
(***************************************************************************)
Position(r) == CHOOSE i \in 1..Len(events) : events[i].tx = r.tx

NewestFirst ==
  \A id \in Ids :
    LET answer == handleGetInvoiceEvents(id) IN
    \A i, j \in 1..Len(answer) : i < j => Position(answer[i]) > Position(answer[j])

(***************************************************************************)
(* Unless an insert has failed, what the server tells was once the whole   *)
(* truth: there is one moment of the ledger such that, for every invoice,  *)
(* the answer is the newest part, as far as the limit goes, of what its    *)
(* history was at that moment.  In any case the last status told of an     *)
(* invoice leads to the one that its record has.                           *)
(***************************************************************************)
LeadsTo(status, later) ==
  \/ status = later
  \/ status = "CREATED"
  \/ status = "APPROVED" /\ later \in {"FINANCING_REQUESTED", "FINANCED", "SETTLED"}
  \/ status = "FINANCING_REQUESTED" /\ later \in {"FINANCED", "SETTLED"}
  \/ status = "FINANCED" /\ later = "SETTLED"

Told(id) ==
  LET answer == handleGetInvoiceEvents(id) IN {Position(answer[i]) : i \in 1..Len(answer)}

AnswersWereTrue ==
  /\ skipped = {} =>
       \E moment \in 0..Len(events) : \A id \in Ids :
         LET past == {i \in History(id) : i <= moment} IN
         /\ Told(id) \subseteq past
         /\ \A i \in Told(id), j \in past : i < j => j \in Told(id)
         /\ Len(handleGetInvoiceEvents(id)) < InvoiceEventsLimit => Told(id) = past
  /\ \A id \in Ids :
       LET answer == handleGetInvoiceEvents(id) IN
       answer # << >> => LeadsTo(answer[1].status, StatusOf(id))

(***************************************************************************)
(* A client that asks again is never told less, nor a history that has     *)
(* changed: through crashes, failed inserts and replays the answer about   *)
(* an invoice stays as it was or has one event more, in front of the       *)
(* others, and the status told does not go back.  A replay starts at the   *)
(* checkpoint block, so that an event that was refused can still be stored *)
(* only as long as nothing later of its invoice is.                        *)
(***************************************************************************)
Grows(old, new) ==
  \/ new = old
  \/ /\ Len(new) = IF Len(old) < InvoiceEventsLimit THEN Len(old) + 1 ELSE Len(old)
     /\ \A i \in 2..Len(new) : new[i] = old[i - 1]
     /\ old # << >> => LeadsTo(old[1].status, new[1].status)

AnswersOnlyGrow ==
  [][\A id \in Ids :
       Grows(handleGetInvoiceEvents(id), handleGetInvoiceEvents(id)')]_allVars

(***************************************************************************)
(* A server whose consumer has read all there is, and whose ledger is not  *)
(* in the middle of a block, tells of each invoice the status that its     *)
(* record has, unless it was the newest event of that very invoice that    *)
(* the store refused: older losses and those of other invoices, replays    *)
(* and rows out of order make no difference to it.                         *)
(***************************************************************************)
ToldStatus(id) ==
  LET answer == handleGetInvoiceEvents(id) IN
  IF answer = << >> THEN "NONE" ELSE answer[1].status

IdleServersAreUpToDate ==
  Idle /\ block = {} =>
    \A id \in Ids :
      \/ ToldStatus(id) = StatusOf(id)
      \/ \E i \in History(id) \cap (skipped \ Stored) : \A j \in History(id) : j <= i

(***************************************************************************)
(* GET /invoices/{id}/events gives the same answer however the id is       *)
(* spelled.  GET /events gives, for a spelling other than the canonical    *)
(* one, no events at all, and never those of another invoice.              *)
(***************************************************************************)
SpellingOfTheId ==
  \A raw \in RawIds :
    Canonical[raw] # Absent =>
      /\ handleGetInvoiceEvents(raw) = handleGetInvoiceEvents(Canonical[raw])
      /\ \A limit \in 0..2 :
           handleQueryEvents(raw, Unfiltered, limit) \in
             {<< >>, handleQueryEvents(Canonical[raw], Unfiltered, limit)}

(***************************************************************************)
(* If no insert fails and the process stays up from some moment on, then   *)
(* in the end the events that a server shows of an invoice end in the      *)
(* status that the record has, whatever crashes and disconnections came    *)
(* before.                                                                 *)
(***************************************************************************)
EventuallyUpToDate ==
  [](skipped = {}) /\ <>[]Up =>
    \A id \in Ids : []<>(ToldStatus(id) = StatusOf(id))
=============================================================================
