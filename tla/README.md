# FinTrust Fabric in TLA+

FinTrust is invoice financing on Hyperledger Fabric: a Go chaincode (`chaincode/invoice`) that
moves an invoice through its lifecycle, and a Go API server (`backend`), one per organization,
that submits transactions and projects the chaincode's events into SQLite. This directory
models the parts in which transactions race, calls time out and are repeated, peers lag, blocks
are replayed and processes crash, checks them with TLC and proves the central properties with
TLAPS.

## Inventory

| Component | State | Operations | Interacts with |
|---|---|---|---|
| Chaincode, transaction functions (`contract.go`, `auth.go`, `models.go`) | the record `invoice~<id>` with status, financed flag, financier, last transaction; the key's own endorsement policy (SBE) | `CreateInvoice`, `ApproveInvoice`, `RejectInvoice`, `RequestFinancing`, `FinanceInvoice`, `SettleInvoice` | private data, Fabric validation, events |
| Chaincode, private data and validation (`private.go`, `validation.go`, `collections_config.json`) | two collections: terms and payment details (Supplier, Buyer); disclosure, request, disbursement details and agreement (Supplier, Finance) | validate and store a document, test for presence, compare a hash | collection endorsement policies |
| Chaincode, queries (`contract.go:403-535`) | none | `ReadPublicInvoice`, `ReadPrivateInvoiceData`, `ReadFinancingTerms`, `QueryPublicInvoicesByStatus` | collections |
| Fabric network (configured in `network/`) | the ledger, blocks, versions, policies, the height of each peer | endorse, order, validate, commit | everything |
| API, HTTP handlers (`internal/api/server.go`) | none | six POST handlers, four reads of the ledger, two of the projection, `/healthz`; errors to status codes | gateway client, store |
| API, gateway client (`internal/fabric/gateway.go`) | connection | `Submit` (30 s), `Evaluate` (10 s), `Events`, error classification | Fabric |
| API, event consumer (`cmd/fintrust-api/main.go:82-136`) | position in the stream, context | read the checkpoint, subscribe, store each event, retry | gateway stream, projection store |
| API, projection store (`internal/projection/store.go`) | tables `invoice_events`, `event_checkpoint` | `InsertEventAndCheckpoint`, `GetCheckpoint`, `QueryEvents` | consumer, HTTP handlers |
| API, configuration and process start (`cmd/fintrust-api/main.go`) | none after the start | open the database, start the consumer, listen, shut down | all of the API |
| Scripts and configuration (`network/`, `scripts/`) | none at run time | deploy, demonstrate, verify | API |

What makes the system hard. A transaction is simulated at one time and validated at another,
after other transactions; its writes are computed from a copy of the record that may be old.
Three mechanisms stop a stale one: the versions it read (MVCC), the key's endorsement policy,
which three of the six functions rotate, and Fabric's rule that a policy written in a block
voids the endorsements of those behind it in the same block. The API call that submitted it may
be over before it is ordered: the call timed out, the server stopped, the answer was lost. The
peers commit a block one after the other, so two servers need not show the same ledger. The
consumer of the events keeps only a block number across a crash and relies on replay and a
UNIQUE constraint, and nothing prevents a second consumer on the same database. What is
correct, per component:

- *transaction functions*: one winner per transition; policy, documents, flags and status
  agree; amounts are chained across three transactions; the loser is told why; an invoice that
  is not at its end can be taken further; the events rebuild the state;
- *API calls*: a request takes effect at most once, however often it is repeated; a 2xx is true,
  a 4xx final, and a repetition is refused only because of a conflict; a repeated request is
  resolved in the end, if the chaincode accepts its arguments and documents;
- *queries*: a client reads its own writes where it made them; what different servers show of
  one invoice is of one piece;
- *consumer and store*: no event twice, none lost, checkpoint monotone, everything projected in
  the end; with two consumers, no event twice and none lost that was not refused;
- *queries on the projection*: what is told of an invoice was its history at some moment, newest
  first, and becomes its status.

`PROJECT.json` lists every hazard at its line.

## Modules

| Module | Role |
|---|---|
| `InvoiceContract` | the chaincode's vocabulary: documents, collections, validators, and per function its reads and the policy it leaves |
| `InvoiceLedger` | the six functions as actions, on a ledger with endorsement, blocks and validation; properties |
| `InvoiceLifecycle` | abstract specification: a book of invoices changed by atomic lifecycle steps |
| `InvoiceApi` | three API servers, their clients and lagging peers in front of `InvoiceLedger`; the queries; properties |
| `ApiCall` | abstract specification: a request, what its client is told, and how often it took effect |
| `EventConsumer` | consumer, projection store and process life cycle; properties |
| `EventProjection` | abstract specification: a table to which one event at a time is added, in its turn, with the checkpoint |
| `FinTrust` | `InvoiceLedger` and `EventConsumer` composed, with the queries on the projection; properties |
| `SharedStore` | two `EventConsumer` processes on one database, with start, listening and shutdown; properties |
| `MCInvoiceLedger`, `MCInvoiceApi`, `MCFinTrust` | TLC instances |
| `InvoiceLedgerProofs`, `LedgerRaceProofs` | theorems about `InvoiceLedger`: its invariants and refinement; how a race is lost |
| `InvoiceApiProofs`, `ApiCallProofs` | theorems about `InvoiceApi`: its invariants, what a server shows in the course of time; that it implements `InvoiceLifecycle` and `ApiCall` |
| `EventConsumerProofs`, `SharedStoreProofs` | theorems about one consumer, and about two on one database; that either implements `EventProjection` |
| `FinTrustProofs` | theorems about `FinTrust`: what the two components keep in the composition, and what the queries return |
| `OrderLemmas` | three facts about ordered finite sets that these need: initial segments, enumeration in order, and that there is only one |

Operators whose comment begins with "As if" are deliberate mistakes: the form a definition would
have with a plausible bug. No specification uses them; each serves to see that a property would
notice the bug.

### How `InvoiceLedger` corresponds to the code

A handler action such as `FinanceInvoice(t, caller, raw, fa)` is the *simulation* of the Go
function: its conjuncts are the function's checks in their order, and its effect is an endorsed
transaction `tx[t]` that holds the record to be written (the copy that was read, with the
assigned fields replaced), the private writes, the versions of the keys at that moment and the
organizations that endorsed. An error return is a disabled action, since the client gets no
endorsement. The ledger variables change only in `Commit`.

| Code | Model |
|---|---|
| `getInvoice`, `putInvoice` | `invoice[id]`, `tx[t].invoice` |
| `GetPrivateData`, `privateDataExists` / `getPrivateDataHash` | `PrivateReads` / `HashReads`; only collection members' peers can do the former (`Simulators`), anyone the latter |
| `putPrivateData` | `tx[t].writes` |
| `setSBE` | `RotatesTo`, applied to `policy` |
| `emitEvent` | `events` |
| `canonicalizeInvoiceID` | `Canonical`, from `TrimSpace`, `ToUpper` and membership in `Ids` (length and pattern); the handlers trim and upper-case by themselves (`CanonicalID`), without the last |
| SHA-256 of the canonical JSON | equality of documents (the salt is part of `text`) |

The ledger is external. `Endorse`: the gateway collects exactly the endorsements that the
policies involved ask for, from peers able to simulate the function; the caller must be a
member of the collections it reads or writes. `CutBlock`: any set of endorsed transactions, in
any order, possibly much later. `FailEndorsement`, `FailMVCC`, `Commit`: validation of the
transactions of a block one by one. A version is the number of the transaction that wrote the
key. A policy written in the block (`rotated`) fails later transactions on the key even if its
writer then fails the version check, because Fabric evaluates all policies first.

### How `InvoiceApi` corresponds to the code

A server keeps no state about invoices; the state is that of the calls. `stage[c]` is where the
call of client `c` is, `answer[c]` the HTTP status it got, and `sent[c]` the transactions that
were endorsed for its request, repetitions included.

| Code | Model |
|---|---|
| body decoding and required fields, 400 | `RejectBody` |
| `handleCreateInvoice` ... `handleSettle`, up to `Submit` | `handleCreateInvoice` ... `handleSettle` in `Submit`: the documents with the normalized id, the argument as the client spelled it, and the function of `InvoiceLedger` |
| an endorsing peer returns the chaincode's error | `Refuse`: `Refusal` is the first of the function's checks that fails in that peer's state (`Checks`, `Fails`: role, arguments, record, party, status, financed flag, document that must not or must be there, new documents); `handleFabricError` and the classifiers give the code |
| commit status of the own peer | `Confirm`: 200 or 201, or 502 for a validation code that is not VALID |
| the 30 s timeout, a transport error, the write timeout, a client that is gone | `CallFails` (502, or nothing at all) |
| shutdown cuts calls off after 10 s | `ServerStops` |
| `Evaluate` of a query function | `handleGetInvoice`, `handleGetPrivateData`, `handleGetFinancingTerms`, `handleQueryInvoices` on `view[org]` |

`view[m]` is what the peer of organization `m` has committed, `backlog[m]` the blocks it still
has to commit (`PeerCommits`). A function that succeeds is simulated on the newest state: an
endorsement on a state that has moved on since is a transaction that is endorsed early and
ordered late, which `InvoiceLedger` has. A function that *refuses* leaves no trace on the ledger,
so it is evaluated on whatever state the consulted peer has; `Asked` says which are consulted:
the own peer first and, if that one accepts, those whose endorsement is needed. Whether the
chaincode's message is in the error that the gateway library returns cannot be seen in the
repository: with `ErrorsAreTold = FALSE` it may be missing, and a refusal be a 502. No peer
shows the middle of a block, so the servers take their steps between blocks (`BetweenBlocks`).

### How `EventConsumer` corresponds to the code

`pc` follows `runEventConsumer` and `consumeEvents`: `loop`, `subscribe` (after
`GetCheckpoint`), `streaming` (the `for range`), `backoff` (5 s), `returned`, and `down` when the
process does not run. `rows` and `checkpoint` are the two tables and survive `Exit`; everything
else is in memory. `StoreEvent` is the SQL transaction that inserts and moves the checkpoint;
`StoreFails` is the `log.Printf("store event: ...")` branch, which goes on with the next event.
After `Cancel` every insert fails, because `BeginTx` gets the cancelled context, while the stream
may still deliver: that case needs no `StoreMayFail`.

### How `FinTrust` puts them together

`FinTrust` extends both modules; their variables are disjoint, and so are the names (the consumer's
`Init`, `Next` and `Spec` are `ConsumerInit`, `ConsumerNext`, `ConsumerSpec`). A step is one of the
ledger (`ServerProposes`, `OrdererCuts`, `PeerValidates`), of the consumer's goroutine
(`ServerConsumes`) or of its process (`ProcessChanges`). For `EventConsumer` an event is a number.
Here number `i` is the `i`-th event of the ledger: with the last verdict on a block,
`PeerValidates` includes `CommitBlock`, which hands the consumer as many events as the block has
valid transactions. `Table` is `invoice_events` with its columns, `QueryEvents` the SQL query
(`Matching`, the filters; `InOrder`, the rows `ORDER BY block_number DESC, id DESC`; `Clamp`, the
limit), and the two handlers call it
as the code does: `GET /invoices/{id}/events` with the normalized id, `GET /events` with the id as
it comes.

### How `SharedStore` corresponds to the code

`main` opens the database, starts the consumer, and only then listens. `A` and `B` are two
instances of `EventConsumer` with their own program counter, stream and context, and common
`rows`, `checkpoint` and event log. `ListenA` is `ListenAndServe`: a port that is taken ends the
process through `log.Fatalf`. `StopA` is SIGTERM, which closes the listener before the process
is gone (`ExitA`). `samePort` chooses between a second start by mistake and a second
configuration.

## Checks

| Run | Instance | Shows |
|---|---|---|
| `ledger_races` | 1 invoice, 7 transactions, blocks of at most 2, one valid document of each kind | `SingleWinner`, `PolicyFollowsLifecycle`, `LosersAreToldWhy`, `NeverStuck` |
| `ledger_documents` | 1 invoice, 2 spellings of its id, amounts 0 to 2, well-formed and malformed documents, 5 transactions | `DocumentsFollowLifecycle`, `AmountsAreChained`, `WrittenOnce`, `ImplementsLifecycle`, and the inductive invariant `WInv` (`IInv` and `WellMade`) |
| `ledger_two_invoices` | 2 invoices, 5 transactions, blocks of at most 3 | `OnlyTheStaleLose`, `EventsTellTheState` |
| `api_races` | 2 clients that create, approve and reject, 3 transactions, peers 1 block behind, 2 lost calls | `RepeatsAreResolved`, `ImplementsCalls`, `ApiTypeOK` |
| `api_lifecycle` | 1 client with every request, good and bad, 5 transactions, peers 2 blocks behind, errors that may not be told | `ReadYourWrites`, `ShownDocumentsAgree`, `ServersShowEveryStep` |
| `api_repeats` | 2 clients that create (with an id to be trimmed and upper-cased), approve, and create with an amount of zero, 3 transactions, with fairness | `EveryRequestIsResolved` |
| `projection_faults` | 3 blocks of at most 2 events, 4 faults, inserts do not fail | `RowsArePrefix`, `CheckpointNeverGoesBack`, `EventuallyProjected` |
| `projection_failed_inserts` | the same, inserts may fail | `NoDuplicates`, `OnlyFailedInsertsAreLost`, `IdleMissesNothing`, `ImplementsProjection`, and the inductive invariant `CInv` |
| `doc_never_lose_events` | the same | **violated**: the code comment's "we never lose events" |
| `doc_checkpoint_per_block` | inserts do not fail | **violated**: the README's "stored durably after each block" |
| `server_events` | 2 invoices, a second spelling of one and an id that is refused, 3 transactions in blocks of at most 2, 2 faults, inserts may fail | `NewestFirst`, `SpellingOfTheId`, `AnswersWereTrue`, `AnswersOnlyGrow`, `IdleServersAreUpToDate`, `EventuallyUpToDate`, and the inductive invariant `JInv` |
| `shared_store` | 2 processes, 3 starts, 2 blocks of at most 2 events, 2 faults, inserts may fail | `RestartLosesNothing`, `IdleMissesNothing`, `ImplementsProjection`, `OneConsumerRemains`, `EventuallyProjected` |

A property that the run of another property implies is not checked by itself: `ConsumerTypeOK` is
the first conjunct of `CInv`, and with no refused insert `ImplementsProjection` says of two
consumers what `RowsArePrefix` says. Both are theorems.

What the checks found:

- The README's account of the two races is right, with one refinement. A losing
  `FinanceInvoice` is always told `ENDORSEMENT_POLICY_FAILURE`. A losing `RequestFinancing` is told
  `MVCC_READ_CONFLICT` while the invoice is `FINANCING_REQUESTED`; one that reaches validation
  after the invoice was financed fails the rotated policy instead.
- A fresh `ApproveInvoice` or `RejectInvoice` can fail although nobody changed the invoice, when
  a late duplicate of `CreateInvoice` precedes it in its block (`OnlyTheStaleLose` states this as
  the only such case). It can be submitted again.
- Rotation is not what prevents double financing: the version check does (`SingleWinner` also
  holds with the rotation of `FinanceInvoice` removed). Rotation decides the code of the loser.
- Every POST is safe to repeat although nothing in the API makes it idempotent: the status check
  and the version check do. A repetition of a request that got as far as a transaction is never
  answered with 404 or 403, lagging peers included, because it is the newer state that refuses;
  it is 409, and that may mean that the client's own transaction has won. To know, it must read.
- Repeating until there is a verdict works only for requests whose arguments and documents the
  chaincode accepts (`InGoodOrder`). A malformed id, a wrong buyer, an amount that is not positive
  or a disclosure that does not match is answered 502, like a fault of the network, as often as
  it is repeated: `handleFabricError` (`server.go:508`) knows no phrase of these messages.
  No document says which status they should have, so this is no finding.
- The handler trims and upper-cases the id that it puts into the documents, the chaincode does so
  again with the id in the argument. If they disagreed, a creation whose id is spelled otherwise
  would be refused for ever: `EveryRequestIsResolved` fails when the handler leaves the id as it is.
- A loser of a race is told 502, like a timeout (its validation code is no phrase that
  `handleFabricError` looks for), and 409 when it asks again.
- A client reads its own writes at the server that confirmed them and nowhere else, because the
  commit status comes from that server's peer. `scripts/api-smoke.sh:131` settles at the buyer's
  server and reads at the supplier's at once: it may find `FINANCED`.
- Documents never disagree between two servers, and those a server shows fit the status it shows,
  at one height. The public record and the private documents are read by separate requests,
  between which the peer may commit a block.
- To whoever keeps asking one server, an invoice goes through its lifecycle one status at a time,
  although a peer moves on by whole blocks: of the transactions of one invoice that share a block,
  no more than one becomes valid, because all of them were endorsed before it was committed.
- `consumeEvents` loses an event whose insert fails, as soon as a later event of a later block
  is stored (finding 1). Without failing inserts nothing is lost, through any crash or shutdown.
- After failed inserts and a replay, the rows of one block are not in the ledger's order, and the
  query sorts only by block and row. For one invoice the answer is nevertheless newest first,
  because the version check keeps two events of one invoice out of a block; the answer of
  `GET /events` for several invoices need not be.
- The answer about one invoice is never taken back: an event that was refused can be stored on a
  replay, but only as long as nothing later of its invoice is. Only the loss of the newest event
  of an invoice makes an idle server tell an old status of it.
- `GET /events?invoice_id=` finds nothing for an id that is not spelled canonically, though the
  endpoint of the invoice does (`SpellingOfTheId` allows this, and excludes anything worse).
- With two processes on one database the checkpoint does go back. Still no event is stored twice
  or lost, other than by an insert that was refused to one of them.

**Bounds and why they are enough.** `MaxTx`, `MaxBlockTxs`: a transition needs one transaction, a
race two: the path to `SETTLED` takes five, and seven leave two rivals anywhere on it, or a
duplicate creation and a race. Two rivals fit in a block, and three transactions of two
invoices. The amounts 0, 1, 2 have values below, at and above every bound and one that is not
positive. `MaxLag`, `MaxLostCalls`: three transactions are an original, its repetition and a
rival; a peer one block behind is before or after the decisive block; two lost calls allow a
repetition to be lost too. With two blocks of lag a peer may miss a whole transition
and its predecessor. `MaxBlocks`, `MaxEventsPerBlock`, `MaxFaults`: a fault before, within and
after a block takes two events per block, and what it breaks shows one block later; four faults
allow a failure during the recovery from a failure. `MaxStarts`: two processes and a successor
to one of them. `server_events` scales the limits of the queries, 50, 100 and 500 in the code, to
2, 2 and 3, so that they cut something. The behaviours end when the bounds are used up, which is
why deadlock is not checked. The theorems hold for every value of the bounds.

**Fairness.** `InvoiceLedger` has none: nobody has to propose, endorse or order. `FairApiSpec`:
servers handle their calls, clients repeat what they have no verdict on, the orderer orders, and
peers validate and commit; the lost calls are finite. `EventConsumer` and `SharedStore` have weak
fairness of each goroutine's steps together (a goroutine that can run does; the peer keeps
delivering), and `FinTrust` of validation besides. Faults are finite. Nothing is assumed about a
process being restarted; `EventuallyProjected` and `EventuallyUpToDate` therefore speak of
behaviours in which it is up from some moment on.

## Proofs

All theorems hold for any invoices, documents, clients, requests and bounds. The assumptions are
those the modules state about their constants: trimming and upper-casing leave an id as it is,
amounts are integers, `Absent` is not an id, a document, a record, a transaction or a request,
the empty string is no spelling of an id, the bounds are natural numbers, the limits of the queries
are positive and ordered as in the code (50 and 100 are at most 500), and in `FinTrust` the stream
allows as many blocks, and as many events in one, as the ledger can produce.

**The ledger.** `InvoiceLedgerProofs` proves `TypeCorrect`, `NoTwoWinners` (`SingleWinner`),
`PolicyIsOfThePhase`, `DocumentsAreOfThePhase`, `AmountsStayChained`, the action property
`NothingIsWrittenTwice` (`WrittenOnce`), the refinement `ImplementsTheLifecycle`,
`TheLogTellsTheState` (`EventsTellTheState`) and `ThereIsAWayOn`, all from `IInvariance`.

None of the properties is inductive: an endorsed transaction may hold writes that would break
every one of them if they were applied now. `IInv` says what saves the day: if the record still
has the version the transaction read, then applying its writes to the *present* documents and
policy gives a sound invoice one step further on (`EndorsedAreSound`). Endorsement establishes
this (one lemma per function, `CreateIsSound` to `SettleIsSound`); a failed validation changes
nothing; a commit on the same invoice changes the version to one that no other transaction can
have read (`ReadsAreCommitted`), and a commit on another invoice does not touch it. The committing
transaction hands its soundness to the invoice (`InvoicesOK`), and `CommittedAreBehind` keeps the
status beyond every transition that was taken, so that a rival can no longer be fresh.

For the action property and the refinement, only a commit changes the ledger
(`OnlyCommitsChangeTheLedger`), and what a commit does follows from the soundness of its
transaction: it writes no document that exists, keeps the parties and the hash, leaves no
terminal status (`CommitKeeps`), and each operation fixes one amount, within the one before it
(`CommitAmounts`), which makes it one step of `InvoiceLifecycle` (`CommitRefines`).

For the event log, `LogInv` adds that a transaction carries its own number (`Numbered`), and that
an event is that of one valid transaction and has the status its function leads to
(`EventsAreOfTheValid`). The newest event of an invoice tells the status of its record; a commit
starts, by the soundness of its transaction, from that very status, so the event it appends is the
next edge of the lifecycle (`CommitLogInv`).

`NeverStuck` says with ENABLED that every invoice that is not at its end can be taken further. The
prover has no ENABLED, so `ThereIsAWayOn` names the step: `WayOn(t, id, amount, text)` is a
transaction built from what the ledger holds (the supplier asks for all of what was approved, the
financier agrees to all that was asked for), and the step that endorses it and leaves everything
else alone satisfies `Propose(t)`. It assumes of the constants that there is a positive amount and
a well-formed text. What it needs of the state is `WInv`: the documents in the collections must be
ones the validators accept again, filed under their own id, and the record must name the
organizations that the role checks ask for.

**The races.** `LedgerRaceProofs` proves `LosersLearnWhy` (`LosersAreToldWhy`) and
`LosersWereOvertaken` (`OnlyTheStaleLose`) from `RaceInvariance`. `RInv` adds to `IInv` that a
transaction carries the endorsements its status asked for (`EndorsersOK`); that all the keys it
read go stale together with the record (`FreshTogether`), upon which the invoice has left that
status (`OvertakenOK`); and who rotated a policy within the block (`RotatedOK`): a winner, to whom
all others on the invoice are stale, or a late duplicate of the creation. Which check a loser
fails is then a matter of two statuses and of `RotatedOK`.

**The API.** `InvoiceApiProofs` first shows that the servers drive the ledger as `InvoiceLedger`
allows (`ApiKeepsToTheLedger`), so that `IInv` holds behind them, then `ApiTypesAreCorrect`,
`EveryRefusedRepeatIsAConflict` (`RepeatsAreResolved`), `ClientsReadTheirWrites`
(`ReadYourWrites`) and `ServersAgreeOnDocuments` (`ShownDocumentsAgree`) from `ApiInvariance`. What a lagging peer answers depends on the past,
so `AInv` has to say enough of it: what a peer has, and each block on its way, was once the ledger
and is consistent with what the ledger is now (`PeersOK`, `Genuine`); its records name the
organizations that have the roles (`PartiesOK`, from `WellMade`); an invoice left each status
through a valid transaction (`Taken`); and the transactions of a request were made from it and
endorsed on a status from which its function starts (`SentOK`). If a repetition is refused, no
check but those of existence and status can have failed (`PartiesPassAgain`,
`LaterChecksPassAgain`): the invoice has left that status in the eyes of the refusing peer, a rival is valid, and the code is
the conflict (`RefusedForARival`).

`ServersLeaveNothingOut` (`ServersShowEveryStep`) is about steps, and what a step shows was decided
by a block some time ago. `PeersGoByOne` has two parts for this. Within a block, an invoice that
has moved takes no further step, because the commit makes every transaction on it that is still to
come stale (`CommitMakesStale`, `BlockContinues`). And each of the states on its way to a peer
follows the one before it by at most one edge per invoice, with the documents kept (`Follows`).
That the servers implement the lifecycle (`TheApiImplementsTheLifecycle`) follows from the ledger's
refinement.

`ApiCallProofs` proves that `InvoiceApi` implements `ApiCall` (`ImplementsTheCalls`). At most one of
the transactions of a request is valid because they are rivals of one another
(`EffectsAreOneOrNone`, from `SingleWinner`); a step of a call is its step of `ApiCall`, and a
validation is `TakeEffect` of the request it belongs to, or a stutter (`TransactionsTakeEffect`).
A 4xx while a transaction of the request is still under way is no promise broken: it is the
conflict with a rival that is valid already, so that this transaction can no longer become valid.

**The consumer.** `EventConsumerProofs` proves `ConsumerTypeCorrect`, `EventsAreStoredOnce`
(`NoDuplicates`), `LossesAreFailedInserts` (`OnlyFailedInsertsAreLost`), `CheckpointIsMonotonic`
(`CheckpointNeverGoesBack`) and, under the assumption that inserts do not fail,
`ProjectionIsAPrefix` (`RowsArePrefix`). What the properties lack to be inductive is the position
in the stream. `CInv` adds that everything still to come is at or after the checkpoint (`Ahead`),
and that while ctx is live everything before it is stored or was skipped by a failed insert
(`BehindIsDone`). A subscription establishes both, because it starts at the checkpoint block and
the events of earlier blocks are exactly those before it (`StreamFrom`, from the cardinality of
an initial segment). After a cancellation the stream may run past events that are not stored,
but nothing is stored after them, and the next process subscribes anew.

`ImplementsTheProjection` (`ImplementsProjection`) reduces the consumer to `EventProjection`: an
insert is `Project`, a refused one `Refuse`, and stream, crashes, retries and replays are stutters.
The step to prove is that an event that is stored is `Due`, which is `BehindIsDone`; an event seen
again is in the table already and leaves it as it is. `IdleConsumersMissNothing`
(`IdleMissesNothing`) is the part of `EventuallyProjected` that a prover without liveness can give:
where the consumer comes to rest, nothing is missing.

**Two consumers.** `Ahead` is false of two consumers, and so is a monotone checkpoint.
`SharedStoreProofs` proves `SharedRowsArePrefix` (`RowsArePrefix`) and `SharedCheckpointIsSafe`
(`RestartLosesNothing`) from what neither consumer can undo: an event that is stored or was
refused to one of them stays so. `SInv` says that each consumer, while it can store, has
everything behind its own position done in this sense (`ProcessOK`), and so has the checkpoint,
which is always the position of one of them (`StoreOK`). From this it follows that the two
together still implement `EventProjection` (`TwoImplementTheProjection`), in which the checkpoint
may go back but an event is never added before its turn, and that nothing is missing when either
of them is idle (`IdleConsumersMissNothing`).

**The composition.** `FinTrustProofs` first shows that nothing is lost by composing:
`TheLedgerIsTheLedger` and `TheConsumerIsTheConsumer` say that every behaviour of `FinTrust` is one
of each component, so what is proved of them holds here; `TheStreamHasRoom` that the bounds of the
stream never hold back the ledger, which would hide behaviours. The invariant `JInv`
(`ServerInvariance`) joins `LogInv` and `CInv` by what ties one component to the other: the stream
is the event log up to the block in validation (`InStep`), each block has decided a transaction
(`HeightOK`), and no block has two events of one invoice (`OnePerBlock`). The last is not inductive
by itself: a commit makes every transaction on its invoice that is still to come in the block
stale, so that it cannot add a second event.

A query sorts, and the sorted rows are a CHOOSE; that there is something to choose is proved from
the fact that a finite set with a strict total order can be enumerated in it (`EnumerationExists`:
the place of an element is the number of those up to it). `AnswerOf` then says what an answer is, and
from it follow `AnswersAreNewestFirst` (`NewestFirst`; a later block has later events, and within a
block there is nothing to sort), `TheServerTellsThePast` (`AnswersWereTrue`; the moment is the length
of the projection, since without failed inserts the projection is the log up to there) and
`SpellingFindsNothingElse` (`SpellingOfTheId`).

`AnswersAreNeverTakenBack` (`AnswersOnlyGrow`) compares two answers, so that it matters that the
enumeration is the only one (`EnumerationIsUnique`): an unchanged set of rows gives an unchanged
answer. If a row is added, it has to be the newest of its invoice; `HistoriesLead`, an addition to
`JInv`, says that the statuses of two events of an invoice are those of a lifecycle in the order of
their numbers. A replay could still add an old one; but nothing that is stored is beyond the
checkpoint (`NothingBeyond`, an addition to `CInv`), the stream is not behind it, and no block has
two events of one invoice, so that what is added now is newer than all that is stored.
`IdleServersTellTheStatus` (`IdleServersAreUpToDate`) is the safety half of `EventuallyUpToDate`,
from the invariants of the two components and what ties them together. `TogetherTheyImplementBoth`
says of the composition that it implements `InvoiceLifecycle` and `EventProjection`.
`AnswersOnlyGrow` is stated of one consumer: with two, a row may be added out of order by the
slower one.

**Only model-checked.**

- Liveness, which is out of the prover's reach: `EventuallyProjected` (of one consumer and of two),
  `OneConsumerRemains`, `EveryRequestIsResolved`, `EventuallyUpToDate`. What is proved of the first
  and the last is that the state in which the consumer comes to rest is the right one
  (`IdleMissesNothing`, `IdleServersAreUpToDate`); that it comes to rest is checked by TLC.
- `NeverStuck` as it stands, because of ENABLED; `ThereIsAWayOn` is proved in its place.

## Not modelled

- Timestamps (copied from the client, never read), formats and lengths in the validators (one
  predicate on the rest of a document), the wording of answers, an id that is the empty string.
- `loadConfig` and `applyOrgDefaults`: they compute a record from the environment before anything
  runs. The set-up of the gateway connection, `/healthz`, and `EventCount`, which nothing in the
  server calls.
- Private data that does not reach a peer (`requiredPeerCount`), the chaincode-level policy (any
  one endorsement satisfies it), ordering by a real consensus, more than one peer of an
  organization.
- A commit of SQLite whose outcome is unknown: it is counted as a failed or a successful insert.
- The scripts: one-shot operator actions, read for what they expect of the system.

## Plan

1. (done) `InvoiceContract`, `InvoiceLedger`, `InvoiceLifecycle`, `EventConsumer` and the theorems
   about them.
2. (done) `InvoiceApi` and `ApiCall`: calls, timeouts, repetitions, lagging peers, queries.
3. (done) `FinTrust`: ledger, consumer and queries on the projection; `SharedStore`.
4. (done) Proofs: the races, the API and its refinement, two consumers on one database, the event
   log, the composition and its queries.
5. (done) Proofs: what is seen in the course of time (`ServersShowEveryStep`, `AnswersOnlyGrow`), the
   refinement of `EventProjection`, and the safety halves of the liveness properties.

What is left is the liveness that the list of model-checked properties names, of which only the
safety part (what every step keeps, and what each brings closer) could be proved, and the parts
under "Not modelled", of which private data that fails to reach a peer is the one that could change
an answer.
