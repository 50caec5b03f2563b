--------------------------- MODULE EventConsumer ---------------------------
(***************************************************************************)
(* The event consumer of the API server: the goroutine that subscribes to  *)
(* the chaincode events and projects them into the SQLite store            *)
(* (cmd/fintrust-api/main.go, internal/projection/store.go and the Events  *)
(* stream of internal/fabric/gateway.go).                                  *)
(*                                                                         *)
(* The store survives a crash; the position in the stream does not.  What  *)
(* the consumer knows after a restart is the checkpoint, which names a     *)
(* block and not an event, so it replays that block and relies on the      *)
(* UNIQUE constraint of the table to skip the events it already has.       *)
(*                                                                         *)
(* An event is its position in the ledger's event log: transaction id and  *)
(* event name together identify it, and its payload is not interpreted.    *)
(* The goroutine in gateway.go that hands the events over one at a time on *)
(* an unbuffered channel holds at most one of them, in order, and is       *)
(* folded into the delivery.                                               *)
(***************************************************************************)
EXTENDS Integers, Sequences, FiniteSets

CONSTANTS
  MaxBlocks,          \* blocks the ledger may commit
  MaxEventsPerBlock,  \* chaincode events in one block
  MaxFaults,          \* errors, disconnections, crashes and store failures
  StoreMayFail        \* whether an insert may fail while the process lives

ASSUME ConsumerAssumption ==
  /\ MaxBlocks \in Nat /\ MaxEventsPerBlock \in Nat /\ MaxFaults \in Nat
  /\ StoreMayFail \in BOOLEAN

VARIABLES
  chain,       \* the ledger's event log: for each event, the number of its block
  height,      \* blocks committed; the next one has this number
  rows,        \* invoice_events, in the order of their id: a sequence of events
  checkpoint,  \* event_checkpoint.block_number, or -1 when there is no row
  pc,          \* where the goroutine is
  startBlock,  \* consumeEvents' local variable
  cursor,      \* the next event the stream delivers
  cancelled,   \* whether ctx has been cancelled (SIGTERM)
  faults,      \* faults so far
  skipped      \* history: the events whose insert failed, ctx still live, and that
               \* the loop then passed over

store == <<rows, checkpoint>>
ledger == <<chain, height>>
consumerVars == <<ledger, store, pc, startBlock, cursor, cancelled, faults, skipped>>

Event == 1..Len(chain)
Stored == {rows[i] : i \in 1..Len(rows)}

Control == {"loop", "subscribe", "streaming", "backoff", "returned", "down"}

ConsumerTypeOK ==
  /\ chain \in Seq(0..(MaxBlocks - 1))
  /\ height \in 0..MaxBlocks
  /\ rows \in Seq(Event)
  /\ checkpoint \in -1..(MaxBlocks - 1)
  /\ pc \in Control
  /\ startBlock \in 0..(MaxBlocks - 1) \cup {0}
  /\ cursor \in 1..(Len(chain) + 1)
  /\ cancelled \in BOOLEAN
  /\ faults \in 0..MaxFaults
  /\ skipped \subseteq Event

ConsumerInit ==
  /\ chain = << >> /\ height = 0
  /\ rows = << >> /\ checkpoint = -1
  /\ pc = "loop" /\ startBlock = 0 /\ cursor = 1
  /\ cancelled = FALSE /\ faults = 0 /\ skipped = {}

-----------------------------------------------------------------------------
(***************************************************************************)
(* The ledger: a block commits with some number of chaincode events.       *)
(***************************************************************************)
CommitBlock(n) ==
  /\ height < MaxBlocks
  /\ chain' = chain \o [i \in 1..n |-> height]
  /\ height' = height + 1
  /\ UNCHANGED <<store, pc, startBlock, cursor, cancelled, faults, skipped>>

\* The stream from a block on starts with the first event of that block or of
\* a later one, which may be yet to come.
FirstFrom(b) == Cardinality({i \in Event : chain[i] < b}) + 1

-----------------------------------------------------------------------------
(***************************************************************************)
(* The consumer.                                                           *)
(***************************************************************************)
\* A fault that the consumer, or the world, has left.
Fault ==
  /\ faults < MaxFaults
  /\ faults' = faults + 1

\* runEventConsumer, the select at the head of its loop.
LoopReturns ==
  /\ pc = "loop" /\ cancelled
  /\ pc' = "returned"
  /\ UNCHANGED <<ledger, store, startBlock, cursor, cancelled, faults, skipped>>

\* As if the replay started after the checkpoint block.
ResumeAfterCheckpoint == IF checkpoint = -1 THEN 0 ELSE checkpoint + 1

\* As if the checkpoint were not read.
ResumeFromGenesis == 0

Resume == IF checkpoint = -1 THEN 0 ELSE checkpoint

ReadCheckpoint ==
  /\ pc = "loop" /\ ~cancelled
  /\ startBlock' = Resume
  /\ pc' = "subscribe"
  /\ UNCHANGED <<ledger, store, cursor, cancelled, faults, skipped>>

Subscribe ==
  /\ pc = "subscribe"
  /\ cursor' = FirstFrom(startBlock)
  /\ pc' = "streaming"
  /\ UNCHANGED <<ledger, store, startBlock, cancelled, faults, skipped>>

\* GetCheckpoint or Events returns an error: wait five seconds, unless ctx was
\* cancelled, in which case an error is no fault.
ConsumeFails ==
  /\ pc \in {"loop", "subscribe"}
  /\ IF cancelled THEN pc = "subscribe" /\ pc' = "returned" /\ UNCHANGED faults
                  ELSE Fault /\ pc' = "backoff"
  /\ UNCHANGED <<ledger, store, startBlock, cursor, cancelled, skipped>>

BackoffEnds ==
  /\ pc = "backoff"
  /\ pc' = IF cancelled THEN "returned" ELSE "loop"
  /\ UNCHANGED <<ledger, store, startBlock, cursor, cancelled, faults, skipped>>

\* The stream ends, for one reason or another: consumeEvents returns nil and
\* the loop subscribes again at once.
StreamCloses ==
  /\ pc = "streaming"
  /\ IF cancelled THEN UNCHANGED faults ELSE Fault
  /\ pc' = "loop"
  /\ UNCHANGED <<ledger, store, startBlock, cursor, cancelled, skipped>>

Delivered == pc = "streaming" /\ cursor <= Len(chain)

\* As if the table had no UNIQUE(transaction_id, event_name).
InsertAlways(e) == rows' = Append(rows, e)

\* INSERT ... ON CONFLICT(transaction_id, event_name) DO NOTHING.
Insert(e) == rows' = IF e \in Stored THEN rows ELSE Append(rows, e)

\* The upsert into event_checkpoint overwrites whatever is there.
SetCheckpoint(e) == checkpoint' = chain[e]

\* InsertEventAndCheckpoint: row and checkpoint in one SQL transaction.
StoreEvent ==
  /\ Delivered /\ ~cancelled
  /\ Insert(cursor)
  /\ SetCheckpoint(cursor)
  /\ cursor' = cursor + 1
  /\ UNCHANGED <<ledger, pc, startBlock, cancelled, faults, skipped>>

\* It fails and rolls back; consumeEvents logs that and takes the next event.
\* BeginTx always fails once ctx is cancelled.
StoreFails ==
  /\ Delivered
  /\ \/ cancelled /\ UNCHANGED <<faults, skipped>>
     \/ ~cancelled /\ StoreMayFail /\ Fault /\ skipped' = skipped \cup {cursor}
  /\ cursor' = cursor + 1
  /\ UNCHANGED <<ledger, store, pc, startBlock, cancelled>>

-----------------------------------------------------------------------------
(***************************************************************************)
(* The process.                                                            *)
(***************************************************************************)
\* SIGTERM: main cancels ctx.
Cancel ==
  /\ pc # "down" /\ ~cancelled
  /\ Fault
  /\ cancelled' = TRUE
  /\ UNCHANGED <<ledger, store, pc, startBlock, cursor, skipped>>

\* The process ends, killed or because main returned, which does not wait for
\* the goroutine.
Exit ==
  /\ pc # "down"
  /\ IF cancelled THEN UNCHANGED faults ELSE Fault
  /\ pc' = "down"
  /\ UNCHANGED <<ledger, store, startBlock, cursor, cancelled, skipped>>

Restart ==
  /\ pc = "down"
  /\ pc' = "loop" /\ cancelled' = FALSE
  /\ UNCHANGED <<ledger, store, startBlock, cursor, faults, skipped>>

Consume ==
  \/ LoopReturns \/ ReadCheckpoint \/ Subscribe \/ ConsumeFails
  \/ BackoffEnds \/ StreamCloses \/ StoreEvent \/ StoreFails

ConsumerNext ==
  \/ \E n \in 0..MaxEventsPerBlock : CommitBlock(n)
  \/ Consume
  \/ Cancel \/ Exit \/ Restart

\* A goroutine that can take a step takes one; the peer keeps delivering.
\* Nothing promises that the process stays up, or comes back.
ConsumerSpec == ConsumerInit /\ [][ConsumerNext]_consumerVars /\ WF_consumerVars(Consume)

-----------------------------------------------------------------------------
(***************************************************************************)
(* Properties.                                                             *)
(***************************************************************************)
(***************************************************************************)
(* While no insert fails, the projection is at every moment a prefix of    *)
(* the ledger's event log, in the ledger's order and without duplicates,   *)
(* and the checkpoint is the block of its last row: crashes, closed        *)
(* streams and replays of the checkpoint block leave no trace.             *)
(***************************************************************************)
RowsArePrefix ==
  /\ rows = [i \in 1..Len(rows) |-> i]
  /\ checkpoint = IF rows = << >> THEN -1 ELSE chain[Len(rows)]

(***************************************************************************)
(* README.md, "Event Projection": (transaction_id, event_name) uniqueness  *)
(* prevents duplicates, even when inserts fail and blocks are replayed.    *)
(***************************************************************************)
NoDuplicates == \A i, j \in 1..Len(rows) : rows[i] = rows[j] => i = j

(***************************************************************************)
(* The upsert compares nothing, yet the checkpoint never goes back: a      *)
(* replay starts at the checkpoint and not before.                         *)
(***************************************************************************)
CheckpointNeverGoesBack == [][checkpoint' >= checkpoint]_consumerVars

(***************************************************************************)
(* An event that the projection has passed (one of an earlier block than   *)
(* the checkpoint's) and does not have is one whose own insert failed in a *)
(* live process: disconnections and crashes lose nothing, nor does a       *)
(* shutdown, although the inserts it aborts are passed over as well.       *)
(***************************************************************************)
Passed == {e \in Event : chain[e] < checkpoint}

OnlyFailedInsertsAreLost == Passed \ Stored \subseteq skipped

(***************************************************************************)
(* store.go, InsertEventAndCheckpoint: "This ensures we never lose events  *)
(* or duplicate them on restart."                                          *)
(***************************************************************************)
NeverLoseEvents == Passed \subseteq Stored

(***************************************************************************)
(* README.md, "Event Projection": "Checkpoint is stored durably after each *)
(* block", so that a block the checkpoint names is one that is complete.   *)
(***************************************************************************)
CheckpointNamesACompleteBlock == \A e \in Event : chain[e] = checkpoint => e \in Stored

(***************************************************************************)
(* Whatever closes, fails, crashes or is replayed, the database is one to  *)
(* which events are added in the order of the ledger, one atomic step      *)
(* each: none is stored while an earlier one is neither stored nor         *)
(* refused, and none is stored twice.  (Inserts that a shutdown aborts are *)
(* no refusals: the events are still to come.)                             *)
(***************************************************************************)
Projection ==
  INSTANCE EventProjection WITH log <- chain, table <- rows, refused <- skipped

ImplementsProjection == Projection!Spec

(***************************************************************************)
(* A consumer that waits for its stream has nothing to catch up with: what *)
(* is not in the table was refused by it.  A reconnection that resumed too *)
(* late, or an event that was passed over on the way, would show here, and *)
(* nothing but a later block could wake the consumer again.                *)
(***************************************************************************)
Up == pc \notin {"down", "returned"} /\ ~cancelled

Idle == Up /\ pc = "streaming" /\ ~Delivered

IdleMissesNothing == Idle => Event \ Stored \subseteq skipped

(***************************************************************************)
(* If the process stays up from some moment on, then every event that the  *)
(* ledger emits is projected in the end, whatever faults came before.      *)
(***************************************************************************)
EventuallyProjected == <>[]Up => []<>(Stored = Event)
=============================================================================
