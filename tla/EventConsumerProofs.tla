------------------------ MODULE EventConsumerProofs ------------------------
(***************************************************************************)
(* Proofs about the event consumer, for any number of blocks, events and   *)
(* faults: which guarantees of the projection survive a crash, a replay, a *)
(* shutdown and a failed insert.                                           *)
(*                                                                         *)
(* The stream is what has to be described.  While it is read, everything   *)
(* still to come is at or after the checkpoint (Ahead), and everything     *)
(* before it has been stored or skipped (BehindIsDone).  The second is     *)
(* claimed only while ctx is live: a shutdown lets the stream run past     *)
(* events that are not stored, but then nothing is stored after them.      *)
(***************************************************************************)
EXTENDS EventConsumer, OrderLemmas, TLAPS

Ordered ==
  /\ \A i, j \in Event : i <= j => chain[i] <= chain[j]
  /\ \A i \in Event : chain[i] < height
  /\ checkpoint < height

SubscribesAtCheckpoint == pc = "subscribe" => startBlock = Resume

Ahead == pc = "streaming" => \A e \in Event : e >= cursor => checkpoint <= chain[e]

BehindIsDone ==
  pc = "streaming" /\ ~cancelled => \A e \in Event : e < cursor => e \in Stored \cup skipped

\* The checkpoint is the highest block that was ever stored.
NothingBeyond == \A e \in Stored : chain[e] <= checkpoint

(***************************************************************************)
(* The inductive invariant.  Its last two conjuncts are properties of      *)
(* EventConsumer; the others say where the goroutine stands in the stream, *)
(* relative to what the store holds.                                       *)
(***************************************************************************)
CInv ==
  /\ ConsumerTypeOK
  /\ Ordered
  /\ SubscribesAtCheckpoint
  /\ Ahead
  /\ BehindIsDone
  /\ NothingBeyond
  /\ OnlyFailedInsertsAreLost
  /\ NoDuplicates

\* As long as no insert has failed.
PrefixInv ==
  /\ skipped = {} => RowsArePrefix
  /\ ~StoreMayFail => skipped = {}

-----------------------------------------------------------------------------
\* The stream from block b on leaves out exactly the events of earlier blocks.
LEMMA StreamFrom ==
  ASSUME ConsumerTypeOK, Ordered, NEW b \in Int
  PROVE  /\ FirstFrom(b) \in 1..(Len(chain) + 1)
         /\ \A e \in Event : e < FirstFrom(b) <=> chain[e] < b
<1> DEFINE S == {i \in Event : chain[i] < b}
<1>1. Len(chain) \in Nat /\ \A i \in Event : chain[i] \in Int
  BY ConsumerAssumption DEF ConsumerTypeOK, Event, ConsumerAssumption
<1>2. \A i \in S : \A j \in Event : j <= i => j \in S
  BY <1>1 DEF Ordered
<1>3. /\ Cardinality(S) \in 0..Len(chain)
      /\ \A i \in Event : i \in S <=> i <= Cardinality(S)
  BY <1>1, <1>2, InitialSegment DEF Event
<1>4. FirstFrom(b) = Cardinality(S) + 1
  BY DEF FirstFrom
<1> HIDE DEF S
<1>5. \A i \in Event : i < FirstFrom(b) <=> i \in S
  BY <1>1, <1>3, <1>4 DEF Event
<1> QED
  BY <1>1, <1>3, <1>4, <1>5 DEF S

\* The types that the arithmetic needs.
LEMMA Numbers ==
  ASSUME ConsumerTypeOK
  PROVE  /\ height \in Int /\ checkpoint \in Int /\ cursor \in Int /\ Len(chain) \in Nat
         /\ \A e \in Event : e \in Int /\ chain[e] \in Int
         /\ rows \in Seq(Event) /\ Len(rows) \in Nat
BY ConsumerAssumption DEF ConsumerTypeOK, Event, ConsumerAssumption

\* The empty ledger, the empty store, and no stream.
LEMMA InitCInv == ConsumerInit => CInv /\ PrefixInv
<1> SUFFICES ASSUME ConsumerInit PROVE CInv /\ PrefixInv
  OBVIOUS
<1>1. Event = {} /\ Stored = {} /\ Len(rows) = 0 /\ Len(chain) = 0
  BY DEF ConsumerInit, Event, Stored
<1>2. ConsumerTypeOK
  <2>1. chain \in Seq(0..(MaxBlocks - 1)) /\ rows \in Seq(Event)
    BY DEF ConsumerInit
  <2>2. /\ height \in 0..MaxBlocks /\ faults \in 0..MaxFaults
        /\ checkpoint \in -1..(MaxBlocks - 1)
    BY ConsumerAssumption DEF ConsumerInit, ConsumerAssumption
  <2>3. pc \in Control /\ startBlock \in 0..(MaxBlocks - 1) \cup {0} /\ cancelled \in BOOLEAN
    BY DEF ConsumerInit, Control
  <2>4. cursor \in 1..(Len(chain) + 1) /\ skipped \subseteq Event
    BY <1>1 DEF ConsumerInit
  <2> QED
    BY <2>1, <2>2, <2>3, <2>4 DEF ConsumerTypeOK
<1> QED
  BY <1>1, <1>2
     DEF ConsumerInit, CInv, PrefixInv, Ordered, SubscribesAtCheckpoint, Ahead,
         BehindIsDone, NothingBeyond, OnlyFailedInsertsAreLost, NoDuplicates,
         RowsArePrefix, Passed

-----------------------------------------------------------------------------
\* The ledger grows at its end, beyond the checkpoint.
LEMMA CommitBlockCInv ==
  ASSUME CInv, NEW n \in 0..MaxEventsPerBlock, CommitBlock(n)
  PROVE  CInv' /\ (PrefixInv => PrefixInv')
<1> DEFINE new == [i \in 1..n |-> height]
<1>1. /\ ConsumerTypeOK /\ Ordered /\ height \in 0..(MaxBlocks - 1) /\ n \in Nat
      /\ height' = height + 1
      /\ UNCHANGED <<rows, checkpoint, pc, startBlock, cursor, cancelled, faults, skipped>>
  BY ConsumerAssumption DEF CInv, CommitBlock, ConsumerTypeOK, ConsumerAssumption, store
<1>2. chain \in Seq(0..(MaxBlocks - 1)) /\ new \in Seq(0..(MaxBlocks - 1)) /\ Len(new) = n
  BY <1>1 DEF ConsumerTypeOK
<1>3. /\ chain' \in Seq(0..(MaxBlocks - 1))
      /\ Len(chain') = Len(chain) + n
      /\ \A i \in 1..Len(chain) : chain'[i] = chain[i]
      /\ \A i \in (Len(chain) + 1)..(Len(chain) + n) : chain'[i] = height
  <2>1. chain' = chain \o new
    BY DEF CommitBlock
  <2> QED
    BY <1>1, <1>2, <2>1
<1>4. /\ height \in Int /\ checkpoint \in Int /\ cursor \in Int /\ Len(chain) \in Nat
      /\ \A e \in Event : chain[e] \in Int
  BY <1>1, Numbers
<1> HIDE DEF new
<1>5. /\ Event \subseteq Event'
      /\ \A e \in Event : chain'[e] = chain[e]
      /\ \A e \in Event' \ Event : chain'[e] = height /\ \A i \in Event : i < e
  BY <1>1, <1>3, <1>4 DEF Event
<1>6. ConsumerTypeOK'
  <2>1. rows' \in Seq(Event')
    BY <1>1, <1>5 DEF ConsumerTypeOK
  <2>2. cursor' \in 1..(Len(chain') + 1)
    BY <1>1, <1>3, <1>4 DEF ConsumerTypeOK
  <2>3. height' \in 0..MaxBlocks
    BY <1>1, ConsumerAssumption DEF ConsumerAssumption
  <2>4. /\ checkpoint' \in -1..(MaxBlocks - 1) /\ startBlock' \in 0..(MaxBlocks - 1) \cup {0}
        /\ pc' \in Control /\ cancelled' \in BOOLEAN /\ faults' \in 0..MaxFaults
    BY <1>1 DEF ConsumerTypeOK
  <2>5. skipped' \subseteq Event'
    BY <1>1, <1>5 DEF ConsumerTypeOK
  <2> QED
    BY <1>3, <2>1, <2>2, <2>3, <2>4, <2>5 DEF ConsumerTypeOK
<1>7. Ordered'
  <2>1. \A i \in Event : chain[i] < height /\ chain[i] \in Int
    BY <1>1, <1>4 DEF Ordered
  <2>2. \A i, j \in Event' : i <= j => chain'[i] <= chain'[j]
    BY <1>1, <1>4, <1>5, <2>1 DEF Ordered, Event
  <2> QED
    BY <1>1, <1>4, <1>5, <2>1, <2>2 DEF Ordered
<1>8. SubscribesAtCheckpoint' /\ Stored' = Stored /\ Passed' = Passed
  <2>1. checkpoint < height
    BY <1>1 DEF Ordered
  <2> QED
    BY <1>1, <1>4, <1>5, <2>1 DEF CInv, SubscribesAtCheckpoint, Resume, Stored, Passed
<1>9. Ahead'
  BY <1>1, <1>4, <1>5 DEF CInv, Ahead, Ordered
<1>10. BehindIsDone'
  <2>1. \A e \in Event' : e < cursor => e \in Event
    BY <1>1, <1>4 DEF ConsumerTypeOK, Event
  <2> QED
    BY <1>1, <1>8, <2>1 DEF CInv, BehindIsDone
<1>11. OnlyFailedInsertsAreLost' /\ NoDuplicates' /\ NothingBeyond'
  <2>1. Stored \subseteq Event
    BY <1>1, Numbers DEF Stored
  <2> QED
    BY <1>1, <1>5, <1>8, <2>1 DEF CInv, OnlyFailedInsertsAreLost, NoDuplicates, NothingBeyond
<1>12. ASSUME PrefixInv PROVE PrefixInv'
  <2> SUFFICES ASSUME skipped = {} PROVE RowsArePrefix'
    BY <1>1, <1>12 DEF PrefixInv
  <2>1. RowsArePrefix /\ skipped = {}
    BY <1>12 DEF PrefixInv
  <2>2. rows \in Seq(Event) /\ Len(rows) \in Nat
    BY <1>1, Numbers
  <2>3. rows # << >> => Len(rows) \in Event
    <3>1. rows # << >> => rows[Len(rows)] \in Event /\ Len(rows) \in 1..Len(rows)
      BY <2>2
    <3> QED
      BY <2>1, <2>2, <3>1 DEF RowsArePrefix
  <2> QED
    BY <1>1, <1>5, <2>1, <2>3 DEF RowsArePrefix
<1> QED
  BY <1>6, <1>7, <1>8, <1>9, <1>10, <1>11, <1>12 DEF CInv

\* The steps that leave ledger and store alone, and after which the stream is
\* not read, or is read by a consumer that can no longer store.
ControlStep ==
  \/ LoopReturns \/ ReadCheckpoint \/ ConsumeFails \/ BackoffEnds \/ StreamCloses
  \/ Cancel \/ Exit \/ Restart

\* Nothing that the invariant speaks of moves.
LEMMA ControlCInv ==
  ASSUME CInv, ControlStep
  PROVE  CInv' /\ (PrefixInv => PrefixInv')
<1>1. /\ UNCHANGED <<chain, height, rows, checkpoint, cursor, skipped>>
      /\ pc' = "streaming" => pc = "streaming" /\ cancelled'
  BY DEF ControlStep, LoopReturns, ReadCheckpoint, ConsumeFails, BackoffEnds, StreamCloses,
         Cancel, Exit, Restart, ledger, store
<1>2. pc' \in Control /\ cancelled' \in BOOLEAN /\ faults' \in 0..MaxFaults
  <2>1. pc' \in Control
    BY DEF CInv, ConsumerTypeOK, Control, ControlStep, LoopReturns, ReadCheckpoint,
           ConsumeFails, BackoffEnds, StreamCloses, Cancel, Exit, Restart
  <2>2. cancelled' \in BOOLEAN
    BY DEF CInv, ConsumerTypeOK, ControlStep, LoopReturns, ReadCheckpoint, ConsumeFails,
           BackoffEnds, StreamCloses, Cancel, Exit, Restart
  <2>3. faults' = faults \/ Fault
    BY DEF ControlStep, LoopReturns, ReadCheckpoint, ConsumeFails, BackoffEnds, StreamCloses,
           Cancel, Exit, Restart
  <2>4. faults' \in 0..MaxFaults
    BY <2>3, ConsumerAssumption DEF CInv, ConsumerTypeOK, Fault, ConsumerAssumption
  <2> QED
    BY <2>1, <2>2, <2>4
<1>3. startBlock' = startBlock \/ startBlock' = Resume
  BY DEF ControlStep, LoopReturns, ReadCheckpoint, ConsumeFails, BackoffEnds, StreamCloses,
         Cancel, Exit, Restart
<1>4. pc' = "subscribe" => startBlock' = Resume
  BY DEF CInv, SubscribesAtCheckpoint, ControlStep, LoopReturns, ReadCheckpoint,
         ConsumeFails, BackoffEnds, StreamCloses, Cancel, Exit, Restart
<1>5. Event' = Event /\ Stored' = Stored /\ Passed' = Passed /\ Resume' = Resume
  BY <1>1 DEF Event, Stored, Passed, Resume
<1>6. ConsumerTypeOK'
  <2>1. Resume \in 0..(MaxBlocks - 1) \cup {0}
    BY ConsumerAssumption DEF CInv, ConsumerTypeOK, Resume, ConsumerAssumption
  <2>2. startBlock' \in 0..(MaxBlocks - 1) \cup {0}
    BY <1>3, <2>1 DEF CInv, ConsumerTypeOK
  <2> QED
    BY <1>1, <1>2, <1>5, <2>2 DEF CInv, ConsumerTypeOK
<1>7. Ordered' /\ SubscribesAtCheckpoint' /\ Ahead' /\ BehindIsDone'
  BY <1>1, <1>4, <1>5 DEF CInv, Ordered, SubscribesAtCheckpoint, Ahead, BehindIsDone
<1>8. OnlyFailedInsertsAreLost' /\ NoDuplicates' /\ NothingBeyond' /\ (PrefixInv => PrefixInv')
  BY <1>1, <1>5 DEF CInv, OnlyFailedInsertsAreLost, NoDuplicates, NothingBeyond, PrefixInv,
                    RowsArePrefix
<1> QED
  BY <1>6, <1>7, <1>8 DEF CInv

\* The replay starts behind what has been passed, and at the checkpoint.
LEMMA SubscribeCInv ==
  ASSUME CInv, Subscribe
  PROVE  CInv' /\ (PrefixInv => PrefixInv')
<1>1. /\ UNCHANGED <<chain, height, rows, checkpoint, startBlock, cancelled, faults, skipped>>
      /\ startBlock = Resume /\ pc' = "streaming" /\ cursor' = FirstFrom(startBlock)
  BY DEF CInv, SubscribesAtCheckpoint, Subscribe, ledger, store
<1>2. ConsumerTypeOK /\ Ordered /\ startBlock \in Int
  BY ConsumerAssumption DEF CInv, ConsumerTypeOK, ConsumerAssumption
<1>3. /\ FirstFrom(startBlock) \in 1..(Len(chain) + 1)
      /\ \A e \in Event : e < FirstFrom(startBlock) <=> chain[e] < startBlock
  BY <1>2, StreamFrom
<1>4. /\ checkpoint \in Int /\ FirstFrom(startBlock) \in Int
      /\ \A e \in Event : e \in Int /\ chain[e] \in Int
      /\ \A e \in Event : chain[e] >= 0
      /\ checkpoint >= -1
  BY <1>2, <1>3, Numbers, ConsumerAssumption DEF ConsumerTypeOK, Event, ConsumerAssumption
<1>5. Event' = Event /\ Stored' = Stored /\ Passed' = Passed /\ Resume' = Resume
  BY <1>1 DEF Event, Stored, Passed, Resume
<1>6. ConsumerTypeOK'
  BY <1>1, <1>2, <1>3, <1>5 DEF ConsumerTypeOK, Control
<1>7. Ordered' /\ SubscribesAtCheckpoint'
  BY <1>1, <1>2, <1>5 DEF Ordered, SubscribesAtCheckpoint
<1>8. Ahead'
  BY <1>1, <1>3, <1>4, <1>5 DEF Ahead, Resume
<1>9. BehindIsDone'
  <2>1. \A e \in Event : chain[e] < startBlock => e \in Passed
    BY <1>1, <1>4 DEF Resume, Passed
  <2> QED
    BY <1>1, <1>3, <1>5, <2>1 DEF CInv, OnlyFailedInsertsAreLost, BehindIsDone
<1>10. OnlyFailedInsertsAreLost' /\ NoDuplicates' /\ NothingBeyond' /\ (PrefixInv => PrefixInv')
  BY <1>1, <1>5 DEF CInv, OnlyFailedInsertsAreLost, NoDuplicates, NothingBeyond, PrefixInv,
                    RowsArePrefix
<1> QED
  BY <1>6, <1>7, <1>8, <1>9, <1>10 DEF CInv

\* A row is stored where it belongs, and the checkpoint follows it.
LEMMA StoreEventCInv ==
  ASSUME CInv, StoreEvent
  PROVE  CInv' /\ (PrefixInv => PrefixInv') /\ checkpoint' >= checkpoint
<1>1. /\ UNCHANGED <<chain, height, pc, startBlock, cancelled, faults, skipped>>
      /\ pc = "streaming" /\ ~cancelled /\ cursor \in Event
      /\ checkpoint' = chain[cursor] /\ cursor' = cursor + 1
  BY Numbers DEF CInv, ConsumerTypeOK, StoreEvent, Delivered, SetCheckpoint, ledger, Event
<1>2. rows' = IF cursor \in Stored THEN rows ELSE Append(rows, cursor)
  BY DEF StoreEvent, Insert
<1>3. /\ ConsumerTypeOK /\ checkpoint \in Int /\ cursor \in Int /\ height \in Int
      /\ \A e \in Event : e \in Int /\ chain[e] \in Int
      /\ rows \in Seq(Event) /\ Len(rows) \in Nat /\ Len(chain) \in Nat
  BY Numbers DEF CInv
<1>4. Event' = Event
  BY <1>1 DEF Event
<1>5. chain[cursor] >= checkpoint
  BY <1>1, <1>3 DEF CInv, Ahead
<1>6. /\ rows' \in Seq(Event)
      /\ Stored' = Stored \cup {cursor}
      /\ NoDuplicates'
  <2>1. CASE cursor \in Stored
    BY <1>2, <1>3, <2>1 DEF CInv, Stored, NoDuplicates
  <2>2. CASE cursor \notin Stored
    <3>1. /\ rows' = Append(rows, cursor) /\ rows' \in Seq(Event)
          /\ Len(rows') = Len(rows) + 1 /\ rows'[Len(rows) + 1] = cursor
          /\ \A i \in 1..Len(rows) : rows'[i] = rows[i]
      BY <1>1, <1>2, <1>3, <2>2
    <3>2. 1..Len(rows') = 1..Len(rows) \cup {Len(rows) + 1}
      BY <1>3, <3>1
    <3>3. Stored' = Stored \cup {cursor}
      BY <1>3, <3>1, <3>2 DEF Stored
    <3>4. \A i \in 1..Len(rows) : rows[i] # cursor
      BY <2>2 DEF Stored
    <3>5. NoDuplicates'
      BY <1>3, <3>1, <3>2, <3>4 DEF CInv, NoDuplicates
    <3> QED
      BY <3>1, <3>3, <3>5
  <2> QED
    BY <2>1, <2>2
<1>7. ConsumerTypeOK'
  <2>1. checkpoint' \in -1..(MaxBlocks - 1)
    BY <1>1, <1>3, ConsumerAssumption DEF ConsumerTypeOK, Event, ConsumerAssumption
  <2>2. cursor' \in 1..(Len(chain) + 1)
    BY <1>1, <1>3 DEF Event
  <2> QED
    BY <1>1, <1>3, <1>4, <1>6, <2>1, <2>2 DEF ConsumerTypeOK
<1>8. Ordered' /\ SubscribesAtCheckpoint'
  BY <1>1, <1>4 DEF CInv, Ordered, SubscribesAtCheckpoint
<1>9. Ahead'
  BY <1>1, <1>3, <1>4 DEF CInv, Ordered, Ahead
<1>10. BehindIsDone'
  BY <1>1, <1>3, <1>4, <1>6 DEF CInv, BehindIsDone
<1>11. OnlyFailedInsertsAreLost'
  <2>1. \A e \in Event : chain[e] < chain[cursor] => e < cursor
    BY <1>1, <1>3 DEF CInv, Ordered
  <2> QED
    BY <1>1, <1>4, <1>6, <2>1 DEF CInv, BehindIsDone, OnlyFailedInsertsAreLost, Passed
<1>12. NothingBeyond'
  <2>1. \A e \in Stored : e \in Event /\ chain[e] <= checkpoint
    BY <1>3 DEF CInv, NothingBeyond, Stored
  <2>2. ASSUME NEW e \in Stored PROVE chain[e] <= chain[cursor]
    <3>1. chain[e] \in Int /\ chain[cursor] \in Int /\ chain[e] <= checkpoint
      BY <1>1, <1>3, <2>1
    <3> QED
      BY <1>3, <1>5, <3>1
  <2>3. chain[cursor] <= chain[cursor]
    BY <1>1, <1>3
  <2> QED
    BY <1>1, <1>6, <2>2, <2>3 DEF NothingBeyond
<1>13. ASSUME PrefixInv PROVE PrefixInv'
  <2> SUFFICES ASSUME skipped = {} PROVE RowsArePrefix'
    BY <1>1, <1>13 DEF PrefixInv
  <2>1. RowsArePrefix /\ skipped = {}
    BY <1>13 DEF PrefixInv
  <2>2. Stored = 1..Len(rows)
    BY <1>3, <2>1 DEF RowsArePrefix, Stored
  <2>3. \A e \in Event : e < cursor => e <= Len(rows)
    BY <1>1, <2>1, <2>2 DEF CInv, BehindIsDone
  <2>4. CASE cursor \in Stored
    <3>1. rows' = rows /\ rows # << >> /\ Len(rows) \in Event /\ cursor <= Len(rows)
      <4>1. Len(rows) \in 1..Len(rows)
        BY <1>3, <2>2, <2>4
      <4>2. rows[Len(rows)] \in Event
        BY <1>3, <4>1
      <4> QED
        BY <1>2, <1>3, <2>1, <2>2, <2>4, <4>1, <4>2 DEF RowsArePrefix
    <3>2. chain[cursor] <= chain[Len(rows)] /\ checkpoint = chain[Len(rows)]
      BY <1>1, <2>1, <3>1 DEF CInv, Ordered, RowsArePrefix
    <3>3. chain[cursor] = chain[Len(rows)]
      BY <1>1, <1>3, <1>5, <3>1, <3>2
    <3> QED
      BY <1>1, <2>1, <3>1, <3>3 DEF RowsArePrefix
  <2>5. CASE cursor \notin Stored
    <3>1. cursor = Len(rows) + 1
      <4>1. ~(cursor <= Len(rows))
        BY <1>1, <1>3, <2>2, <2>5 DEF Event
      <4>2. cursor > 1 => cursor - 1 \in Event
        BY <1>1, <1>3 DEF Event
      <4> QED
        BY <1>1, <1>3, <2>3, <4>1, <4>2 DEF Event
    <3>2. /\ rows' \in Seq(Event) /\ Len(rows') = Len(rows) + 1 /\ rows' # << >>
          /\ rows'[Len(rows) + 1] = cursor
          /\ \A i \in 1..Len(rows) : rows'[i] = rows[i]
      BY <1>1, <1>2, <1>3, <2>5
    <3>3. rows' = [i \in 1..Len(rows') |-> i]
      <4>1. \A i \in 1..Len(rows) : rows[i] = i
        BY <2>1 DEF RowsArePrefix
      <4>2. \A i \in 1..Len(rows') : rows'[i] = i
        BY <1>3, <3>1, <3>2, <4>1
      <4>3. rows' = [i \in 1..Len(rows') |-> rows'[i]]
        BY <3>2
      <4> QED
        BY <4>2, <4>3
    <3> QED
      BY <1>1, <2>1, <3>1, <3>2, <3>3 DEF RowsArePrefix
  <2> QED
    BY <2>4, <2>5
<1> QED
  BY <1>1, <1>5, <1>6, <1>7, <1>8, <1>9, <1>10, <1>11, <1>12, <1>13 DEF CInv

\* A failed insert is remembered, unless it is a shutdown that aborts it.
LEMMA StoreFailsCInv ==
  ASSUME CInv, StoreFails
  PROVE  CInv' /\ (PrefixInv => PrefixInv')
<1>1. /\ UNCHANGED <<chain, height, rows, checkpoint, pc, startBlock, cancelled>>
      /\ pc = "streaming" /\ cursor \in Event /\ cursor' = cursor + 1
      /\ \/ cancelled /\ UNCHANGED <<faults, skipped>>
         \/ ~cancelled /\ StoreMayFail /\ Fault /\ skipped' = skipped \cup {cursor}
  BY Numbers DEF CInv, ConsumerTypeOK, StoreFails, Delivered, ledger, store, Event
<1>2. /\ ConsumerTypeOK /\ checkpoint \in Int /\ cursor \in Int /\ Len(chain) \in Nat
      /\ \A e \in Event : e \in Int /\ chain[e] \in Int
  BY Numbers DEF CInv
<1>3. Event' = Event /\ Stored' = Stored /\ Passed' = Passed /\ skipped \subseteq skipped'
  BY <1>1 DEF Event, Stored, Passed
<1>4. ConsumerTypeOK'
  <2>1. faults' \in 0..MaxFaults
    <3>1. faults' = faults \/ (faults < MaxFaults /\ faults' = faults + 1)
      BY <1>1 DEF Fault
    <3>2. faults \in 0..MaxFaults /\ MaxFaults \in Nat
      BY <1>2, ConsumerAssumption DEF ConsumerTypeOK, ConsumerAssumption
    <3> QED
      BY <3>1, <3>2
  <2>3. skipped' \subseteq Event
    BY <1>1, <1>2 DEF ConsumerTypeOK
  <2>2. cursor' \in 1..(Len(chain) + 1)
    BY <1>1, <1>2 DEF Event
  <2> QED
    BY <1>1, <1>2, <1>3, <2>1, <2>2, <2>3 DEF ConsumerTypeOK
<1>5. Ordered' /\ SubscribesAtCheckpoint' /\ Ahead'
  BY <1>1, <1>2, <1>3 DEF CInv, Ordered, SubscribesAtCheckpoint, Ahead
<1>6. BehindIsDone'
  BY <1>1, <1>2, <1>3 DEF CInv, BehindIsDone
<1>7. OnlyFailedInsertsAreLost' /\ NoDuplicates' /\ NothingBeyond' /\ (PrefixInv => PrefixInv')
  BY <1>1, <1>3 DEF CInv, OnlyFailedInsertsAreLost, NoDuplicates, NothingBeyond, PrefixInv,
                    RowsArePrefix
<1> QED
  BY <1>4, <1>5, <1>6, <1>7 DEF CInv

\* The invariant is inductive, and no step takes the checkpoint back.
LEMMA NextCInv ==
  CInv /\ [ConsumerNext]_consumerVars
    => CInv' /\ (PrefixInv => PrefixInv') /\ checkpoint' >= checkpoint
<1> SUFFICES ASSUME CInv, [ConsumerNext]_consumerVars
             PROVE  CInv' /\ (PrefixInv => PrefixInv') /\ checkpoint' >= checkpoint
  OBVIOUS
<1>1. checkpoint \in Int
  BY Numbers DEF CInv
<1>2. CASE \E n \in 0..MaxEventsPerBlock : CommitBlock(n)
  BY <1>1, <1>2, CommitBlockCInv DEF CommitBlock, store
<1>3. CASE ControlStep
  <2>1. checkpoint' = checkpoint
    BY <1>3 DEF ControlStep, LoopReturns, ReadCheckpoint, ConsumeFails, BackoffEnds,
                StreamCloses, Cancel, Exit, Restart, store
  <2> QED
    BY <1>1, <1>3, <2>1, ControlCInv
<1>4. CASE Subscribe
  BY <1>1, <1>4, SubscribeCInv DEF Subscribe, store
<1>5. CASE StoreEvent
  BY <1>5, StoreEventCInv
<1>6. CASE StoreFails
  BY <1>1, <1>6, StoreFailsCInv DEF StoreFails, store
<1>7. CASE UNCHANGED consumerVars
  <2>1. /\ UNCHANGED <<chain, height, rows, checkpoint, pc, startBlock, cursor, cancelled,
                        faults, skipped>>
        /\ Event' = Event /\ Stored' = Stored /\ Passed' = Passed /\ Resume' = Resume
    BY <1>7 DEF consumerVars, ledger, store, Event, Stored, Passed, Resume
  <2>2. ConsumerTypeOK' /\ Ordered' /\ SubscribesAtCheckpoint' /\ Ahead' /\ BehindIsDone'
    BY <2>1 DEF CInv, ConsumerTypeOK, Ordered, SubscribesAtCheckpoint, Ahead, BehindIsDone
  <2>3. OnlyFailedInsertsAreLost' /\ NoDuplicates' /\ NothingBeyond' /\ (PrefixInv => PrefixInv')
    BY <2>1 DEF CInv, OnlyFailedInsertsAreLost, NoDuplicates, NothingBeyond, PrefixInv,
                RowsArePrefix
  <2> QED
    BY <1>1, <2>1, <2>2, <2>3 DEF CInv
<1> QED
  BY <1>2, <1>3, <1>4, <1>5, <1>6, <1>7 DEF ConsumerNext, Consume, ControlStep

-----------------------------------------------------------------------------
(***************************************************************************)
(* The invariant holds of every behaviour of the consumer: while it reads, *)
(* what is to come is at or after the checkpoint, and what is behind it    *)
(* has been stored or was skipped by a failed insert.                      *)
(***************************************************************************)
THEOREM ConsumerInvariance == ConsumerSpec => [](CInv /\ PrefixInv)
BY InitCInv, NextCInv, PTL DEF ConsumerSpec

(***************************************************************************)
(* Every variable of the consumer keeps its type.                          *)
(***************************************************************************)
THEOREM ConsumerTypeCorrect == ConsumerSpec => []ConsumerTypeOK
<1>1. CInv => ConsumerTypeOK
  BY DEF CInv
<1> QED
  BY <1>1, ConsumerInvariance, PTL

(***************************************************************************)
(* While no insert fails, the projection is a prefix of the event log and  *)
(* the checkpoint is the block of its last row, through any number of      *)
(* crashes, shutdowns, closed streams and replays.                         *)
(***************************************************************************)
THEOREM ProjectionIsAPrefix == ~StoreMayFail => (ConsumerSpec => []RowsArePrefix)
<1> SUFFICES ASSUME ~StoreMayFail PROVE ConsumerSpec => []RowsArePrefix
  OBVIOUS
<1>1. PrefixInv => RowsArePrefix
  BY DEF PrefixInv
<1> QED
  BY <1>1, ConsumerInvariance, PTL

(***************************************************************************)
(* The projection never holds an event twice, failed inserts included.     *)
(***************************************************************************)
THEOREM EventsAreStoredOnce == ConsumerSpec => []NoDuplicates
<1>1. CInv => NoDuplicates
  BY DEF CInv
<1> QED
  BY <1>1, ConsumerInvariance, PTL

(***************************************************************************)
(* An event behind the checkpoint that is not in the projection is one     *)
(* whose insert failed in a live process.                                  *)
(***************************************************************************)
THEOREM LossesAreFailedInserts == ConsumerSpec => []OnlyFailedInsertsAreLost
<1>1. CInv => OnlyFailedInsertsAreLost
  BY DEF CInv
<1> QED
  BY <1>1, ConsumerInvariance, PTL

LEMMA IdleHasReadAll ==
  ASSUME CInv, Idle
  PROVE  \A e \in Event : e \in Stored \cup skipped
<1>1. cursor \in Int /\ Len(chain) \in Nat /\ cursor > Len(chain)
  BY Numbers DEF CInv, Idle, Delivered
<1>2. \A e \in Event : e < cursor
  BY <1>1 DEF Event
<1> QED
  BY <1>2 DEF CInv, BehindIsDone, Idle, Up

(***************************************************************************)
(* What the liveness of the projection rests on: when the consumer waits   *)
(* for the stream, everything is stored or was refused.                    *)
(***************************************************************************)
THEOREM IdleConsumersMissNothing == ConsumerSpec => []IdleMissesNothing
<1>1. CInv => IdleMissesNothing
  BY IdleHasReadAll DEF IdleMissesNothing
<1> QED
  BY <1>1, ConsumerInvariance, PTL

(***************************************************************************)
(* Replays notwithstanding, no step takes the checkpoint back.             *)
(***************************************************************************)
THEOREM CheckpointIsMonotonic == ConsumerSpec => CheckpointNeverGoesBack
<1>1. CInv /\ [ConsumerNext]_consumerVars => [checkpoint' >= checkpoint]_consumerVars
  BY NextCInv
<1> QED
  BY <1>1, ConsumerInvariance, PTL DEF ConsumerSpec, CheckpointNeverGoesBack

-----------------------------------------------------------------------------
\* The two modules mean the same by the events and by those that are stored.
LEMMA ProjectionWords ==
  Projection!Event = Event /\ Projection!Recorded = Stored
BY DEF Projection!Event, Projection!Recorded, Event, Stored

\* A block with events is emitted as a whole, above the blocks before it.
LEMMA CommitBlockEmits ==
  ASSUME CInv, NEW n \in 0..MaxEventsPerBlock, CommitBlock(n)
  PROVE  Projection!Emit \/ UNCHANGED <<chain, rows, checkpoint, skipped>>
<1> DEFINE new == [i \in 1..n |-> height]
<1>1. /\ n \in Nat /\ height \in 0..(MaxBlocks - 1) /\ chain \in Seq(0..(MaxBlocks - 1))
      /\ UNCHANGED <<rows, checkpoint, skipped>> /\ chain' = chain \o new
  BY ConsumerAssumption DEF CInv, CommitBlock, ConsumerTypeOK, ConsumerAssumption, store
<1>2. new \in Seq(0..(MaxBlocks - 1)) /\ Len(new) = n
  BY <1>1
<1>3. /\ Len(chain) \in Nat /\ Len(chain') = Len(chain) + n
      /\ \A i \in 1..Len(chain) : chain'[i] = chain[i] /\ chain[i] < height
      /\ \A i \in (Len(chain) + 1)..(Len(chain) + n) : chain'[i] = height
  <2>1. \A i \in 1..Len(chain) : chain[i] < height
    BY DEF CInv, Ordered, Event
  <2> QED
    BY <1>1, <1>2, <2>1
<1> HIDE DEF new
<1>4. CASE n = 0
  <2>1. chain' = chain
    <3>1. new = << >>
      BY <1>2, <1>4
    <3> QED
      BY <1>1, <3>1
  <2> QED
    BY <1>1, <2>1
<1>5. CASE n # 0
  <2>1. ASSUME NEW i \in 1..Len(chain'), NEW j \in 1..Len(chain'), i < j
        PROVE  IF i \in Event /\ j \notin Event THEN chain'[i] < chain'[j]
               ELSE i \notin Event => chain'[i] = chain'[j]
    <3>1. \A k \in 1..Len(chain') : k \notin Event => chain'[k] = height
      BY <1>1, <1>3 DEF Event
    <3>2. i \notin Event => j \notin Event
      BY <1>1, <1>3, <2>1 DEF Event
    <3>3. i \in Event => chain'[i] < height
      BY <1>3 DEF Event
    <3> QED
      BY <3>1, <3>2, <3>3
  <2> QED
    BY <1>1, <1>3, <1>5, <2>1, ProjectionWords DEF Projection!Emit, Event
<1> QED
  BY <1>4, <1>5

\* Every step of the consumer is one of the projection, or does not concern it.
LEMMA StepsProject ==
  CInv /\ [ConsumerNext]_consumerVars
    => [Projection!Next]_<<chain, rows, checkpoint, skipped>>
<1> DEFINE storeVars == <<chain, rows, checkpoint, skipped>>
<1> SUFFICES ASSUME CInv, [ConsumerNext]_consumerVars
             PROVE  Projection!Next \/ UNCHANGED storeVars
  OBVIOUS
<1>1. ASSUME NEW n \in 0..MaxEventsPerBlock, CommitBlock(n)
      PROVE  Projection!Next \/ UNCHANGED storeVars
  BY <1>1, CommitBlockEmits DEF Projection!Next
<1>2. ASSUME pc = "streaming", ~cancelled, cursor \in Event
      PROVE  Projection!Due(cursor)
  BY <1>2, ProjectionWords DEF CInv, BehindIsDone, Projection!Due
<1>3. CASE StoreEvent
  <2>1. cursor \in Event /\ pc = "streaming" /\ ~cancelled
    BY <1>3, Numbers DEF CInv, ConsumerTypeOK, StoreEvent, Delivered, Event
  <2>2. Projection!Project(cursor)
    BY <1>2, <1>3, <2>1, ProjectionWords
       DEF Projection!Project, StoreEvent, Insert, SetCheckpoint, ledger
  <2> QED
    BY <2>1, <2>2, ProjectionWords DEF Projection!Next
<1>4. CASE StoreFails
  <2>1. CASE cancelled
    BY <1>4, <2>1 DEF StoreFails, ledger, store
  <2>2. CASE ~cancelled
    <3>1. cursor \in Event /\ pc = "streaming"
      BY <1>4, Numbers DEF CInv, ConsumerTypeOK, StoreFails, Delivered, Event
    <3>2. Projection!Refuse(cursor)
      BY <1>2, <1>4, <2>2, <3>1 DEF Projection!Refuse, StoreFails, ledger, store
    <3> QED
      BY <3>1, <3>2, ProjectionWords DEF Projection!Next
  <2> QED
    BY <2>1, <2>2
<1>5. CASE ControlStep \/ Subscribe \/ UNCHANGED consumerVars
  BY <1>5 DEF ControlStep, Subscribe, LoopReturns, ReadCheckpoint, ConsumeFails,
     BackoffEnds, StreamCloses, Cancel, Exit, Restart, ledger, store, consumerVars
<1> QED
  BY <1>1, <1>3, <1>4, <1>5 DEF ConsumerNext, Consume, ControlStep

(***************************************************************************)
(* The consumer's database is one to which events are added one atomic     *)
(* step at a time, each in its turn, whatever happens to the process, the  *)
(* stream and the inserts.                                                 *)
(***************************************************************************)
THEOREM ImplementsTheProjection == ConsumerSpec => ImplementsProjection
<1>1. ConsumerInit => Projection!Init
  BY DEF ConsumerInit, Projection!Init
<1> QED
  BY <1>1, StepsProject, ConsumerInvariance, PTL
     DEF ConsumerSpec, ImplementsProjection, Projection!Spec
=============================================================================
