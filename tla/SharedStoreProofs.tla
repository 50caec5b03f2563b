------------------------- MODULE SharedStoreProofs -------------------------
(***************************************************************************)
(* Proofs about two server processes on one database, for any number of    *)
(* blocks, events, faults and starts.                                      *)
(*                                                                         *)
(* What EventConsumerProofs says of one consumer is not true of two: the   *)
(* checkpoint goes back, and a stream may be far behind it.  What remains  *)
(* is what neither can undo.  An event that is stored, or was refused to   *)
(* one of them, stays so (Done).  Each of them, while it can still store,  *)
(* has everything behind its own position done (ProcessOK), and so has the *)
(* checkpoint, which is always the last position of one of them.           *)
(***************************************************************************)
EXTENDS SharedStore, OrderLemmas, TLAPS

Event == 1..Len(chain)
Stored == {rows[i] : i \in 1..Len(rows)}
Done == Stored \cup Refused
Resume == IF checkpoint = -1 THEN 0 ELSE checkpoint
FirstFrom(b) == Cardinality({i \in Event : chain[i] < b}) + 1

\* The two consumers mean the same by these words.
LEMMA CommonWords ==
  /\ A!Event = Event /\ B!Event = Event /\ A!Stored = Stored /\ B!Stored = Stored
  /\ A!Resume = Resume /\ B!Resume = Resume
  /\ \A b : A!FirstFrom(b) = FirstFrom(b) /\ B!FirstFrom(b) = FirstFrom(b)
<1>1. /\ A!Event = Event /\ B!Event = Event /\ A!Stored = Stored /\ B!Stored = Stored
      /\ A!Resume = Resume /\ B!Resume = Resume
  BY DEF Event, A!Event, B!Event, Stored, A!Stored, B!Stored, Resume, A!Resume, B!Resume
<1>2. \A S : A!Cardinality(S) = Cardinality(S)
  BY DEF A!Cardinality, Cardinality
<1>3. \A S : B!Cardinality(S) = Cardinality(S)
  BY DEF B!Cardinality, Cardinality
<1> QED
  BY <1>1, <1>2, <1>3 DEF A!FirstFrom, B!FirstFrom, FirstFrom

(***************************************************************************)
(* The invariant.                                                          *)
(***************************************************************************)
LogOK ==
  /\ chain \in Seq(Nat) /\ height \in Nat
  /\ \A i \in Event : chain[i] < height
  /\ \A i, j \in Event : i <= j => chain[i] <= chain[j]

StoreOK ==
  /\ rows \in Seq(Event)
  /\ checkpoint \in Int /\ -1 <= checkpoint /\ checkpoint < height

\* One of the processes: behind where its stream will start, and behind where
\* it reads while it can still store, everything is done.
ProcessOK(done, pc, startBlock, cursor, cancelled) ==
  /\ startBlock \in Nat /\ startBlock <= height
  /\ cursor \in 1..(Len(chain) + 1)
  /\ pc = "subscribe" => \A e \in Event : chain[e] < startBlock => e \in done
  /\ pc = "streaming" /\ ~cancelled => \A e \in Event : e < cursor => e \in done

SInv ==
  /\ LogOK /\ StoreOK
  /\ ProcessOK(Done, pcA, startBlockA, cursorA, cancelledA)
  /\ ProcessOK(Done, pcB, startBlockB, cursorB, cancelledB)
  /\ RowsArePrefix /\ RestartLosesNothing

LEMMA InitSInv == Init => SInv
<1> SUFFICES ASSUME Init PROVE SInv
  OBVIOUS
<1>1. Event = {} /\ Len(rows) = 0 /\ Len(chain) = 0 /\ A!Event = {}
  BY DEF Init, Event, A!Event
<1>2. RowsArePrefix /\ RestartLosesNothing
  BY <1>1 DEF Init, RowsArePrefix, RestartLosesNothing, A!Passed
<1> QED
  BY <1>1, <1>2 DEF Init, SInv, LogOK, StoreOK, ProcessOK

-----------------------------------------------------------------------------
(***************************************************************************)
(* What a step of one process does to itself.                              *)
(***************************************************************************)
\* The stream from block b on leaves out exactly the events of earlier blocks.
LEMMA StreamFrom ==
  ASSUME LogOK, NEW b \in Int
  PROVE  /\ FirstFrom(b) \in 1..(Len(chain) + 1)
         /\ \A e \in Event : e < FirstFrom(b) <=> chain[e] < b
<1> DEFINE S == {i \in Event : chain[i] < b}
<1>1. Len(chain) \in Nat /\ \A i \in Event : chain[i] \in Int
  BY DEF Event, LogOK
<1>2. \A i \in S : \A j \in Event : j <= i => j \in S
  BY <1>1 DEF Event, LogOK
<1>3. /\ Cardinality(S) \in 0..Len(chain)
      /\ \A i \in Event : i \in S <=> i <= Cardinality(S)
  BY <1>1, <1>2, InitialSegment DEF Event
<1>4. FirstFrom(b) = Cardinality(S) + 1
  BY DEF FirstFrom
<1> HIDE DEF S
<1>5. \A i \in Event : i < FirstFrom(b) <=> i \in S
  BY <1>1, <1>3, <1>4 DEF Event
<1> QED
  BY <1>1, <1>3, <1>4, <1>5 DEF S

\* The values after the step carry an N.
OwnStep(done, pc, startBlock, cursor, cancelled, pcN, startBlockN, cursorN, cancelledN) ==
  \/ \* the checkpoint is read
     /\ pcN = "subscribe" /\ startBlockN = Resume
     /\ cursorN = cursor
  \/ \* the stream is opened
     /\ pc = "subscribe" /\ pcN = "streaming"
     /\ startBlockN = startBlock /\ cursorN = FirstFrom(startBlock)
  \/ \* an event is passed
     /\ pcN = pc /\ pc = "streaming" /\ cancelledN = cancelled
     /\ cursor \in Event /\ cursorN = cursor + 1
     /\ cursor \in done \/ cancelled
     /\ startBlockN = startBlock
  \/ \* the process goes elsewhere, is told to stop, or is not concerned
     /\ startBlockN = startBlock /\ cursorN = cursor
     /\ \/ pcN \notin {"subscribe", "streaming"}
        \/ pcN = pc /\ (cancelled => cancelledN)

LEMMA OwnStepOK ==
  ASSUME SInv, UNCHANGED <<chain, height>>, Done \subseteq Done',
         NEW pc, NEW startBlock, NEW cursor, NEW cancelled,
         NEW pcN, NEW startBlockN, NEW cursorN, NEW cancelledN,
         ProcessOK(Done, pc, startBlock, cursor, cancelled),
         OwnStep(Done', pc, startBlock, cursor, cancelled,
                 pcN, startBlockN, cursorN, cancelledN)
  PROVE  ProcessOK(Done', pcN, startBlockN, cursorN, cancelledN)
<1>1. /\ LogOK /\ StoreOK /\ Len(chain) \in Nat
      /\ \A e \in Event : e \in Int /\ chain[e] \in Nat
  BY DEF SInv, LogOK, Event
<1>2. CASE pcN = "subscribe" /\ startBlockN = Resume /\ cursorN = cursor
  <2>1. Resume \in Nat /\ Resume <= height
    BY <1>1 DEF LogOK, StoreOK, Resume
  <2>2. \A e \in Event : chain[e] < Resume => e \in Done
    BY <1>1, CommonWords DEF SInv, RestartLosesNothing, A!Passed, Resume, Done
  <2> QED
    BY <1>2, <2>1, <2>2 DEF ProcessOK
<1>3. CASE pc = "subscribe" /\ pcN = "streaming" /\ startBlockN = startBlock
           /\ cursorN = FirstFrom(startBlock)
  <2>1. startBlock \in Int
    BY DEF ProcessOK
  <2> QED
    BY <1>1, <1>3, <2>1, StreamFrom DEF ProcessOK
<1>4. CASE /\ pcN = pc /\ pc = "streaming" /\ cancelledN = cancelled
           /\ cursor \in Event /\ cursorN = cursor + 1
           /\ cursor \in Done' \/ cancelled
           /\ startBlockN = startBlock
  BY <1>1, <1>4 DEF ProcessOK, Event
<1>5. CASE /\ startBlockN = startBlock /\ cursorN = cursor
           /\ \/ pcN \notin {"subscribe", "streaming"}
              \/ pcN = pc /\ (cancelled => cancelledN)
  BY <1>5 DEF ProcessOK
<1> QED
  BY <1>2, <1>3, <1>4, <1>5 DEF OwnStep
-----------------------------------------------------------------------------
(***************************************************************************)
(* What a step of one process does to the database.                        *)
(***************************************************************************)
Stores(e) ==
  /\ e \in Event
  /\ \A d \in Event : d < e => d \in Done
  /\ rows' = IF e \in Stored THEN rows ELSE Append(rows, e)
  /\ checkpoint' = chain[e]
  /\ UNCHANGED <<skippedA, skippedB>>

LeavesTheStore ==
  /\ UNCHANGED <<rows, checkpoint>>
  /\ \/ Refused' = Refused
     \/ \E e \in Event : /\ \A d \in Event : d < e => d \in Done
                         /\ Refused' = Refused \cup {e}

LEMMA StoresOK ==
  ASSUME SInv, UNCHANGED <<chain, height>>, NEW e \in Event, Stores(e)
  PROVE  /\ LogOK' /\ StoreOK' /\ Done' = Done \cup {e}
         /\ RowsArePrefix' /\ RestartLosesNothing'
<1>1. /\ LogOK /\ StoreOK /\ rows \in Seq(Event) /\ Len(rows) \in Nat /\ Len(chain) \in Nat
      /\ e \in Nat /\ e \in 1..Len(chain)
      /\ \A d \in Event : d \in Int /\ chain[d] \in Nat
      /\ Event' = Event /\ Refused' = Refused
  BY DEF SInv, LogOK, StoreOK, Stores, Event, Refused
<1>2. /\ \A i, j \in 1..Len(rows) : rows[i] = rows[j] => i = j
      /\ \A d \in Event : chain[d] < checkpoint => d \in Done
  BY CommonWords DEF SInv, RestartLosesNothing, A!Passed, Done
<1>3. /\ rows' \in Seq(Event) /\ Stored' = Stored \cup {e}
      /\ \A i, j \in 1..Len(rows') : rows'[i] = rows'[j] => i = j
  <2>1. CASE e \in Stored
    BY <1>1, <1>2, <2>1 DEF Stores, Stored
  <2>2. CASE e \notin Stored
    <3>1. /\ rows' \in Seq(Event)
          /\ Len(rows') = Len(rows) + 1 /\ rows'[Len(rows) + 1] = e
          /\ \A i \in 1..Len(rows) : rows'[i] = rows[i]
      BY <1>1, <2>2 DEF Stores
    <3>2. 1..Len(rows') = 1..Len(rows) \cup {Len(rows) + 1}
      BY <1>1, <3>1
    <3>3. Stored' = Stored \cup {e}
      BY <1>1, <3>1, <3>2 DEF Stored
    <3>4. \A i \in 1..Len(rows) : rows[i] # e
      BY <2>2 DEF Stored
    <3> QED
      BY <1>1, <1>2, <3>1, <3>2, <3>3, <3>4
  <2> QED
    BY <2>1, <2>2
<1>4. LogOK' /\ StoreOK'
  BY <1>1, <1>3 DEF LogOK, StoreOK, Stores
<1>5. Done' = Done \cup {e}
  BY <1>1, <1>3 DEF Done
<1>6. RestartLosesNothing'
  <2>1. \A d \in Event : chain[d] < chain[e] => d < e
    BY <1>1 DEF LogOK
  <2>2. \A d \in Event : chain'[d] < checkpoint' => d \in Done
    BY <2>1 DEF Stores
  <2>3. A!Event' = Event' /\ A!Stored' = Stored'
    BY DEF A!Event, A!Stored, Event, Stored
  <2>4. \A d \in (A!Passed \ A!Stored)' : d \in Refused'
    BY <1>1, <1>5, <2>2, <2>3, <1>3 DEF A!Passed, Done
  <2> QED
    BY <1>3, <2>4 DEF RestartLosesNothing
<1>7. RowsArePrefix'
  <2> SUFFICES ASSUME Refused = {} PROVE rows' = [i \in 1..Len(rows') |-> i]
    BY <1>1 DEF RowsArePrefix
  <2>1. rows = [i \in 1..Len(rows) |-> i] /\ Stored = 1..Len(rows)
    BY <1>1 DEF SInv, RowsArePrefix, Stored
  <2>2. CASE e \in Stored
    BY <2>1, <2>2 DEF Stores
  <2>3. CASE e \notin Stored
    <3>1. e = Len(rows) + 1
      <4>1. ~(e <= Len(rows))
        BY <1>1, <2>1, <2>3
      <4>2. e > 1 => e - 1 \in Event /\ e - 1 < e
        BY <1>1 DEF Event
      <4>3. e > 1 => e - 1 \in Stored
        BY <1>1, <4>2 DEF Stores, Done
      <4> QED
        BY <1>1, <2>1, <4>1, <4>3
    <3>2. /\ Len(rows') = Len(rows) + 1 /\ rows'[Len(rows) + 1] = e
          /\ \A i \in 1..Len(rows) : rows'[i] = rows[i]
      BY <1>1, <2>3 DEF Stores
    <3>5. rows' = [i \in 1..Len(rows') |-> rows'[i]]
      BY <1>3
    <3>3. \A i \in 1..Len(rows) : rows[i] = i
      BY <2>1
    <3>4. \A i \in 1..Len(rows') : rows'[i] = i
      BY <1>1, <3>1, <3>2, <3>3
    <3> QED
      BY <3>4, <3>5
  <2> QED
    BY <2>2, <2>3
<1> QED
  BY <1>4, <1>5, <1>6, <1>7

LEMMA LeavesTheStoreOK ==
  ASSUME SInv, UNCHANGED <<chain, height>>, LeavesTheStore
  PROVE  /\ LogOK' /\ StoreOK' /\ Done \subseteq Done'
         /\ RowsArePrefix' /\ RestartLosesNothing'
<1>1. /\ Event' = Event /\ Stored' = Stored
      /\ A!Passed' = A!Passed /\ A!Stored' = A!Stored
  BY DEF LeavesTheStore, Event, Stored, A!Passed, A!Stored, A!Event
<1>2. LogOK' /\ StoreOK' /\ Done \subseteq Done'
  BY <1>1 DEF SInv, LogOK, StoreOK, LeavesTheStore, Done
<1>3. RowsArePrefix' /\ RestartLosesNothing'
  BY <1>1 DEF SInv, RowsArePrefix, RestartLosesNothing, LeavesTheStore
<1> QED
  BY <1>2, <1>3

-----------------------------------------------------------------------------
(***************************************************************************)
(* SInv is inductive.                                                      *)
(***************************************************************************)
\* A step of one process, and none of the other.
ProcessStep ==
  /\ UNCHANGED <<chain, height>>
  /\ LeavesTheStore \/ \E e \in Event : Stores(e)
  /\ OwnStep(Done', pcA, startBlockA, cursorA, cancelledA,
             pcA', startBlockA', cursorA', cancelledA')
  /\ OwnStep(Done', pcB, startBlockB, cursorB, cancelledB,
             pcB', startBlockB', cursorB', cancelledB')

LEMMA ProcessStepOK ==
  ASSUME SInv, ProcessStep
  PROVE  SInv'
<1>1. UNCHANGED <<chain, height>>
  BY DEF ProcessStep
<1>2. LogOK' /\ StoreOK' /\ Done \subseteq Done' /\ RowsArePrefix' /\ RestartLosesNothing'
  BY <1>1, StoresOK, LeavesTheStoreOK DEF ProcessStep
<1>3. ProcessOK(Done', pcA', startBlockA', cursorA', cancelledA')
  BY <1>1, <1>2, OwnStepOK DEF ProcessStep, SInv
<1>4. ProcessOK(Done', pcB', startBlockB', cursorB', cancelledB')
  BY <1>1, <1>2, OwnStepOK DEF ProcessStep, SInv
<1>5. /\ ProcessOK(Done, pcA, startBlockA, cursorA, cancelledA)'
      /\ ProcessOK(Done, pcB, startBlockB, cursorB, cancelledB)'
  BY <1>1, <1>3, <1>4 DEF ProcessOK, Event
<1> QED
  BY <1>2, <1>5 DEF SInv

\* The log grows beyond where anybody reads.
LEMMA CommitBlockOK ==
  ASSUME SInv, NEW n \in 1..MaxEventsPerBlock, CommitBlock(n)
  PROVE  SInv'
<1> DEFINE new == [i \in 1..n |-> height]
<1>1. /\ LogOK /\ StoreOK /\ n \in Nat /\ height' = height + 1
      /\ rows' = rows /\ checkpoint' = checkpoint /\ UNCHANGED <<ownA, ownB>>
      /\ chain' = chain \o new
  BY DEF SInv, CommitBlock, A!CommitBlock, A!store, ownA, ownB
<1>2. chain \in Seq(Nat) /\ new \in Seq(Nat) /\ Len(new) = n
  BY <1>1 DEF LogOK
<1>3. /\ chain' \in Seq(Nat) /\ Len(chain') = Len(chain) + n
      /\ \A i \in 1..Len(chain) : chain'[i] = chain[i]
      /\ \A i \in (Len(chain) + 1)..(Len(chain) + n) : chain'[i] = height
  BY <1>1, <1>2
<1> HIDE DEF new
<1>4. height \in Int /\ checkpoint \in Int /\ Len(chain) \in Nat
      /\ \A e \in Event : chain[e] \in Nat
  BY <1>1, <1>2 DEF LogOK, StoreOK, Event
<1>5. /\ Event \subseteq Event'
      /\ \A e \in Event : chain'[e] = chain[e]
      /\ \A e \in Event' \ Event : chain'[e] = height /\ e > Len(chain) /\ \A i \in Event : i < e
  BY <1>1, <1>3, <1>4 DEF Event
<1>6. LogOK'
  <2>1. \A i \in Event : chain[i] < height /\ chain[i] \in Int
    BY <1>1, <1>4 DEF LogOK
  <2>2. \A i, j \in Event' : i <= j => chain'[i] <= chain'[j]
    BY <1>1, <1>4, <1>5, <2>1 DEF LogOK, Event
  <2>3. \A i \in Event' : chain'[i] < height'
    <3>1. height' = height + 1 /\ height \in Int
      BY <1>1, <1>4
    <3>2. \A i \in Event : chain'[i] = chain[i]
      BY <1>5
    <3>3. \A i \in Event' \ Event : chain'[i] = height
      BY <1>5
    <3> QED
      BY <2>1, <3>1, <3>2, <3>3
  <2>4. height' \in Nat
    BY <1>1 DEF LogOK
  <2> QED
    BY <1>3, <2>2, <2>3, <2>4 DEF LogOK
<1>7. StoreOK'
  BY <1>1, <1>4, <1>5 DEF StoreOK
<1>8. Stored' = Stored /\ Refused' = Refused /\ Done' = Done
  BY <1>1 DEF Stored, Refused, Done, ownA, ownB
<1> DEFINE Later(pc, startBlock, cursor, cancelled) ==
      /\ startBlock \in Nat /\ startBlock <= height'
      /\ cursor \in 1..(Len(chain') + 1)
      /\ pc = "subscribe" => \A e \in Event' : chain'[e] < startBlock => e \in Done
      /\ pc = "streaming" /\ ~cancelled => \A e \in Event' : e < cursor => e \in Done
<1>9. ASSUME NEW pc, NEW startBlock, NEW cursor, NEW cancelled,
             ProcessOK(Done, pc, startBlock, cursor, cancelled)
      PROVE  Later(pc, startBlock, cursor, cancelled)
  <2>1. /\ startBlock \in Nat /\ startBlock <= height'
        /\ cursor \in 1..(Len(chain') + 1) /\ cursor <= Len(chain) + 1
    BY <1>1, <1>3, <1>4, <1>9 DEF ProcessOK
  <2>2. \A e \in Event' : chain'[e] < startBlock => e \in Event
    BY <1>4, <1>5, <1>9, <2>1 DEF ProcessOK
  <2>3. \A e \in Event' : e < cursor => e \in Event
    BY <1>3, <1>4, <1>5, <2>1 DEF Event
  <2> QED
    BY <1>5, <1>9, <2>1, <2>2, <2>3 DEF ProcessOK
<1>10. /\ ProcessOK(Done, pcA, startBlockA, cursorA, cancelledA)'
       /\ ProcessOK(Done, pcB, startBlockB, cursorB, cancelledB)'
  <2>1. /\ UNCHANGED <<pcA, startBlockA, cursorA, cancelledA>>
        /\ UNCHANGED <<pcB, startBlockB, cursorB, cancelledB>>
    BY <1>1 DEF ownA, ownB
  <2> HIDE DEF Later
  <2>2. Later(pcA, startBlockA, cursorA, cancelledA)
    BY <1>9 DEF SInv
  <2>3. Later(pcB, startBlockB, cursorB, cancelledB)
    BY <1>9 DEF SInv
  <2>4. ProcessOK(Done, pcA, startBlockA, cursorA, cancelledA)'
    BY <1>8, <2>1, <2>2 DEF ProcessOK, Later
  <2>5. ProcessOK(Done, pcB, startBlockB, cursorB, cancelledB)'
    BY <1>8, <2>1, <2>3 DEF ProcessOK, Later
  <2> QED
    BY <2>4, <2>5
<1>11. RestartLosesNothing' /\ RowsArePrefix'
  <2>1. A!Event' = Event' /\ A!Stored' = Stored' /\ A!Event = Event /\ A!Stored = Stored
    BY DEF A!Event, A!Stored, Event, Stored
  <2>2. A!Passed' = A!Passed
    <3>1. \A e \in Event' : chain'[e] < checkpoint' <=> e \in Event /\ chain[e] < checkpoint
      <4>1. \A e \in Event' \ Event : ~(chain'[e] < checkpoint)
        <5>1. checkpoint < height /\ height \in Int /\ checkpoint \in Int
          BY <1>1, <1>4 DEF StoreOK
        <5>2. \A e \in Event' \ Event : chain'[e] = height
          BY <1>5
        <5> QED
          BY <5>1, <5>2
      <4> QED
        BY <1>1, <1>5, <4>1
    <3> QED
      BY <1>5, <2>1, <3>1 DEF A!Passed
  <2> QED
    BY <1>1, <1>8, <2>1, <2>2 DEF SInv, RestartLosesNothing, RowsArePrefix
<1> QED
  BY <1>6, <1>7, <1>10, <1>11 DEF SInv

\* What the consumer of process A does, one disjunct of Consume after the other.
LEMMA ConsumesA ==
  ASSUME SInv, ConsumeA
  PROVE  ProcessStep
<1> USE CommonWords
<1>1. /\ UNCHANGED <<chain, height>>
      /\ UNCHANGED <<pcB, startBlockB, cursorB, cancelledB, skippedB>>
  <2>1. UNCHANGED <<chain, height>>
    BY DEF ConsumeA, A!Consume, A!LoopReturns, A!ReadCheckpoint, A!Subscribe,
           A!ConsumeFails, A!BackoffEnds, A!StreamCloses, A!StoreEvent, A!StoreFails, A!ledger
  <2> QED
    BY <2>1 DEF ConsumeA, ownB
<1>2. OwnStep(Done', pcB, startBlockB, cursorB, cancelledB,
              pcB', startBlockB', cursorB', cancelledB')
  BY <1>1 DEF OwnStep
<1>3. /\ cursorA \in Nat \ {0} /\ Len(chain) \in Nat
      /\ pcA = "streaming" /\ ~cancelledA => \A e \in Event : e < cursorA => e \in Done
  BY DEF SInv, ProcessOK, LogOK
<1>4. ASSUME A!LoopReturns \/ A!ReadCheckpoint \/ A!Subscribe \/ A!ConsumeFails
             \/ A!BackoffEnds \/ A!StreamCloses
      PROVE  /\ LeavesTheStore
             /\ OwnStep(Done', pcA, startBlockA, cursorA, cancelledA,
                        pcA', startBlockA', cursorA', cancelledA')
  <2>1. LeavesTheStore
    BY <1>1, <1>4
       DEF LeavesTheStore, Refused, A!LoopReturns, A!ReadCheckpoint, A!Subscribe,
           A!ConsumeFails, A!BackoffEnds, A!StreamCloses, A!store
  <2>2. CASE A!ReadCheckpoint
    <3>1. pcA' = "subscribe" /\ startBlockA' = Resume /\ cursorA' = cursorA
      BY <2>2 DEF A!ReadCheckpoint
    <3> QED
      BY <2>1, <3>1 DEF OwnStep
  <2>3. CASE A!Subscribe
    <3>1. /\ pcA = "subscribe" /\ pcA' = "streaming" /\ startBlockA' = startBlockA
          /\ cursorA' = FirstFrom(startBlockA)
      BY <2>3 DEF A!Subscribe
    <3> QED
      BY <2>1, <3>1 DEF OwnStep
  <2>4. CASE A!LoopReturns \/ A!ConsumeFails \/ A!BackoffEnds \/ A!StreamCloses
    <3>1. /\ pcA' \in {"returned", "backoff", "loop"}
          /\ startBlockA' = startBlockA /\ cursorA' = cursorA
      BY <2>4 DEF A!LoopReturns, A!ConsumeFails, A!BackoffEnds, A!StreamCloses
    <3> QED
      BY <2>1, <3>1 DEF OwnStep
  <2> QED
    BY <1>4, <2>1, <2>2, <2>3, <2>4
<1>5. ASSUME A!StoreEvent
      PROVE  /\ \E e \in Event : Stores(e)
             /\ OwnStep(Done', pcA, startBlockA, cursorA, cancelledA,
                        pcA', startBlockA', cursorA', cancelledA')
  <2>1. cursorA \in Event
    BY <1>3, <1>5 DEF A!StoreEvent, A!Delivered, Event
  <2>2. Stores(cursorA)
    BY <1>1, <1>3, <1>5, <2>1
       DEF Stores, A!StoreEvent, A!Delivered, A!Insert, A!SetCheckpoint
  <2>3. cursorA \in Done'
    BY <2>1, <2>2, StoresOK, <1>1
  <2>4. /\ pcA' = pcA /\ pcA = "streaming" /\ cancelledA' = cancelledA
        /\ cursorA' = cursorA + 1 /\ startBlockA' = startBlockA
    BY <1>5 DEF A!StoreEvent, A!Delivered
  <2> QED
    BY <2>1, <2>2, <2>3, <2>4 DEF OwnStep
<1>6. ASSUME A!StoreFails
      PROVE  /\ LeavesTheStore
             /\ OwnStep(Done', pcA, startBlockA, cursorA, cancelledA,
                        pcA', startBlockA', cursorA', cancelledA')
  <2>1. cursorA \in Event
    BY <1>3, <1>6 DEF A!StoreFails, A!Delivered, Event
  <2>2. LeavesTheStore
    <3>1. UNCHANGED <<rows, checkpoint>>
      BY <1>6 DEF A!StoreFails, A!store
    <3>2. CASE cancelledA
      BY <1>1, <1>6, <3>1, <3>2 DEF LeavesTheStore, Refused, A!StoreFails
    <3>3. CASE ~cancelledA
      <4>1. pcA = "streaming" /\ skippedA' = skippedA \cup {cursorA}
        BY <1>6, <3>3 DEF A!StoreFails, A!Delivered
      <4>2. Refused' = Refused \cup {cursorA}
        BY <1>1, <4>1 DEF Refused
      <4> QED
        BY <1>3, <2>1, <3>1, <3>3, <4>1, <4>2 DEF LeavesTheStore
    <3> QED
      BY <3>2, <3>3
  <2>3. cursorA \in Done' \/ cancelledA
    BY <1>6 DEF Done, Refused, A!StoreFails
  <2>4. /\ pcA' = pcA /\ pcA = "streaming" /\ cancelledA' = cancelledA
        /\ cursorA' = cursorA + 1 /\ startBlockA' = startBlockA
    BY <1>6 DEF A!StoreFails, A!Delivered
  <2> QED
    BY <2>1, <2>2, <2>3, <2>4 DEF OwnStep
<1> QED
  BY <1>1, <1>2, <1>4, <1>5, <1>6 DEF ConsumeA, A!Consume, ProcessStep

\* The life of process A does not concern the database.
LEMMA LivesA ==
  ASSUME SInv, StartA \/ ListenA \/ StopA \/ ExitA
  PROVE  ProcessStep
<1>1. /\ UNCHANGED <<chain, height, rows, checkpoint, skippedA, skippedB>>
      /\ UNCHANGED <<pcB, startBlockB, cursorB, cancelledB>>
      /\ startBlockA' = startBlockA /\ cursorA' = cursorA
      /\ \/ pcA' \notin {"subscribe", "streaming"}
         \/ pcA' = pcA /\ (cancelledA => cancelledA')
  BY DEF StartA, ListenA, StopA, ExitA, A!Restart, A!Cancel, A!Exit, A!ledger, A!store, ownB,
         shared
<1>2. LeavesTheStore
  BY <1>1 DEF LeavesTheStore, Refused
<1> QED
  BY <1>1, <1>2 DEF ProcessStep, OwnStep

\* What the consumer of process B does, one disjunct of Consume after the other.
LEMMA ConsumesB ==
  ASSUME SInv, ConsumeB
  PROVE  ProcessStep
<1> USE CommonWords
<1>1. /\ UNCHANGED <<chain, height>>
      /\ UNCHANGED <<pcA, startBlockA, cursorA, cancelledA, skippedA>>
  <2>1. UNCHANGED <<chain, height>>
    BY DEF ConsumeB, B!Consume, B!LoopReturns, B!ReadCheckpoint, B!Subscribe,
           B!ConsumeFails, B!BackoffEnds, B!StreamCloses, B!StoreEvent, B!StoreFails, B!ledger
  <2> QED
    BY <2>1 DEF ConsumeB, ownA
<1>2. OwnStep(Done', pcA, startBlockA, cursorA, cancelledA,
              pcA', startBlockA', cursorA', cancelledA')
  BY <1>1 DEF OwnStep
<1>3. /\ cursorB \in Nat \ {0} /\ Len(chain) \in Nat
      /\ pcB = "streaming" /\ ~cancelledB => \A e \in Event : e < cursorB => e \in Done
  BY DEF SInv, ProcessOK, LogOK
<1>4. ASSUME B!LoopReturns \/ B!ReadCheckpoint \/ B!Subscribe \/ B!ConsumeFails
             \/ B!BackoffEnds \/ B!StreamCloses
      PROVE  /\ LeavesTheStore
             /\ OwnStep(Done', pcB, startBlockB, cursorB, cancelledB,
                        pcB', startBlockB', cursorB', cancelledB')
  <2>1. LeavesTheStore
    BY <1>1, <1>4
       DEF LeavesTheStore, Refused, B!LoopReturns, B!ReadCheckpoint, B!Subscribe,
           B!ConsumeFails, B!BackoffEnds, B!StreamCloses, B!store
  <2>2. CASE B!ReadCheckpoint
    <3>1. pcB' = "subscribe" /\ startBlockB' = Resume /\ cursorB' = cursorB
      BY <2>2 DEF B!ReadCheckpoint
    <3> QED
      BY <2>1, <3>1 DEF OwnStep
  <2>3. CASE B!Subscribe
    <3>1. /\ pcB = "subscribe" /\ pcB' = "streaming" /\ startBlockB' = startBlockB
          /\ cursorB' = FirstFrom(startBlockB)
      BY <2>3 DEF B!Subscribe
    <3> QED
      BY <2>1, <3>1 DEF OwnStep
  <2>4. CASE B!LoopReturns \/ B!ConsumeFails \/ B!BackoffEnds \/ B!StreamCloses
    <3>1. /\ pcB' \in {"returned", "backoff", "loop"}
          /\ startBlockB' = startBlockB /\ cursorB' = cursorB
      BY <2>4 DEF B!LoopReturns, B!ConsumeFails, B!BackoffEnds, B!StreamCloses
    <3> QED
      BY <2>1, <3>1 DEF OwnStep
  <2> QED
    BY <1>4, <2>1, <2>2, <2>3, <2>4
<1>5. ASSUME B!StoreEvent
      PROVE  /\ \E e \in Event : Stores(e)
             /\ OwnStep(Done', pcB, startBlockB, cursorB, cancelledB,
                        pcB', startBlockB', cursorB', cancelledB')
  <2>1. cursorB \in Event
    BY <1>3, <1>5 DEF B!StoreEvent, B!Delivered, Event
  <2>2. Stores(cursorB)
    BY <1>1, <1>3, <1>5, <2>1
       DEF Stores, B!StoreEvent, B!Delivered, B!Insert, B!SetCheckpoint
  <2>3. cursorB \in Done'
    BY <2>1, <2>2, StoresOK, <1>1
  <2>4. /\ pcB' = pcB /\ pcB = "streaming" /\ cancelledB' = cancelledB
        /\ cursorB' = cursorB + 1 /\ startBlockB' = startBlockB
    BY <1>5 DEF B!StoreEvent, B!Delivered
  <2> QED
    BY <2>1, <2>2, <2>3, <2>4 DEF OwnStep
<1>6. ASSUME B!StoreFails
      PROVE  /\ LeavesTheStore
             /\ OwnStep(Done', pcB, startBlockB, cursorB, cancelledB,
                        pcB', startBlockB', cursorB', cancelledB')
  <2>1. cursorB \in Event
    BY <1>3, <1>6 DEF B!StoreFails, B!Delivered, Event
  <2>2. LeavesTheStore
    <3>1. UNCHANGED <<rows, checkpoint>>
      BY <1>6 DEF B!StoreFails, B!store
    <3>2. CASE cancelledB
      BY <1>1, <1>6, <3>1, <3>2 DEF LeavesTheStore, Refused, B!StoreFails
    <3>3. CASE ~cancelledB
      <4>1. pcB = "streaming" /\ skippedB' = skippedB \cup {cursorB}
        BY <1>6, <3>3 DEF B!StoreFails, B!Delivered
      <4>2. Refused' = Refused \cup {cursorB}
        BY <1>1, <4>1 DEF Refused
      <4> QED
        BY <1>3, <2>1, <3>1, <3>3, <4>1, <4>2 DEF LeavesTheStore
    <3> QED
      BY <3>2, <3>3
  <2>3. cursorB \in Done' \/ cancelledB
    BY <1>6 DEF Done, Refused, B!StoreFails
  <2>4. /\ pcB' = pcB /\ pcB = "streaming" /\ cancelledB' = cancelledB
        /\ cursorB' = cursorB + 1 /\ startBlockB' = startBlockB
    BY <1>6 DEF B!StoreFails, B!Delivered
  <2> QED
    BY <2>1, <2>2, <2>3, <2>4 DEF OwnStep
<1> QED
  BY <1>1, <1>2, <1>4, <1>5, <1>6 DEF ConsumeB, B!Consume, ProcessStep

\* The life of process B does not concern the database.
LEMMA LivesB ==
  ASSUME SInv, StartB \/ ListenB \/ StopB \/ ExitB
  PROVE  ProcessStep
<1>1. /\ UNCHANGED <<chain, height, rows, checkpoint, skippedA, skippedB>>
      /\ UNCHANGED <<pcA, startBlockA, cursorA, cancelledA>>
      /\ startBlockB' = startBlockB /\ cursorB' = cursorB
      /\ \/ pcB' \notin {"subscribe", "streaming"}
         \/ pcB' = pcB /\ (cancelledB => cancelledB')
  BY DEF StartB, ListenB, StopB, ExitB, B!Restart, B!Cancel, B!Exit, B!ledger, B!store, ownA,
         shared
<1>2. LeavesTheStore
  BY <1>1 DEF LeavesTheStore, Refused
<1> QED
  BY <1>1, <1>2 DEF ProcessStep, OwnStep

\* Every step of the two processes and of the ledger.
LEMMA NextSInv == SInv /\ [Next]_vars => SInv'
<1> SUFFICES ASSUME SInv, [Next]_vars PROVE SInv'
  OBVIOUS
<1>1. ASSUME NEW n \in 1..MaxEventsPerBlock, CommitBlock(n) PROVE SInv'
  BY <1>1, CommitBlockOK
<1>2. CASE ConsumeA \/ StartA \/ ListenA \/ StopA \/ ExitA
  BY <1>2, ConsumesA, LivesA, ProcessStepOK
<1>3. CASE ConsumeB \/ StartB \/ ListenB \/ StopB \/ ExitB
  BY <1>3, ConsumesB, LivesB, ProcessStepOK
<1>4. CASE UNCHANGED vars
  <2>1. /\ UNCHANGED <<chain, height, rows, checkpoint>>
        /\ UNCHANGED <<pcA, startBlockA, cursorA, cancelledA, skippedA>>
        /\ UNCHANGED <<pcB, startBlockB, cursorB, cancelledB, skippedB>>
    BY <1>4 DEF vars, shared, ownA, ownB
  <2>2. LeavesTheStore
    BY <2>1 DEF LeavesTheStore, Refused
  <2>3. ProcessStep
    BY <2>1, <2>2 DEF ProcessStep, OwnStep
  <2> QED
    BY <2>3, ProcessStepOK
<1> QED
  BY <1>1, <1>2, <1>3, <1>4 DEF Next

(***************************************************************************)
(* The invariant holds whatever the two processes do.                      *)
(***************************************************************************)
THEOREM SharedInvariance == Spec => []SInv
BY InitSInv, NextSInv, PTL DEF Spec

(***************************************************************************)
(* While no insert fails, two consumers on one database still make it a    *)
(* prefix of the event log.                                                *)
(***************************************************************************)
THEOREM SharedRowsArePrefix == Spec => []RowsArePrefix
<1>1. SInv => RowsArePrefix
  BY DEF SInv
<1> QED
  BY <1>1, SharedInvariance, PTL

(***************************************************************************)
(* Whichever of the two wrote the checkpoint last, it names no block       *)
(* beyond an event that is missing and was not refused to one of them, and *)
(* nothing is stored twice.                                                *)
(***************************************************************************)
THEOREM SharedCheckpointIsSafe == Spec => []RestartLosesNothing
<1>1. SInv => RestartLosesNothing
  BY DEF SInv
<1> QED
  BY <1>1, SharedInvariance, PTL

(***************************************************************************)
(* When one of the two waits for its stream, everything is stored or was   *)
(* refused, wherever the other is and whatever it does to the checkpoint.  *)
(***************************************************************************)
THEOREM IdleConsumersMissNothing == Spec => []IdleMissesNothing
<1>1. SInv => IdleMissesNothing
  <2> SUFFICES ASSUME SInv, A!Idle \/ B!Idle PROVE \A e \in Event : e \in Done
    BY CommonWords DEF IdleMissesNothing, Done
  <2>1. \/ /\ pcA = "streaming" /\ ~cancelledA /\ ~(cursorA <= Len(chain))
           /\ cursorA \in 1..(Len(chain) + 1)
           /\ \A e \in Event : e < cursorA => e \in Done
        \/ /\ pcB = "streaming" /\ ~cancelledB /\ ~(cursorB <= Len(chain))
           /\ cursorB \in 1..(Len(chain) + 1)
           /\ \A e \in Event : e < cursorB => e \in Done
    BY DEF SInv, ProcessOK, A!Idle, A!Up, A!Delivered, B!Idle, B!Up, B!Delivered
  <2>2. Len(chain) \in Nat
    BY DEF SInv, LogOK
  <2> QED
    BY <2>1, <2>2 DEF Event
<1> QED
  BY <1>1, SharedInvariance, PTL

-----------------------------------------------------------------------------
(***************************************************************************)
(* What the two processes do to the database, seen from outside.           *)
(***************************************************************************)
storeVars == <<chain, rows, checkpoint, Refused>>

LEMMA ProjectionWords ==
  Projection!Event = Event /\ Projection!Recorded = Stored
BY DEF Projection!Event, Projection!Recorded, Event, Stored

\* A step of either process adds the event whose turn it is, refuses it, or does
\* not concern the database.
LEMMA ProcessStepProjects ==
  ASSUME ProcessStep
  PROVE  Projection!Next \/ UNCHANGED storeVars
<1>1. UNCHANGED chain
  BY DEF ProcessStep
<1>2. ASSUME NEW e \in Event, \A d \in Event : d < e => d \in Done
      PROVE  Projection!Due(e)
  BY <1>2, ProjectionWords DEF Projection!Due, Done
<1>3. CASE \E e \in Event : Stores(e)
  <2>1. PICK e \in Event : Stores(e)
    BY <1>3
  <2>2. Projection!Project(e)
    BY <1>1, <1>2, <2>1, ProjectionWords DEF Projection!Project, Stores, Refused
  <2> QED
    BY <2>2, ProjectionWords DEF Projection!Next
<1>4. CASE LeavesTheStore /\ Refused' = Refused
  BY <1>1, <1>4 DEF LeavesTheStore, storeVars
<1>5. CASE LeavesTheStore /\ Refused' # Refused
  <2>1. PICK e \in Event : /\ \A d \in Event : d < e => d \in Done
                          /\ Refused' = Refused \cup {e}
    BY <1>5 DEF LeavesTheStore
  <2>2. Projection!Refuse(e)
    BY <1>1, <1>2, <1>5, <2>1 DEF Projection!Refuse, LeavesTheStore
  <2> QED
    BY <2>2, ProjectionWords DEF Projection!Next
<1> QED
  BY <1>3, <1>4, <1>5 DEF ProcessStep

\* A block is emitted as a whole, above the blocks before it.
LEMMA CommitBlockEmits ==
  ASSUME SInv, NEW n \in 1..MaxEventsPerBlock, CommitBlock(n)
  PROVE  Projection!Emit
<1> DEFINE new == [i \in 1..n |-> height]
<1>1. /\ n \in Nat /\ n >= 1 /\ height \in Nat /\ chain \in Seq(Nat)
      /\ UNCHANGED <<rows, checkpoint>> /\ Refused' = Refused /\ chain' = chain \o new
  BY DEF SInv, LogOK, CommitBlock, A!CommitBlock, A!store, Refused, ownB
<1>2. new \in Seq(Nat) /\ Len(new) = n
  BY <1>1
<1>3. /\ Len(chain) \in Nat /\ Len(chain') = Len(chain) + n
      /\ \A i \in 1..Len(chain) : chain'[i] = chain[i] /\ chain[i] < height
      /\ \A i \in (Len(chain) + 1)..(Len(chain) + n) : chain'[i] = height
  <2>1. \A i \in 1..Len(chain) : chain[i] < height
    BY DEF SInv, LogOK, Event
  <2> QED
    BY <1>1, <1>2, <2>1
<1> HIDE DEF new
<1>4. ASSUME NEW i \in 1..Len(chain'), NEW j \in 1..Len(chain'), i < j
      PROVE  IF i \in Event /\ j \notin Event THEN chain'[i] < chain'[j]
             ELSE i \notin Event => chain'[i] = chain'[j]
  <2>1. \A k \in 1..Len(chain') : k \notin Event => chain'[k] = height
    BY <1>1, <1>3 DEF Event
  <2>2. i \notin Event => j \notin Event
    BY <1>1, <1>3, <1>4 DEF Event
  <2>3. i \in Event => chain'[i] < height
    BY <1>3 DEF Event
  <2> QED
    BY <2>1, <2>2, <2>3
<1> QED
  BY <1>1, <1>3, <1>4, ProjectionWords DEF Projection!Emit, Event

(***************************************************************************)
(* The database of two processes that do not know of each other is still   *)
(* one to which events are added one at a time, each in its turn.          *)
(***************************************************************************)
THEOREM TwoImplementTheProjection == Spec => ImplementsProjection
<1>1. Init => Projection!Init
  BY DEF Init, Projection!Init, Refused
<1>2. SInv /\ [Next]_vars => [Projection!Next]_storeVars
  <2> SUFFICES ASSUME SInv, [Next]_vars
               PROVE  Projection!Next \/ UNCHANGED storeVars
    OBVIOUS
  <2>1. ASSUME NEW n \in 1..MaxEventsPerBlock, CommitBlock(n) PROVE Projection!Next
    BY <2>1, CommitBlockEmits DEF Projection!Next
  <2>2. CASE ConsumeA \/ StartA \/ ListenA \/ StopA \/ ExitA
    BY <2>2, ConsumesA, LivesA, ProcessStepProjects
  <2>3. CASE ConsumeB \/ StartB \/ ListenB \/ StopB \/ ExitB
    BY <2>3, ConsumesB, LivesB, ProcessStepProjects
  <2>4. CASE UNCHANGED vars
    BY <2>4 DEF vars, shared, ownA, ownB, storeVars, Refused
  <2> QED
    BY <2>1, <2>2, <2>3, <2>4 DEF Next
<1> QED
  BY <1>1, <1>2, SharedInvariance, PTL
     DEF Spec, ImplementsProjection, Projection!Spec, storeVars
=============================================================================
