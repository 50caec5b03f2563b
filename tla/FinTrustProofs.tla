---------------------------- MODULE FinTrustProofs ----------------------------
(***************************************************************************)
(* Proofs about FinTrust, for any invoices, documents, number of           *)
(* transactions, size of block, faults and limits: the ledger and the      *)
(* consumer keep in the composition what they promise each by itself, and  *)
(* what a server tells of an invoice is what the ledger has said of it.    *)
(*                                                                         *)
(* The invariant is those of the two components and what ties one to the   *)
(* other.  The stream is the event log up to the block being validated     *)
(* (InStep), and no block has two events of one invoice (OnePerBlock): a   *)
(* commit makes all transactions on its invoice that are still to come in  *)
(* the block stale.  That is why a query that sorts by block, and only     *)
(* within a block by the order of arrival, gets the events of an invoice   *)
(* in the order of the ledger.                                             *)
(***************************************************************************)
EXTENDS FinTrust, InvoiceLedgerProofs, EventConsumerProofs

\* The places of the event log that belong to the block being validated.
Open == (Len(chain) + 1)..Len(events)

InStep ==
  /\ Len(chain) <= Len(events)
  /\ block = {} => Len(chain) = Len(events)
  /\ Len(events) - Len(chain) + Cardinality(block) <= MaxBlockTxs

OnePerBlock ==
  /\ \A i, j \in 1..Len(chain) :
       chain[i] = chain[j] /\ events[i].id = events[j].id => i = j
  /\ \A i, j \in Open : events[i].id = events[j].id => i = j
  /\ \A i \in Open, t \in block : tx[t].id = events[i].id => ~Unstale(t)

\* Each block of the stream has decided a transaction at least.
Decided == {t \in Tx : phase[t] \notin {"idle", "endorsed"}}
HeightOK == height <= Cardinality(Decided)

\* The statuses that the events of an invoice tell follow its lifecycle.
HistoriesLead ==
  \A i, j \in 1..Len(events) :
    i < j /\ events[i].id = events[j].id => LeadsTo(events[i].status, events[j].status)

JInv ==
  /\ LogInv
  /\ CInv /\ PrefixInv
  /\ InStep
  /\ OnePerBlock
  /\ HeightOK
  /\ HistoriesLead

-----------------------------------------------------------------------------
(***************************************************************************)
(* The components in the composition.                                      *)
(***************************************************************************)
\* The stream starts with the ledger.
LEMMA InitJInv == ServerInit => JInv
<1> SUFFICES ASSUME ServerInit PROVE JInv
  OBVIOUS
<1>1. LogInv
  BY InitLogInv DEF ServerInit
<1>2. CInv /\ PrefixInv
  BY InitCInv DEF ServerInit
<1>4. /\ events = << >> /\ chain = << >> /\ block = {} /\ height = 0 /\ Decided = {}
  BY DEF ServerInit, Init, ConsumerInit, Decided
<1>5. InStep
  BY <1>4, FS_EmptySet, LedgerAssumption DEF InStep, LedgerAssumption
<1>6. OnePerBlock /\ HeightOK /\ HistoriesLead
  BY <1>4, FS_EmptySet DEF OnePerBlock, Open, HeightOK, HistoriesLead
<1> QED
  BY <1>1, <1>2, <1>5, <1>6 DEF JInv

\* The types that the arithmetic needs.
LEMMA Sizes ==
  ASSUME JInv
  PROVE  /\ Len(events) \in Nat /\ Len(chain) \in Nat /\ height \in Nat
         /\ Cardinality(block) \in Nat /\ IsFiniteSet(block)
         /\ Cardinality(Decided) \in Nat /\ IsFiniteSet(Decided)
         /\ MaxTx \in Nat /\ MaxBlockTxs \in Nat /\ IsFiniteSet(Tx) /\ Cardinality(Tx) = MaxTx
         /\ MaxBlocks \in Nat /\ MaxEventsPerBlock \in Nat
<1>1. MaxTx \in Nat /\ MaxBlockTxs \in Nat /\ MaxBlocks \in Nat /\ MaxEventsPerBlock \in Nat
  BY LedgerAssumption, ConsumerAssumption DEF LedgerAssumption, ConsumerAssumption
<1>2. IsFiniteSet(Tx) /\ Cardinality(Tx) = MaxTx
  BY <1>1, FS_Interval DEF Tx
<1>3. block \in SUBSET Tx /\ Decided \in SUBSET Tx
  BY DEF JInv, LogInv, IInv, TypeOK, Decided
<1>4. /\ IsFiniteSet(block) /\ Cardinality(block) \in Nat
      /\ IsFiniteSet(Decided) /\ Cardinality(Decided) \in Nat
  BY <1>2, <1>3, FS_Subset, FS_CardinalityType
<1>5. Len(events) \in Nat
  BY DEF JInv, LogInv, IInv, TypeOK
<1>6. Len(chain) \in Nat /\ height \in Nat
  BY <1>1 DEF JInv, CInv, ConsumerTypeOK
<1> QED
  BY <1>1, <1>2, <1>4, <1>5, <1>6

\* What the steps of the consumer and of its process leave alone.
LEMMA ConsumerSteps ==
  ASSUME Consume \/ Cancel \/ Exit \/ Restart
  PROVE  ConsumerNext /\ UNCHANGED <<chain, height>>
BY DEF Consume, Cancel, Exit, Restart, ConsumerNext, LoopReturns, ReadCheckpoint, Subscribe,
       ConsumeFails, BackoffEnds, StreamCloses, StoreEvent, StoreFails, ledger

LEMMA ConsumeJInv ==
  ASSUME JInv, UNCHANGED vars, Consume \/ Cancel \/ Exit \/ Restart
  PROVE  JInv'
<1>1. CInv' /\ PrefixInv' /\ UNCHANGED <<chain, height>>
  BY ConsumerSteps, NextCInv DEF JInv
<1>2. LogInv'
  BY NextLogInv DEF JInv
<1>3. InStep' /\ OnePerBlock' /\ HeightOK' /\ HistoriesLead'
  BY <1>1 DEF JInv, vars, InStep, OnePerBlock, Open, Unstale, HeightOK, Decided, HistoriesLead
<1> QED
  BY <1>1, <1>2, <1>3 DEF JInv

\* Between two blocks nothing of the log is open.
LEMMA ProposeJInv ==
  ASSUME JInv, NEW t \in Tx, ServerProposes(t)
  PROVE  JInv'
<1>1. LogInv' /\ CanEndorse(t) /\ SoundProposal(t)
  BY NextLogInv, ProposeIsSound DEF JInv, LogInv, ServerProposes, Next, Propose
<1>2. /\ block = {} /\ UNCHANGED <<block, events>> /\ phase[t] = "idle"
      /\ phase' = [phase EXCEPT ![t] = "endorsed"]
  BY <1>1 DEF CanEndorse, SoundProposal, Proposed, Endorse
<1>3. UNCHANGED consumerVars /\ UNCHANGED <<chain, height>>
  BY DEF ServerProposes, consumerVars, ledger
<1>4. CInv' /\ PrefixInv'
  BY <1>3, NextCInv DEF JInv
<1>5. Decided' = Decided
  BY <1>2 DEF JInv, LogInv, IInv, TypeOK, Decided
<1>6. InStep' /\ OnePerBlock' /\ HeightOK' /\ HistoriesLead'
  BY <1>2, <1>3, <1>5 DEF JInv, InStep, OnePerBlock, Open, HeightOK, HistoriesLead
<1> QED
  BY <1>1, <1>4, <1>6 DEF JInv

LEMMA CutJInv ==
  ASSUME JInv, NEW b \in SUBSET Tx, OrdererCuts(b)
  PROVE  JInv'
<1>1. LogInv'
  BY NextLogInv DEF JInv, OrdererCuts, Next
<1>2. /\ block = {} /\ block' = b /\ Cardinality(b) <= MaxBlockTxs
      /\ UNCHANGED <<events, phase>>
  BY DEF OrdererCuts, CutBlock
<1>3. UNCHANGED consumerVars /\ UNCHANGED <<chain, height>>
  BY DEF OrdererCuts, consumerVars, ledger
<1>4. CInv' /\ PrefixInv'
  BY <1>3, NextCInv DEF JInv
<1>5. Decided' = Decided
  BY <1>2 DEF Decided
<1>6. Len(chain) = Len(events) /\ Open = {} /\ Open' = {}
  BY <1>2, <1>3, Sizes DEF JInv, InStep, Open
<1>7. Cardinality(b) \in Nat
  BY Sizes, FS_Subset, FS_CardinalityType
<1>8. InStep'
  BY <1>2, <1>3, <1>6, <1>7, Sizes DEF InStep
<1>9. OnePerBlock' /\ HeightOK' /\ HistoriesLead'
  BY <1>2, <1>3, <1>5, <1>6 DEF JInv, OnePerBlock, HeightOK, HistoriesLead
<1> QED
  BY <1>1, <1>4, <1>8, <1>9 DEF JInv

-----------------------------------------------------------------------------
(***************************************************************************)
(* Validation, and the end of a block.                                     *)
(***************************************************************************)
\* What holds of the log after a verdict, before the block is handed on.
Pending ==
  LET added == (Len(chain) + 1)..Len(events') IN
  /\ Len(chain) <= Len(events')
  /\ Len(events') - Len(chain) + Cardinality(block') <= MaxBlockTxs
  /\ \A i \in 1..Len(chain) : events'[i] = events[i]
  /\ \A i, j \in added : events'[i].id = events'[j].id => i = j
  /\ \A i \in added, u \in block' : tx'[u].id = events'[i].id => ~Unstale(u)'
  /\ height + 1 <= Cardinality(Decided')

\* Whatever the verdict, the transaction leaves the block and is decided.
LEMMA VerdictDecides ==
  ASSUME JInv, NEW t \in Tx, Validate(t)
  PROVE  /\ t \in block /\ block' = block \ {t} /\ tx' = tx
         /\ Cardinality(block') = Cardinality(block) - 1
         /\ Cardinality(Decided') = Cardinality(Decided) + 1
<1>1. /\ t \in block /\ block' = block \ {t} /\ tx' = tx
      /\ \E code \in Failures \cup {"VALID"} : phase' = [phase EXCEPT ![t] = code]
  BY DEF Validate, FailEndorsement, FailMVCC, Commit, Failures
<1>2. phase \in [Tx -> Phases] /\ phase[t] = "endorsed"
  BY <1>1 DEF JInv, LogInv, IInv, TypeOK
<1>3. Decided' = Decided \cup {t} /\ t \notin Decided
  BY <1>1, <1>2 DEF Decided, Failures
<1>4. Cardinality(Decided') = Cardinality(Decided) + 1
  BY <1>3, Sizes, FS_AddElement
<1>5. Cardinality(block') = Cardinality(block) - 1
  BY <1>1, Sizes, FS_RemoveElement
<1> QED
  BY <1>1, <1>4, <1>5

\* A transaction that fails adds nothing.
LEMMA FailIsPending ==
  ASSUME JInv, NEW t \in Tx, FailEndorsement(t) \/ FailMVCC(t)
  PROVE  Pending
<1>1. /\ UNCHANGED <<events, version, tx>> /\ block' \subseteq block
      /\ Cardinality(block') = Cardinality(block) - 1
      /\ Cardinality(Decided') = Cardinality(Decided) + 1
  BY VerdictDecides DEF Validate, FailEndorsement, FailMVCC
<1>2. \A u \in block' : Unstale(u)' <=> Unstale(u)
  BY <1>1 DEF Unstale
<1>3. Len(events') - Len(chain) + Cardinality(block') <= MaxBlockTxs
  BY <1>1, Sizes DEF JInv, InStep
<1>4. height + 1 <= Cardinality(Decided')
  BY <1>1, Sizes DEF JInv, HeightOK
<1> QED
  BY <1>1, <1>2, <1>3, <1>4 DEF JInv, InStep, OnePerBlock, Open, Pending

\* A commit adds an event of an invoice that had none in the block, or the
\* transaction would have been stale, and makes the others on it stale.
LEMMA CommitIsPending ==
  ASSUME JInv, NEW t \in Tx, Commit(t)
  PROVE  Pending
<1> DEFINE n == Len(events)
           added == (Len(chain) + 1)..Len(events')
<1>1. LogInv /\ IInv
  BY DEF JInv, LogInv
<1>2. /\ t \in block /\ block' = block \ {t} /\ tx' = tx
      /\ Cardinality(block') = Cardinality(block) - 1
      /\ Cardinality(Decided') = Cardinality(Decided) + 1
  BY VerdictDecides DEF Validate
<1>3. /\ n \in Nat /\ Len(events') = n + 1 /\ (\A i \in 1..n : events'[i] = events[i])
      /\ events'[n + 1].id = tx[t].id
  BY <1>1, CommitAppends
<1>4. /\ Unstale(t) /\ version'[tx[t].id]["invoice"] = t /\ phase[t] = "endorsed"
      /\ \A id \in Ids \ {tx[t].id} : version'[id] = version[id]
  BY <1>1, CommitEffect
<1>5. Len(chain) \in Nat /\ Len(chain) <= n /\ Open = (Len(chain) + 1)..n
  BY Sizes DEF JInv, InStep, Open
<1>6. added = Open \cup {n + 1} /\ \A i \in Open : i \in 1..n
  BY <1>3, <1>5
<1>7. \A i \in Open : events[i].id # tx[t].id
  BY <1>2, <1>4 DEF JInv, OnePerBlock
<1>8. \A u \in block' : /\ tx[u].id = tx[t].id => ~Unstale(u)'
                        /\ tx[u].id # tx[t].id => (Unstale(u)' <=> Unstale(u))
  BY <1>1, CommitMakesStale
<1> HIDE DEF n, added
<1>9. \A i, j \in added : events'[i].id = events'[j].id => i = j
  BY <1>3, <1>6, <1>7 DEF JInv, OnePerBlock
<1>10. \A i \in added, u \in block' : tx'[u].id = events'[i].id => ~Unstale(u)'
  <2> SUFFICES ASSUME NEW i \in added, NEW u \in block', tx[u].id = events'[i].id
               PROVE  ~Unstale(u)'
    BY <1>2
  <2>1. CASE i \in Open
    <3>1. events'[i] = events[i] /\ u \in block
      BY <1>2, <1>3, <1>6, <2>1
    <3>2. ~Unstale(u) /\ tx[u].id # tx[t].id
      BY <1>7, <2>1, <3>1 DEF JInv, OnePerBlock
    <3> QED
      BY <1>8, <3>2
  <2>2. CASE i = n + 1
    BY <1>3, <1>8, <2>2
  <2> QED
    BY <1>6, <2>1, <2>2
<1>11. Len(chain) <= Len(events') /\ \A i \in 1..Len(chain) : events'[i] = events[i]
  BY <1>3, <1>5
<1>12. Len(events') - Len(chain) + Cardinality(block') <= MaxBlockTxs
  BY <1>2, <1>3, Sizes DEF JInv, InStep, n
<1>13. height + 1 <= Cardinality(Decided')
  BY <1>2, Sizes DEF JInv, HeightOK
<1> QED
  BY <1>9, <1>10, <1>11, <1>12, <1>13 DEF Pending, added

\* The status that an event tells is behind the one of the record.
LEMMA StatusesLeadOn ==
  ASSUME NEW op \in Operations, NEW later \in After(op)
  PROVE  LeadsTo(To(op), later)
BY DEF Operations, After, To, LeadsTo

Behind == \A i \in 1..Len(events) : LeadsTo(events[i].status, StatusOf(events[i].id))

LEMMA EventsAreBehind == LogInv => Behind
<1> SUFFICES ASSUME LogInv, NEW i \in 1..Len(events)
             PROVE  LeadsTo(events[i].status, StatusOf(events[i].id))
  BY DEF Behind
<1> DEFINE t == events[i].tx
<1>1. /\ t \in Tx /\ phase[t] = "VALID" /\ tx[t].id = events[i].id
      /\ events[i].status = To(tx[t].op)
  BY EventsAreTyped DEF LogInv, IInv, EventsAreOfTheValid
<1> HIDE DEF t
<1>2. tx[t] \in Transactions
  BY <1>1 DEF LogInv, IInv, TypeOK
<1>3. tx[t].op \in Operations /\ StatusOf(events[i].id) \in After(tx[t].op)
  BY <1>1, <1>2 DEF Transactions, LogInv, IInv, CommittedAreBehind
<1> QED
  BY <1>1, <1>3, StatusesLeadOn

LEMMA EventsStayBehind == LogInv' => Behind'
BY EventsAreBehind, PTL

\* An event that a verdict adds tells the status that its invoice now has.
LEMMA VerdictLeads ==
  ASSUME JInv, NEW t \in Tx, Validate(t)
  PROVE  HistoriesLead'
<1>1. CASE FailEndorsement(t) \/ FailMVCC(t)
  BY <1>1 DEF FailEndorsement, FailMVCC, JInv, HistoriesLead
<1>2. CASE Commit(t)
  <2> DEFINE n == Len(events)
  <2>1. LogInv /\ IInv /\ LogInv'
    BY <1>2, NextLogInv DEF JInv, LogInv, Next, Validate
  <2>2. /\ n \in Nat /\ Len(events') = n + 1 /\ (\A i \in 1..n : events'[i] = events[i])
        /\ events'[n + 1].id = tx[t].id /\ events'[n + 1].status = tx[t].invoice.status
    BY <1>2, <2>1, CommitAppends
  <2>3. invoice'[tx[t].id] = tx[t].invoice /\ tx[t].invoice # Absent
    BY <1>2, <2>1, CommitEffect, AbsentIsNoRecord DEF Transactions
  <2> HIDE DEF n
  <2>4. ASSUME NEW i \in 1..n, NEW j \in 1..(n + 1), i < j, events'[i].id = events'[j].id
        PROVE  LeadsTo(events'[i].status, events'[j].status)
    <3>1. CASE j = n + 1
      <4>1. invoice'[events'[i].id] = tx[t].invoice
        BY <2>2, <2>3, <2>4, <3>1
      <4>2. i \in 1..Len(events')
        BY <2>2
      <4>3. Behind'
        BY <2>1, EventsStayBehind
      <4> QED
        BY <2>2, <2>3, <3>1, <4>1, <4>2, <4>3 DEF Behind, StatusOf
    <3>2. CASE j \in 1..n
      BY <2>2, <2>4, <3>2 DEF JInv, HistoriesLead, n
    <3> QED
      BY <2>2, <3>1, <3>2
  <2> QED
    BY <2>2, <2>4 DEF HistoriesLead
<1> QED
  BY <1>1, <1>2 DEF Validate

\* The number of events that a block brings is one that the stream allows.
LEMMA EndOfBlock ==
  ASSUME JInv, NEW t \in Tx, PeerValidates(t), block' = {}
  PROVE  LET n == Len(events') - Len(chain) IN CommitBlock(n) /\ n \in 0..MaxEventsPerBlock
<1> DEFINE n == Len(events') - Len(chain)
<1>1. Pending
  BY FailIsPending, CommitIsPending DEF PeerValidates, Validate
<1>2. Len(events') \in Nat
  BY NextLogInv DEF JInv, LogInv, IInv, TypeOK, PeerValidates, Next
<1>3. Cardinality(block') = 0
  BY FS_EmptySet
<1>4. n <= MaxBlockTxs /\ MaxBlockTxs <= MaxEventsPerBlock
  BY <1>1, <1>2, <1>3, Sizes, SameBlocks DEF Pending, SameBlocks
<1> QED
  BY <1>1, <1>2, <1>4, Sizes DEF PeerValidates, Pending

\* The events of the block get its number, which no other event has.
LEMMA ValidateJInv ==
  ASSUME JInv, NEW t \in Tx, PeerValidates(t)
  PROVE  JInv'
<1> DEFINE n == Len(events') - Len(chain)
<1>1. LogInv' /\ IInv'
  BY NextLogInv DEF JInv, LogInv, PeerValidates, Next
<1>2. Pending
  BY FailIsPending, CommitIsPending DEF PeerValidates, Validate
<1>3. Len(events') \in Nat /\ IsFiniteSet(block') /\ Cardinality(block') \in Nat
  <2>1. Len(events') \in Nat
    BY <1>1 DEF IInv, TypeOK
  <2> QED
    BY <2>1, VerdictDecides, Sizes, FS_Subset, FS_CardinalityType DEF PeerValidates
<1>4. Cardinality(Decided') = Cardinality(Decided) + 1 /\ HistoriesLead'
  BY VerdictDecides, VerdictLeads DEF PeerValidates
<1>5. CASE block' # {}
  <2>1. UNCHANGED consumerVars /\ UNCHANGED <<chain, height>>
    BY <1>5 DEF PeerValidates, consumerVars, ledger
  <2>2. CInv' /\ PrefixInv'
    BY <2>1, NextCInv DEF JInv
  <2>3. InStep'
    BY <1>2, <1>5, <2>1 DEF Pending, InStep
  <2>4. OnePerBlock'
    BY <1>2, <2>1 DEF JInv, OnePerBlock, Pending, Open
  <2>5. HeightOK'
    BY <1>4, <2>1, Sizes DEF JInv, HeightOK
  <2> QED
    BY <1>1, <1>4, <2>2, <2>3, <2>4, <2>5 DEF JInv
<1>6. CASE block' = {}
  <2>1. CommitBlock(n) /\ n \in 0..MaxEventsPerBlock
    BY <1>6, EndOfBlock
  <2>2. CInv' /\ PrefixInv'
    BY <2>1, NextCInv DEF JInv, ConsumerNext
  <2>3. /\ Len(chain') = Len(events') /\ height' = height + 1
        /\ \A i \in 1..Len(chain) : chain'[i] = chain[i]
        /\ \A i \in (Len(chain) + 1)..Len(chain') : chain'[i] = height
    <3>1. chain \in Seq(0..(MaxBlocks - 1)) /\ height \in 0..(MaxBlocks - 1) /\ n \in Nat
      BY <2>1, ConsumerAssumption
         DEF JInv, CInv, ConsumerTypeOK, CommitBlock, ConsumerAssumption
    <3> DEFINE new == [i \in 1..n |-> height]
    <3>2. new \in Seq(0..(MaxBlocks - 1)) /\ Len(new) = n
      BY <3>1
    <3>3. chain' = chain \o new /\ height' = height + 1
      BY <2>1 DEF CommitBlock
    <3>4. /\ Len(chain') = Len(chain) + n
          /\ \A i \in 1..Len(chain) : chain'[i] = chain[i]
          /\ \A i \in (Len(chain) + 1)..(Len(chain) + n) : chain'[i] = height
      BY <3>1, <3>2, <3>3
    <3> HIDE DEF new
    <3> QED
      BY <1>3, <3>3, <3>4, Sizes
  <2>4. InStep'
    <3>1. Cardinality(block') = 0
      BY <1>6, FS_EmptySet
    <3> QED
      BY <1>3, <2>3, <3>1, Sizes DEF InStep
  <2>5. OnePerBlock'
    <3>1. Open' = {}
      BY <1>3, <2>3 DEF Open
    <3>2. \A i \in 1..Len(chain) : chain[i] < height /\ chain[i] \in Int /\ height \in Int
      BY Numbers DEF JInv, CInv, Ordered, Event
    <3>3. 1..Len(chain') = 1..Len(chain) \cup (Len(chain) + 1)..Len(events')
      BY <1>2, <1>3, <2>3, Sizes DEF Pending
    <3>4. \A i \in 1..Len(chain), j \in (Len(chain) + 1)..Len(events') :
            chain'[i] # chain'[j]
      BY <2>3, <3>2
    <3>5. \A i, j \in 1..Len(chain') :
            chain'[i] = chain'[j] /\ events'[i].id = events'[j].id => i = j
      BY <1>2, <2>3, <3>3, <3>4 DEF JInv, OnePerBlock, Pending
    <3> QED
      BY <3>1, <3>5 DEF OnePerBlock
  <2>6. HeightOK'
    BY <1>2, <2>3 DEF Pending, HeightOK
  <2> QED
    BY <1>1, <1>4, <2>2, <2>4, <2>5, <2>6 DEF JInv
<1> QED
  BY <1>5, <1>6

LEMMA NextJInv == JInv /\ [ServerNext]_allVars => JInv'
<1> SUFFICES ASSUME JInv, [ServerNext]_allVars PROVE JInv'
  OBVIOUS
<1>1. CASE ServerConsumes \/ ProcessChanges
  BY <1>1, ConsumeJInv DEF ServerConsumes, ProcessChanges
<1>2. CASE UNCHANGED allVars
  <2>1. UNCHANGED vars /\ UNCHANGED consumerVars /\ UNCHANGED <<chain, height>>
    BY <1>2 DEF allVars, consumerVars, ledger
  <2>2. LogInv' /\ CInv' /\ PrefixInv'
    BY <2>1, NextLogInv, NextCInv DEF JInv
  <2>3. InStep' /\ OnePerBlock' /\ HeightOK' /\ HistoriesLead'
    BY <2>1 DEF JInv, vars, InStep, OnePerBlock, Open, Unstale, HeightOK, Decided,
                HistoriesLead
  <2> QED
    BY <2>2, <2>3 DEF JInv
<1> QED
  BY <1>1, <1>2, ProposeJInv, CutJInv, ValidateJInv DEF ServerNext

(***************************************************************************)
(* The invariant holds of every behaviour of the ledger and the server:    *)
(* the stream is the event log up to the block being validated, and no     *)
(* block has two events of one invoice.                                    *)
(***************************************************************************)
THEOREM ServerInvariance == ServerSpec => []JInv
BY InitJInv, NextJInv, PTL DEF ServerSpec

-----------------------------------------------------------------------------
(***************************************************************************)
(* The components keep their promises: whatever is proved of one of them   *)
(* by itself holds of it here.                                             *)
(***************************************************************************)
(***************************************************************************)
(* With a server's consumer behind it, the ledger is that of InvoiceLedger.*)
(***************************************************************************)
THEOREM TheLedgerIsTheLedger == ServerSpec => Spec
<1>1. ServerInit => Init
  BY DEF ServerInit
<1>2. [ServerNext]_allVars => [Next]_vars
  BY DEF ServerNext, allVars, ServerProposes, OrdererCuts, PeerValidates, ServerConsumes,
         ProcessChanges, Next
<1> QED
  BY <1>1, <1>2, PTL DEF ServerSpec, Spec

(***************************************************************************)
(* Fed by the blocks of the ledger, the consumer is that of EventConsumer: *)
(* no block has more events, and there are no more blocks, than that       *)
(* allows.                                                                 *)
(***************************************************************************)
THEOREM TheConsumerIsTheConsumer ==
  ServerSpec => ConsumerInit /\ [][ConsumerNext]_consumerVars
<1>1. ServerInit => ConsumerInit
  BY DEF ServerInit
<1>2. JInv /\ [ServerNext]_allVars => [ConsumerNext]_consumerVars
  <2> SUFFICES ASSUME JInv, [ServerNext]_allVars PROVE [ConsumerNext]_consumerVars
    OBVIOUS
  <2>1. ASSUME NEW t \in Tx, PeerValidates(t) PROVE [ConsumerNext]_consumerVars
    <3>1. CASE block' # {}
      BY <2>1, <3>1 DEF PeerValidates
    <3>2. CASE block' = {}
      BY <2>1, <3>2, EndOfBlock DEF ConsumerNext
    <3> QED
      BY <3>1, <3>2
  <2>2. CASE ServerConsumes \/ ProcessChanges
    BY <2>2 DEF ServerConsumes, ProcessChanges, ConsumerNext
  <2> QED
    BY <2>1, <2>2 DEF ServerNext, allVars, ServerProposes, OrdererCuts
<1> QED
  BY <1>1, <1>2, ServerInvariance, PTL DEF ServerSpec

(***************************************************************************)
(* Put together, ledger and server implement both abstract specifications: *)
(* invoices change by the atomic steps of the lifecycle, and the events of *)
(* these changes are projected by the atomic steps of the projection.      *)
(***************************************************************************)
THEOREM TogetherTheyImplementBoth ==
  ServerSpec => ImplementsLifecycle /\ ImplementsProjection
<1>1. ConsumerInit => Projection!Init
  BY DEF ConsumerInit, Projection!Init
<1>2. JInv => CInv
  BY DEF JInv
<1>3. ServerSpec => ImplementsProjection
  BY <1>1, <1>2, StepsProject, TheConsumerIsTheConsumer, ServerInvariance, PTL
     DEF ImplementsProjection, Projection!Spec
<1> QED
  BY <1>3, TheLedgerIsTheLedger, ImplementsTheLifecycle, PTL

(***************************************************************************)
(* The stream has room for the block that is being validated: its bound    *)
(* never holds back the ledger.                                            *)
(***************************************************************************)
THEOREM TheStreamHasRoom == ServerSpec => [](block # {} => height < MaxBlocks)
<1>1. JInv => (block # {} => height < MaxBlocks)
  <2> SUFFICES ASSUME JInv, block # {} PROVE height < MaxBlocks
    OBVIOUS
  <2>1. PICK t \in Tx : phase[t] = "endorsed"
    BY DEF JInv, LogInv, IInv, TypeOK
  <2>2. Decided \subseteq Tx /\ Decided # Tx
    BY <2>1 DEF Decided
  <2>3. Cardinality(Decided) <= MaxTx /\ Cardinality(Decided) # MaxTx
    BY <2>2, Sizes, FS_Subset
  <2> QED
    BY <2>3, Sizes, SameBlocks DEF JInv, HeightOK, SameBlocks
<1> QED
  BY <1>1, ServerInvariance, PTL

-----------------------------------------------------------------------------
(***************************************************************************)
(* What the queries return.                                                *)
(***************************************************************************)
\* A row of the table is that of an event, and says which.
LEMMA RowOf ==
  ASSUME JInv, NEW i \in 1..Len(rows)
  PROVE  /\ rows[i] \in 1..Len(chain) /\ rows[i] \in 1..Len(events)
         /\ Table[i].id = i /\ Table[i].block = chain[rows[i]]
         /\ Table[i].invoice = events[rows[i]].id
         /\ Table[i].status = events[rows[i]].status
         /\ Position(Table[i]) = rows[i]
<1>1. rows[i] \in 1..Len(chain) /\ rows[i] \in 1..Len(events)
  <2>1. rows[i] \in 1..Len(chain)
    BY Numbers DEF JInv, CInv, Event
  <2> QED
    BY <2>1, Sizes DEF JInv, InStep
<1>2. /\ Table[i].id = i /\ Table[i].block = chain[rows[i]]
      /\ Table[i].invoice = events[rows[i]].id
      /\ Table[i].status = events[rows[i]].status /\ Table[i].tx = events[rows[i]].tx
  BY DEF Table
<1>3. Position(Table[i]) = rows[i]
  BY <1>1, <1>2 DEF Position, JInv, LogInv, EventsAreOfTheValid
<1> QED
  BY <1>1, <1>2, <1>3

\* ORDER BY is a strict order of the rows, in which no two are equal.
LEMMA RowsAreEnumerated ==
  ASSUME JInv, NEW found \in SUBSET (1..Len(rows))
  PROVE  LET n == Cardinality(found) IN
         /\ n \in Nat
         /\ InOrder(found) \in [1..n -> found]
         /\ \A i \in found : \E k \in 1..n : InOrder(found)[k] = i
         /\ \A k, l \in 1..n :
              k < l => Precedes(Table[InOrder(found)[k]], Table[InOrder(found)[l]])
<1> DEFINE R == {p \in found \X found : Precedes(Table[p[1]], Table[p[2]])}
<1>1. Len(rows) \in Nat /\ \A e \in 1..Len(chain) : chain[e] \in Int
  BY Numbers DEF JInv, CInv, Event
<1>2. IsFiniteSet(found) /\ Cardinality(found) \in Nat
  <2>1. IsFiniteSet(1..Len(rows))
    BY <1>1, FS_Interval
  <2> QED
    BY <2>1, FS_Subset, FS_CardinalityType
<1>3. \A i \in found : i \in Int /\ Table[i].id = i /\ Table[i].block \in Int
  BY <1>1, RowOf
<1>4. /\ \A i \in found : <<i, i>> \notin R
      /\ \A i, j, k \in found : <<i, j>> \in R /\ <<j, k>> \in R => <<i, k>> \in R
      /\ \A i, j \in found : i = j \/ <<i, j>> \in R \/ <<j, i>> \in R
  <2>1. ASSUME NEW i \in found, NEW j \in found
        PROVE  <<i, j>> \in R
                 <=> (Table[i].block > Table[j].block)
                       \/ (Table[i].block = Table[j].block /\ i > j)
    <3>1. <<i, j>> \in R <=> Precedes(Table[i], Table[j])
      OBVIOUS
    <3>2. Table[i].id = i /\ Table[j].id = j
      BY <1>3
    <3> QED
      BY <3>1, <3>2 DEF Precedes
  <2> HIDE DEF R
  <2>2. \A i \in found : <<i, i>> \notin R
    BY <1>3, <2>1
  <2>3. ASSUME NEW i \in found, NEW j \in found, NEW k \in found,
               <<i, j>> \in R, <<j, k>> \in R
        PROVE  <<i, k>> \in R
    BY <1>3, <2>1, <2>3
  <2>4. ASSUME NEW i \in found, NEW j \in found
        PROVE  i = j \/ <<i, j>> \in R \/ <<j, i>> \in R
    BY <1>3, <2>1
  <2> QED
    BY <2>2, <2>3, <2>4
<1>6. \A i, j \in found : <<i, j>> \in R => Precedes(Table[i], Table[j])
  OBVIOUS
<1> HIDE DEF R
<1>5. \E s \in [1..Cardinality(found) -> found] :
        /\ \A i \in found : \E k \in 1..Cardinality(found) : s[k] = i
        /\ \A k, l \in 1..Cardinality(found) : k < l => <<s[k], s[l]>> \in R
  BY <1>2, <1>4, EnumerationExists
<1> QED
  BY <1>2, <1>5, <1>6 DEF InOrder

\* The rows of one invoice come in the order of the ledger: a later block has
\* later events, and no block has two of them.
LEMMA LaterRowsOfAnInvoice ==
  ASSUME JInv, NEW i \in 1..Len(rows), NEW j \in 1..Len(rows),
         Table[i].invoice = Table[j].invoice, Precedes(Table[i], Table[j])
  PROVE  rows[i] > rows[j]
<1>1. /\ rows[i] \in 1..Len(chain) /\ rows[j] \in 1..Len(chain) /\ Len(chain) \in Nat
      /\ chain[rows[i]] \in Int /\ chain[rows[j]] \in Int /\ Len(rows) \in Nat
  BY RowOf, Numbers DEF JInv, CInv, Event
<1>2. CASE chain[rows[i]] > chain[rows[j]]
  BY <1>1, <1>2 DEF JInv, CInv, Ordered, Event
<1>3. CASE chain[rows[i]] = chain[rows[j]] /\ i > j
  <2>1. events[rows[i]].id = events[rows[j]].id
    BY RowOf
  <2>2. rows[i] = rows[j]
    BY <1>1, <1>3, <2>1 DEF JInv, OnePerBlock
  <2> QED
    BY <1>1, <1>3, <2>2 DEF JInv, CInv, NoDuplicates
<1> QED
  BY <1>2, <1>3, RowOf DEF Precedes

\* The answer is the newest of the rows that match, as many as the limit allows,
\* with s the rows in their order.
LEMMA AnswerOf ==
  ASSUME JInv, NEW id \in Ids
  PROVE  LET found == Matching(id, Unfiltered)
             c     == Cardinality(found)
             n     == IF c > InvoiceEventsLimit THEN InvoiceEventsLimit ELSE c
             s     == InOrder(found)
         IN /\ c \in Nat /\ n \in 0..c
            /\ found = {i \in 1..Len(rows) : events[rows[i]].id = id}
            /\ s \in [1..c -> found]
            /\ \A i \in found : \E k \in 1..c : s[k] = i
            /\ \A k, l \in 1..c : k < l => rows[s[k]] > rows[s[l]]
            /\ handleGetInvoiceEvents(id) = [k \in 1..n |-> Table[s[k]]]
            /\ Len(handleGetInvoiceEvents(id)) = n
<1> DEFINE found == Matching(id, Unfiltered)
           c == Cardinality(found)
           n == IF c > InvoiceEventsLimit THEN InvoiceEventsLimit ELSE c
           s == InOrder(found)
<1>1. id # Unfiltered /\ ToUpper[TrimSpace[id]] = id
  BY IdsAreCanonical, CanonicalIsId, ContractAssumption, UnfilteredIsNoId
     DEF ContractAssumption, UnfilteredIsNoId
<1>2. /\ found \in SUBSET (1..Len(rows))
      /\ found = {i \in 1..Len(rows) : events[rows[i]].id = id}
  BY <1>1, RowOf DEF Matching
<1>3. InvoiceEventsLimit \in Nat \ {0} /\ Clamp(InvoiceEventsLimit) = InvoiceEventsLimit
  BY LimitAssumption DEF LimitAssumption, Clamp
<1>4. /\ c \in Nat /\ s \in [1..c -> found]
      /\ \A i \in found : \E k \in 1..c : s[k] = i
      /\ \A k, l \in 1..c : k < l => Precedes(Table[s[k]], Table[s[l]])
  BY <1>2, RowsAreEnumerated
<1>5. n \in 0..c
  BY <1>3, <1>4
<1>6. handleGetInvoiceEvents(id) = [k \in 1..n |-> Table[s[k]]]
  BY <1>1, <1>3 DEF handleGetInvoiceEvents, QueryEvents
<1> HIDE DEF found, c, s, n
<1>7. Len(handleGetInvoiceEvents(id)) = n
  BY <1>4, <1>5, <1>6
<1>8. \A k, l \in 1..c : k < l => rows[s[k]] > rows[s[l]]
  <2> SUFFICES ASSUME NEW k \in 1..c, NEW l \in 1..c, k < l PROVE rows[s[k]] > rows[s[l]]
    OBVIOUS
  <2>1. s[k] \in 1..Len(rows) /\ s[l] \in 1..Len(rows)
    BY <1>2, <1>4
  <2>2. events[rows[s[k]]].id = id /\ events[rows[s[l]]].id = id
    BY <1>2, <1>4
  <2>3. Table[s[k]].invoice = Table[s[l]].invoice
    BY <2>1, <2>2, RowOf
  <2> QED
    BY <1>4, <2>1, <2>3, LaterRowsOfAnInvoice
<1> QED
  BY <1>2, <1>4, <1>5, <1>6, <1>7, <1>8 DEF found, c, s, n

-----------------------------------------------------------------------------
(***************************************************************************)
(* What is asked of an invoice is answered newest event first, for any     *)
(* failed inserts and any replays of a block out of order.                 *)
(***************************************************************************)
THEOREM AnswersAreNewestFirst == ServerSpec => []NewestFirst
<1>1. JInv => NewestFirst
  <2> SUFFICES ASSUME JInv, NEW id \in Ids,
                      NEW i \in 1..Len(handleGetInvoiceEvents(id)),
                      NEW j \in 1..Len(handleGetInvoiceEvents(id)), i < j
               PROVE  Position(handleGetInvoiceEvents(id)[i])
                        > Position(handleGetInvoiceEvents(id)[j])
    BY DEF NewestFirst
  <2> DEFINE found == Matching(id, Unfiltered)
             c == Cardinality(found)
             n == IF c > InvoiceEventsLimit THEN InvoiceEventsLimit ELSE c
             s == InOrder(found)
             answer == handleGetInvoiceEvents(id)
  <2>1. /\ c \in Nat /\ n \in 0..c /\ s \in [1..c -> found]
        /\ \A k \in found : k \in 1..Len(rows)
        /\ \A k, l \in 1..c : k < l => rows[s[k]] > rows[s[l]]
        /\ answer = [k \in 1..n |-> Table[s[k]]] /\ Len(answer) = n
    BY AnswerOf
  <2> HIDE DEF found, c, n, s, answer
  <2>2. /\ i \in 1..c /\ j \in 1..c /\ i \in 1..n /\ j \in 1..n
        /\ answer[i] = Table[s[i]] /\ answer[j] = Table[s[j]]
    BY <2>1 DEF answer
  <2>3. Position(answer[i]) = rows[s[i]] /\ Position(answer[j]) = rows[s[j]]
    BY <2>1, <2>2, RowOf
  <2> QED
    BY <2>1, <2>2, <2>3 DEF answer
<1> QED
  BY <1>1, ServerInvariance, PTL

\* While no insert has failed, the projection is the whole log up to its length,
\* and the answer the newest part of the invoice's history in it.
LEMMA ToldOfThePrefix ==
  ASSUME JInv, skipped = {}
  PROVE  /\ Len(rows) \in 0..Len(events)
         /\ \A id \in Ids :
              LET past == {i \in History(id) : i <= Len(rows)} IN
              /\ Told(id) \subseteq past
              /\ \A i \in Told(id), j \in past : i < j => j \in Told(id)
              /\ Len(handleGetInvoiceEvents(id)) < InvoiceEventsLimit => Told(id) = past
<1>1. Len(rows) \in Nat /\ \A i \in 1..Len(rows) : rows[i] = i
  BY Numbers DEF JInv, CInv, PrefixInv, RowsArePrefix
<1>2. Len(rows) \in 0..Len(events)
  BY <1>1, RowOf, Sizes
<1>3. ASSUME NEW id \in Ids
      PROVE  LET past == {i \in History(id) : i <= Len(rows)} IN
             /\ Told(id) \subseteq past
             /\ \A i \in Told(id), j \in past : i < j => j \in Told(id)
             /\ Len(handleGetInvoiceEvents(id)) < InvoiceEventsLimit => Told(id) = past
  <2> DEFINE past == {i \in History(id) : i <= Len(rows)}
             found == Matching(id, Unfiltered)
             c == Cardinality(found)
             n == IF c > InvoiceEventsLimit THEN InvoiceEventsLimit ELSE c
             s == InOrder(found)
             answer == handleGetInvoiceEvents(id)
  <2>1. /\ c \in Nat /\ n \in 0..c /\ s \in [1..c -> found]
        /\ found = {i \in 1..Len(rows) : events[rows[i]].id = id}
        /\ \A i \in found : \E k \in 1..c : s[k] = i
        /\ \A k, l \in 1..c : k < l => rows[s[k]] > rows[s[l]]
        /\ answer = [k \in 1..n |-> Table[s[k]]] /\ Len(answer) = n
        /\ InvoiceEventsLimit \in Nat /\ (n < InvoiceEventsLimit => n = c)
    <3>1. InvoiceEventsLimit \in Nat
      BY LimitAssumption DEF LimitAssumption
    <3>2. c \in Nat
      BY AnswerOf
    <3>3. n < InvoiceEventsLimit => n = c
      BY <3>1, <3>2
    <3> QED
      BY <3>1, <3>3, AnswerOf
  <2> HIDE DEF found, c, n, s
  <2>2. past = found /\ \A i \in past : i \in 1..Len(rows)
    <3>1. \A i : i \in History(id) /\ i <= Len(rows)
                   <=> i \in 1..Len(rows) /\ events[i].id = id
      BY <1>2, Sizes DEF History
    <3> QED
      BY <1>1, <2>1, <3>1
  <2>3. Told(id) = {s[k] : k \in 1..n}
    <3>1. \A k \in 1..n : Position(answer[k]) = s[k]
      <4> SUFFICES ASSUME NEW k \in 1..n PROVE Position(answer[k]) = s[k]
        OBVIOUS
      <4>1. k \in 1..c /\ answer[k] = Table[s[k]]
        BY <2>1
      <4>2. s[k] \in 1..Len(rows)
        BY <2>1, <4>1
      <4> QED
        BY <1>1, <4>1, <4>2, RowOf
    <3>2. Told(id) = {Position(answer[k]) : k \in 1..n}
      BY <2>1 DEF Told
    <3> HIDE DEF answer
    <3> QED
      BY <3>1, <3>2
  <2> HIDE DEF past
  <2>4. Told(id) \subseteq past
    BY <2>1, <2>2, <2>3
  <2>5. ASSUME NEW i \in Told(id), NEW j \in past, i < j PROVE j \in Told(id)
    <3>1. PICK k \in 1..n : i = s[k]
      BY <2>3
    <3>2. PICK l \in 1..c : j = s[l]
      BY <2>1, <2>2
    <3>3. k \in 1..c /\ i \in 1..Len(rows) /\ j \in 1..Len(rows)
      BY <2>1, <2>2, <2>4
    <3>4. ~(k < l)
      <4>1. rows[s[k]] = i /\ rows[s[l]] = j
        BY <1>1, <3>1, <3>2, <3>3
      <4> QED
        BY <1>1, <2>1, <2>5, <3>3, <4>1
    <3>5. l \in 1..n
      BY <2>1, <3>3, <3>4
    <3> QED
      BY <2>3, <3>2, <3>5
  <2>6. ASSUME Len(answer) < InvoiceEventsLimit PROVE past \subseteq Told(id)
    BY <2>1, <2>2, <2>3, <2>6
  <2> QED
    BY <2>4, <2>5, <2>6 DEF past
<1> QED
  BY <1>2, <1>3

(***************************************************************************)
(* While no insert fails, the answers for all invoices are the newest part *)
(* of what was true of them at one and the same moment; and the status     *)
(* told of an invoice always leads to the one of its record.               *)
(***************************************************************************)
THEOREM TheServerTellsThePast == ServerSpec => []AnswersWereTrue
<1>1. ASSUME JInv, NEW id \in Ids, handleGetInvoiceEvents(id) # << >>
      PROVE  LeadsTo(handleGetInvoiceEvents(id)[1].status, StatusOf(id))
  <2> DEFINE found == Matching(id, Unfiltered)
             c == Cardinality(found)
             n == IF c > InvoiceEventsLimit THEN InvoiceEventsLimit ELSE c
             s == InOrder(found)
             answer == handleGetInvoiceEvents(id)
  <2>1. /\ c \in Nat /\ n \in 0..c /\ s \in [1..c -> found]
        /\ found = {i \in 1..Len(rows) : events[rows[i]].id = id}
        /\ answer = [k \in 1..n |-> Table[s[k]]] /\ Len(answer) = n
    BY <1>1, AnswerOf
  <2> HIDE DEF found, c, n, s, answer
  <2>2. 1 \in 1..n /\ 1 \in 1..c
    <3>1. n # 0
      BY <1>1, <2>1 DEF answer
    <3> QED
      BY <2>1, <3>1
  <2>3. /\ s[1] \in 1..Len(rows) /\ events[rows[s[1]]].id = id
        /\ answer[1].status = events[rows[s[1]]].status
    <3>1. s[1] \in 1..Len(rows) /\ events[rows[s[1]]].id = id
      BY <2>1, <2>2
    <3>2. answer[1] = Table[s[1]]
      BY <2>1, <2>2
    <3> QED
      BY <1>1, <3>1, <3>2, RowOf
  <2>4. rows[s[1]] \in 1..Len(events)
    BY <1>1, <2>3, RowOf
  <2>5. LeadsTo(events[rows[s[1]]].status, StatusOf(id))
    BY <1>1, <2>3, <2>4, EventsAreBehind DEF JInv, Behind
  <2> QED
    BY <2>3, <2>5 DEF answer
<1>2. JInv => AnswersWereTrue
  BY <1>1, ToldOfThePrefix DEF AnswersWereTrue
<1> QED
  BY <1>2, ServerInvariance, PTL

(***************************************************************************)
(* When the consumer waits and no block is being validated, the server     *)
(* tells the status that the record of an invoice has, unless the newest   *)
(* event of that invoice was refused.                                      *)
(***************************************************************************)
THEOREM IdleServersTellTheStatus == ServerSpec => []IdleServersAreUpToDate
<1>1. JInv => IdleServersAreUpToDate
  <2> SUFFICES ASSUME JInv, Idle, block = {}, NEW id \in Ids,
                      \A i \in History(id) \cap (skipped \ Stored) :
                        ~ \A j \in History(id) : j <= i
               PROVE  ToldStatus(id) = StatusOf(id)
    BY DEF IdleServersAreUpToDate
  <2> DEFINE found == Matching(id, Unfiltered)
             c == Cardinality(found)
             n == IF c > InvoiceEventsLimit THEN InvoiceEventsLimit ELSE c
             s == InOrder(found)
             answer == handleGetInvoiceEvents(id)
  <2>1. /\ c \in Nat /\ n \in 0..c /\ s \in [1..c -> found]
        /\ found = {i \in 1..Len(rows) : events[rows[i]].id = id}
        /\ \A i \in found : \E k \in 1..c : s[k] = i
        /\ \A k, l \in 1..c : k < l => rows[s[k]] > rows[s[l]]
        /\ answer = [k \in 1..n |-> Table[s[k]]] /\ Len(answer) = n
    BY AnswerOf
  <2>2. c # 0 => n # 0
    BY <2>1, LimitAssumption DEF LimitAssumption
  <2>3. \A i \in found : rows[i] \in History(id)
    BY <2>1, RowOf DEF History
  <2>4. History(id) \subseteq Stored \cup skipped
    BY IdleHasReadAll DEF JInv, InStep, History, Event
  <2> HIDE DEF found, c, n, s, answer
  <2>5. CASE invoice[id] = Absent
    <3>1. History(id) = {}
      BY <2>5 DEF JInv, LogInv, EventsTellTheState
    <3>2. c = 0
      <4> SUFFICES ASSUME c # 0 PROVE FALSE
        OBVIOUS
      <4>1. 1 \in 1..c
        BY <2>1
      <4>2. s[1] \in found
        BY <2>1, <4>1
      <4> QED
        BY <2>3, <3>1, <4>2
    <3>3. Len(answer) = 0
      BY <2>1, <3>2
    <3>4. answer = << >>
      BY <2>1, <3>2, <3>3
    <3> QED
      BY <2>5, <3>4 DEF ToldStatus, StatusOf, answer
  <2>6. CASE invoice[id] # Absent
    <3>1. PICK i \in History(id) : /\ \A j \in History(id) : j <= i
                                  /\ events[i].status = invoice[id].status
      BY <2>6 DEF JInv, LogInv, EventsTellTheState
    <3>2. i \in Stored
      BY <2>4, <3>1
    <3>3. PICK r \in 1..Len(rows) : rows[r] = i
      BY <3>2 DEF Stored
    <3>4. r \in found
      BY <2>1, <3>1, <3>3 DEF History
    <3>5. PICK k \in 1..c : s[k] = r
      BY <2>1, <3>4
    <3>6. k = 1
      <4> SUFFICES ASSUME k # 1 PROVE FALSE
        OBVIOUS
      <4>1. 1 \in 1..c /\ 1 < k
        BY <2>1, <3>5
      <4>2. s[1] \in found /\ rows[s[1]] > i
        BY <2>1, <3>3, <3>5, <4>1
      <4>3. rows[s[1]] <= i
        BY <2>3, <3>1, <4>2
      <4>4. i \in Int /\ rows[s[1]] \in Int
        BY <2>3, <4>2, Sizes DEF History
      <4> QED
        BY <4>2, <4>3, <4>4
    <3>7. 1 \in 1..n /\ n # 0
      BY <2>1, <2>2, <3>5, <3>6
    <3>8. answer[1] = Table[r] /\ Len(answer) # 0
      BY <2>1, <3>5, <3>6, <3>7
    <3>9. answer[1].status = invoice[id].status
      BY <3>1, <3>3, <3>8, RowOf
    <3>10. answer # << >>
      BY <3>8
    <3> QED
      BY <2>6, <3>9, <3>10 DEF ToldStatus, StatusOf, answer
  <2> QED
    BY <2>5, <2>6
<1> QED
  BY <1>1, ServerInvariance, PTL

-----------------------------------------------------------------------------
(***************************************************************************)
(* How an answer changes.  The rows of an invoice, in descending order of  *)
(* their events, are its answer, and no other sequence of them is; so it   *)
(* is enough to see what a step does to the rows.                          *)
(***************************************************************************)
RowsFor(id) == {i \in 1..Len(rows) : events[rows[i]].id = id}

Shown(c) == IF c > InvoiceEventsLimit THEN InvoiceEventsLimit ELSE c

AnswersDescend ==
  \A id \in Ids :
    LET found == RowsFor(id)
        c     == Cardinality(found)
    IN /\ c \in Nat /\ IsFiniteSet(found)
       /\ \E s : /\ Descends(s, c, found, rows)
                 /\ handleGetInvoiceEvents(id) = [k \in 1..Shown(c) |-> Table[s[k]]]

LEMMA TheAnswersDescend == JInv => AnswersDescend
<1> SUFFICES ASSUME JInv, NEW id \in Ids
             PROVE  LET found == RowsFor(id)
                        c     == Cardinality(found)
                    IN /\ c \in Nat /\ IsFiniteSet(found)
                       /\ \E s : /\ Descends(s, c, found, rows)
                                 /\ handleGetInvoiceEvents(id)
                                      = [k \in 1..Shown(c) |-> Table[s[k]]]
  BY DEF AnswersDescend
<1> DEFINE found == RowsFor(id)
           c == Cardinality(found)
           s == InOrder(found)
<1>0. Matching(id, Unfiltered) = found
  BY AnswerOf DEF RowsFor
<1>1. /\ c \in Nat /\ s \in [1..c -> found]
      /\ \A i \in found : \E k \in 1..c : s[k] = i
      /\ \A k, l \in 1..c : k < l => rows[s[k]] > rows[s[l]]
      /\ handleGetInvoiceEvents(id) = [k \in 1..Shown(c) |-> Table[s[k]]]
  BY <1>0, AnswerOf DEF Shown
<1>2. Len(rows) \in Nat /\ \A i \in found : rows[i] \in Int
  BY RowOf, Numbers DEF RowsFor, JInv, CInv, Event
<1>3. IsFiniteSet(found)
  <2>1. IsFiniteSet(1..Len(rows))
    BY <1>2, FS_Interval
  <2> QED
    BY <2>1, FS_Subset DEF RowsFor
<1> HIDE DEF found, c, s
<1>4. Descends(s, c, found, rows)
  BY <1>1, <1>2 DEF Descends
<1> QED
  BY <1>1, <1>3, <1>4 DEF found, c

LEMMA TheNextAnswersDescend == JInv' => AnswersDescend'
BY TheAnswersDescend, PTL

\* What a step adds to the log and to the table.
LEMMA StepsAppend ==
  ASSUME JInv, JInv', [ServerNext]_allVars
  PROVE  /\ \A i \in 1..Len(events) : i \in 1..Len(events') /\ events'[i] = events[i]
         /\ \A i \in 1..Len(chain) : i \in 1..Len(chain') /\ chain'[i] = chain[i]
         /\ \/ rows' = rows
            \/ /\ rows' = Append(rows, cursor) /\ cursor \notin Stored /\ cursor \in Event
               /\ pc = "streaming" /\ UNCHANGED <<events, chain>>
<1>0. Len(events) \in Nat /\ Len(chain) \in Nat
  BY Sizes
<1>1. CASE ServerConsumes \/ ProcessChanges
  <2>1. UNCHANGED <<events, chain>>
    BY <1>1, ConsumerSteps DEF ServerConsumes, ProcessChanges, vars
  <2>2. \/ rows' = rows
        \/ /\ rows' = Append(rows, cursor) /\ cursor \notin Stored /\ cursor \in Event
           /\ pc = "streaming"
    <3>1. CASE StoreEvent
      BY <3>1, Numbers DEF StoreEvent, Delivered, Insert, Event, JInv, CInv, ConsumerTypeOK
    <3>2. CASE ~StoreEvent
      BY <1>1, <3>2 DEF ServerConsumes, ProcessChanges, Consume, LoopReturns, ReadCheckpoint,
         Subscribe, ConsumeFails, BackoffEnds, StreamCloses, StoreFails, Cancel, Exit,
         Restart, store
    <3> QED
      BY <3>1, <3>2
  <2> QED
    BY <2>1, <2>2
<1>2. ASSUME NEW t \in Tx, PeerValidates(t)
      PROVE  /\ rows' = rows
             /\ \A i \in 1..Len(events) : i \in 1..Len(events') /\ events'[i] = events[i]
             /\ \A i \in 1..Len(chain) : i \in 1..Len(chain') /\ chain'[i] = chain[i]
  <2>1. \A i \in 1..Len(events) : i \in 1..Len(events') /\ events'[i] = events[i]
    <3>1. CASE Commit(t)
      BY <1>0, <3>1, CommitAppends DEF JInv, LogInv
    <3>2. CASE ~Commit(t)
      BY <1>2, <3>2 DEF PeerValidates, Validate, FailEndorsement, FailMVCC
    <3> QED
      BY <3>1, <3>2
  <2>2. /\ rows' = rows
        /\ \A i \in 1..Len(chain) : i \in 1..Len(chain') /\ chain'[i] = chain[i]
    <3>1. CASE block' # {}
      BY <1>2, <3>1 DEF PeerValidates, consumerVars, ledger, store
    <3>2. CASE block' = {}
      <4> DEFINE n == Len(events') - Len(chain)
                 new == [i \in 1..n |-> height]
      <4>1. CommitBlock(n) /\ n \in 0..MaxEventsPerBlock /\ MaxEventsPerBlock \in Nat
        BY <1>2, <3>2, EndOfBlock, Sizes
      <4>2. chain \in Seq(0..(MaxBlocks - 1)) /\ n \in Nat /\ height \in 0..(MaxBlocks - 1)
        <5>1. n \in Nat /\ height < MaxBlocks
          BY <4>1 DEF CommitBlock
        <5>2. chain \in Seq(0..(MaxBlocks - 1)) /\ height \in 0..MaxBlocks
          BY DEF JInv, CInv, ConsumerTypeOK
        <5> QED
          BY <5>1, <5>2, Sizes
      <4>3. new \in Seq(0..(MaxBlocks - 1)) /\ chain' = chain \o new /\ rows' = rows
        BY <4>1, <4>2 DEF CommitBlock, store
      <4> HIDE DEF new
      <4> QED
        BY <4>2, <4>3
    <3> QED
      BY <3>1, <3>2
  <2> QED
    BY <2>1, <2>2
<1>3. CASE \/ \E t \in Tx : ServerProposes(t)
           \/ \E b \in SUBSET Tx : OrdererCuts(b)
           \/ UNCHANGED allVars
  <2>1. UNCHANGED consumerVars /\ UNCHANGED events
    <3>1. ASSUME NEW t \in Tx, ServerProposes(t) PROVE UNCHANGED events
      BY <3>1, ProposeIsSound DEF JInv, LogInv, ServerProposes, SoundProposal, Proposed,
         Endorse
    <3> QED
      BY <1>3, <3>1 DEF ServerProposes, OrdererCuts, CutBlock, allVars, vars
  <2> QED
    BY <2>1 DEF consumerVars, ledger, store
<1> QED
  BY <1>1, <1>2, <1>3 DEF ServerNext

\* What the stream delivers and the table does not have is newer than all that the
\* table has of the same invoice.
LEMMA NewRowIsTheNewest ==
  ASSUME JInv, pc = "streaming", cursor \in Event, cursor \notin Stored,
         NEW i \in 1..Len(rows), events[rows[i]].id = events[cursor].id
  PROVE  rows[i] < cursor
<1>1. /\ rows[i] \in Event /\ rows[i] \in Int /\ cursor \in Int /\ rows[i] \in Stored
      /\ chain[rows[i]] \in Int /\ chain[cursor] \in Int /\ checkpoint \in Int
  BY RowOf, Numbers DEF JInv, CInv, Event, Stored
<1>2. chain[rows[i]] <= chain[cursor]
  BY <1>1 DEF JInv, CInv, NothingBeyond, Ahead
<1>3. ASSUME rows[i] > cursor PROVE FALSE
  <2>1. chain[rows[i]] = chain[cursor]
    BY <1>1, <1>2, <1>3 DEF JInv, CInv, Ordered
  <2>2. rows[i] = cursor
    BY <1>1, <2>1 DEF JInv, OnePerBlock, Event
  <2> QED
    BY <1>1, <2>2
<1>4. rows[i] # cursor
  BY <1>1
<1> QED
  BY <1>1, <1>3, <1>4

\* An invoice of which the table gets no new row is answered as before.
LEMMA SameRowsSameAnswer ==
  ASSUME AnswersDescend, AnswersDescend', NEW id \in Ids, RowsFor(id)' = RowsFor(id),
         \A i \in RowsFor(id) : rows'[i] = rows[i] /\ Table'[i] = Table[i]
  PROVE  handleGetInvoiceEvents(id)' = handleGetInvoiceEvents(id)
<1> DEFINE found == RowsFor(id)
           c == Cardinality(found)
<1>1. PICK s : /\ c \in Nat /\ Descends(s, c, found, rows)
               /\ handleGetInvoiceEvents(id) = [k \in 1..Shown(c) |-> Table[s[k]]]
  BY DEF AnswersDescend
<1>2. PICK u : /\ Descends(u, c, found, rows')
               /\ handleGetInvoiceEvents(id)' = [k \in 1..Shown(c) |-> Table'[u[k]]]
  BY DEF AnswersDescend, Shown
<1> HIDE DEF found, c
<1>3. Descends(u, c, found, rows)
  BY <1>2 DEF Descends, found
<1>4. s = u
  BY <1>1, <1>3, EnumerationIsUnique
<1>5. \A k \in 1..Shown(c) : k \in 1..c
  BY <1>1, LimitAssumption DEF Shown, LimitAssumption
<1>6. \A k \in 1..Shown(c) : Table'[s[k]] = Table[s[k]]
  BY <1>1, <1>5 DEF Descends, found
<1> QED
  BY <1>1, <1>2, <1>4, <1>6

\* A new row of an invoice comes first in its answer.
LEMMA NewRowComesFirst ==
  ASSUME JInv, AnswersDescend, AnswersDescend', NEW id \in Ids, NEW new,
         new \notin RowsFor(id), RowsFor(id)' = RowsFor(id) \cup {new},
         \A i \in RowsFor(id) : rows'[i] = rows[i] /\ Table'[i] = Table[i],
         rows'[new] \in Int, \A i \in RowsFor(id) : rows[i] < rows'[new],
         \A i \in RowsFor(id) : LeadsTo(Table[i].status, Table'[new].status)
  PROVE  Grows(handleGetInvoiceEvents(id), handleGetInvoiceEvents(id)')
<1> DEFINE found == RowsFor(id)
           c == Cardinality(found)
           old == handleGetInvoiceEvents(id)
           answer == handleGetInvoiceEvents(id)'
           n == Shown(c)
           m == Shown(c + 1)
<1>1. PICK s : /\ c \in Nat /\ IsFiniteSet(found) /\ Descends(s, c, found, rows)
               /\ old = [k \in 1..n |-> Table[s[k]]]
  BY DEF AnswersDescend
<1>2. Cardinality(RowsFor(id)') = c + 1
  BY <1>1, FS_AddElement
<1>3. PICK u : /\ Descends(u, c + 1, found \cup {new}, rows')
               /\ answer = [k \in 1..m |-> Table'[u[k]]]
  <2>1. \E u : /\ Descends(u, Cardinality(RowsFor(id)'), RowsFor(id)', rows')
               /\ answer = [k \in 1..Shown(Cardinality(RowsFor(id)')) |-> Table'[u[k]]]
    BY DEF AnswersDescend, Shown
  <2> QED
    BY <1>2, <2>1
<1> HIDE DEF found, c, old, answer
<1> DEFINE v == [k \in 1..(c + 1) |-> IF k = 1 THEN new ELSE s[k - 1]]
<1>4. /\ s \in [1..c -> found]
      /\ \A x \in found : rows[x] \in Int /\ \E k \in 1..c : s[k] = x
      /\ \A k, l \in 1..c : k < l => rows[s[k]] > rows[s[l]]
  BY <1>1 DEF Descends
<1>5. Descends(v, c + 1, found \cup {new}, rows')
  <2>1. \A k \in 1..(c + 1) : k = 1 \/ (k - 1 \in 1..c /\ k # 1)
    BY <1>1
  <2>2. v \in [1..(c + 1) -> found \cup {new}]
    BY <1>4, <2>1
  <2>3. ASSUME NEW x \in found \cup {new}
        PROVE  rows'[x] \in Int /\ \E k \in 1..(c + 1) : v[k] = x
    <3>1. CASE x = new
      <4>1. 1 \in 1..(c + 1) /\ v[1] = new
        BY <1>1
      <4> QED
        BY <3>1, <4>1
    <3>2. CASE x \in found
      <4>1. PICK k \in 1..c : s[k] = x
        BY <1>4, <3>2
      <4>2. k + 1 \in 1..(c + 1) /\ k + 1 # 1 /\ (k + 1) - 1 = k
        BY <1>1
      <4>3. v[k + 1] = x
        BY <4>1, <4>2
      <4> QED
        BY <1>4, <3>2, <4>2, <4>3 DEF found
    <3> QED
      BY <3>1, <3>2
  <2>4. ASSUME NEW k \in 1..(c + 1), NEW l \in 1..(c + 1), k < l
        PROVE  rows'[v[k]] > rows'[v[l]]
    <3>1. l - 1 \in 1..c /\ v[l] = s[l - 1] /\ s[l - 1] \in found
      BY <1>1, <1>4, <2>4
    <3>2. rows'[v[l]] = rows[s[l - 1]] /\ rows[s[l - 1]] \in Int
      BY <1>4, <3>1 DEF found
    <3>3. CASE k = 1
      <4>1. v[k] = new
        BY <3>3
      <4>2. rows[s[l - 1]] < rows'[new]
        BY <3>1 DEF found
      <4> QED
        BY <3>2, <4>1, <4>2
    <3>4. CASE k # 1
      <4>1. k - 1 \in 1..c /\ v[k] = s[k - 1] /\ s[k - 1] \in found /\ k - 1 < l - 1
        BY <1>1, <1>4, <2>4, <3>4
      <4>2. rows'[v[k]] = rows[s[k - 1]]
        BY <4>1 DEF found
      <4> QED
        BY <1>4, <3>1, <3>2, <4>1, <4>2
    <3> QED
      BY <3>3, <3>4
  <2> HIDE DEF v
  <2> QED
    BY <2>2, <2>3, <2>4 DEF Descends
<1>6. c + 1 \in Nat
  BY <1>1
<1>7. u = v
  BY <1>3, <1>5, <1>6, EnumerationIsUnique
<1>8. InvoiceEventsLimit \in Nat \ {0}
  BY LimitAssumption DEF LimitAssumption
<1>9. /\ n \in 0..c /\ m \in 1..(c + 1) /\ m <= n + 1 /\ 1 \in 1..m /\ 1 \in 1..(c + 1)
      /\ m = IF n < InvoiceEventsLimit THEN n + 1 ELSE n
  BY <1>1, <1>8 DEF Shown
<1> HIDE DEF n, m
<1>10. Len(old) = n /\ Len(answer) = m
  BY <1>1, <1>3, <1>9
<1>11. ASSUME NEW i \in 2..Len(answer) PROVE answer[i] = old[i - 1]
  <2>1. i \in 1..m /\ i \in 1..(c + 1) /\ i # 1 /\ i - 1 \in 1..n /\ i - 1 \in 1..c
    BY <1>1, <1>9, <1>10
  <2>2. answer[i] = Table'[s[i - 1]] /\ old[i - 1] = Table[s[i - 1]]
    BY <1>1, <1>3, <1>7, <2>1
  <2> QED
    BY <1>4, <2>1, <2>2 DEF found
<1>12. ASSUME old # << >> PROVE LeadsTo(old[1].status, answer[1].status)
  <2>1. 1 \in 1..n /\ 1 \in 1..c
    <3>1. n # 0
      BY <1>1, <1>12
    <3> QED
      BY <1>1, <1>9, <3>1
  <2>2. old[1] = Table[s[1]] /\ answer[1] = Table'[new] /\ s[1] \in found
    BY <1>1, <1>3, <1>4, <1>7, <1>9, <2>1
  <2> QED
    BY <2>2 DEF found
<1>13. Len(answer) = IF Len(old) < InvoiceEventsLimit THEN Len(old) + 1 ELSE Len(old)
  BY <1>9, <1>10
<1> QED
  BY <1>11, <1>12, <1>13 DEF Grows, old, answer

(***************************************************************************)
(* Through crashes, failed inserts and replays, the answer about an        *)
(* invoice stays as it is or gets one event more, in front of the others,  *)
(* with a status that its lifecycle has after the one told before.         *)
(***************************************************************************)
THEOREM AnswersAreNeverTakenBack == ServerSpec => AnswersOnlyGrow
<1>1. ASSUME JInv, JInv', [ServerNext]_allVars, NEW id \in Ids
      PROVE  Grows(handleGetInvoiceEvents(id), handleGetInvoiceEvents(id)')
  <2>1. AnswersDescend /\ AnswersDescend'
    BY <1>1, TheAnswersDescend, TheNextAnswersDescend
  <2>2. /\ \A i \in 1..Len(events) : events'[i] = events[i]
        /\ \A i \in 1..Len(chain) : chain'[i] = chain[i]
        /\ Len(rows) \in Nat /\ rows \in Seq(Event)
        /\ \A i \in 1..Len(rows) : rows[i] \in 1..Len(chain) /\ rows[i] \in 1..Len(events)
    BY <1>1, StepsAppend, RowOf, Numbers DEF JInv, CInv
  <2>3. ASSUME NEW i \in 1..Len(rows), i \in 1..Len(rows'), rows'[i] = rows[i]
        PROVE  Table'[i] = Table[i] /\ events'[rows'[i]] = events[rows[i]]
    BY <2>2, <2>3 DEF Table
  <2>4. \A i \in RowsFor(id) : i \in 1..Len(rows)
    BY DEF RowsFor
  <2>5. CASE rows' = rows
    <3>1. RowsFor(id)' = RowsFor(id)
      BY <2>3, <2>5 DEF RowsFor
    <3>2. \A i \in RowsFor(id) : rows'[i] = rows[i] /\ Table'[i] = Table[i]
      BY <2>3, <2>4, <2>5
    <3> QED
      BY <2>1, <3>1, <3>2, SameRowsSameAnswer DEF Grows
  <2>6. CASE rows' # rows
    <3> DEFINE n == Len(rows)
    <3>1. /\ rows' = Append(rows, cursor) /\ cursor \notin Stored /\ cursor \in Event
          /\ pc = "streaming" /\ UNCHANGED <<events, chain>>
      BY <1>1, <2>6, StepsAppend
    <3>2. /\ Len(rows') = n + 1 /\ rows'[n + 1] = cursor
          /\ \A i \in 1..n : rows'[i] = rows[i] /\ i \in 1..Len(rows')
          /\ n + 1 \in 1..Len(rows') /\ n + 1 \notin 1..n
      BY <2>2, <3>1
    <3>3. 1..Len(rows') = 1..n \cup {n + 1}
      BY <2>2, <3>2
    <3>4. cursor \in 1..Len(events) /\ cursor \in Int
      BY <1>1, <3>1, Sizes, Numbers DEF JInv, InStep, Event, CInv
    <3>5. \A i \in 1..n : rows'[i] = rows[i] /\ Table'[i] = Table[i]
      BY <2>3, <3>2
    <3>6. RowsFor(id)' = RowsFor(id) \cup (IF events[cursor].id = id THEN {n + 1} ELSE {})
      BY <2>3, <3>1, <3>2, <3>3 DEF RowsFor
    <3>7. CASE events[cursor].id # id
      <4>1. RowsFor(id)' = RowsFor(id)
        BY <3>6, <3>7
      <4> QED
        BY <2>1, <2>4, <3>5, <4>1, SameRowsSameAnswer DEF Grows
    <3>8. CASE events[cursor].id = id
      <4>1. RowsFor(id)' = RowsFor(id) \cup {n + 1} /\ n + 1 \notin RowsFor(id)
        BY <2>4, <3>2, <3>6, <3>8
      <4>2. \A i \in RowsFor(id) : rows[i] < rows'[n + 1]
        BY <1>1, <2>4, <3>1, <3>2, <3>8, NewRowIsTheNewest DEF RowsFor
      <4>3. Table'[n + 1].status = events[cursor].status
        BY <3>1, <3>2 DEF Table
      <4>4. ASSUME NEW i \in RowsFor(id)
            PROVE  LeadsTo(Table[i].status, Table'[n + 1].status)
        <5>1. i \in 1..n /\ events[rows[i]].id = events[cursor].id
          BY <3>8 DEF RowsFor
        <5>2. rows[i] < cursor /\ rows[i] \in 1..Len(events)
          BY <2>2, <3>2, <4>2, <5>1
        <5>3. LeadsTo(events[rows[i]].status, events[cursor].status)
          BY <1>1, <3>4, <5>1, <5>2 DEF JInv, HistoriesLead
        <5> QED
          BY <1>1, <4>3, <5>1, <5>3, RowOf
      <4> HIDE DEF n
      <4> QED
        BY <1>1, <2>1, <2>4, <3>2, <3>4, <3>5, <4>1, <4>2, <4>4, NewRowComesFirst DEF n
    <3> QED
      BY <3>7, <3>8
  <2> QED
    BY <2>5, <2>6
<1>2. JInv /\ JInv' /\ [ServerNext]_allVars
        => [\A id \in Ids :
              Grows(handleGetInvoiceEvents(id), handleGetInvoiceEvents(id)')]_allVars
  BY <1>1
<1> QED
  BY <1>2, ServerInvariance, PTL DEF ServerSpec, AnswersOnlyGrow

(***************************************************************************)
(* The events of an invoice are the same under every spelling of its id,   *)
(* and GET /events finds under another spelling than the canonical one     *)
(* nothing, never the events of another invoice.                           *)
(***************************************************************************)
THEOREM SpellingFindsNothingElse == ServerSpec => []SpellingOfTheId
<1>1. ASSUME JInv, NEW raw \in RawIds, Canonical[raw] # Absent, NEW limit \in 0..2
      PROVE  /\ handleGetInvoiceEvents(raw) = handleGetInvoiceEvents(Canonical[raw])
             /\ handleQueryEvents(raw, Unfiltered, limit) \in
                  {<< >>, handleQueryEvents(Canonical[raw], Unfiltered, limit)}
  <2>1. /\ Canonical[raw] \in Ids /\ ToUpper[TrimSpace[raw]] = Canonical[raw]
        /\ ToUpper[TrimSpace[Canonical[raw]]] = Canonical[raw]
    BY <1>1, CanonicalIsId, ContractAssumption DEF ContractAssumption, ValidInvoiceID
  <2>2. handleGetInvoiceEvents(raw) = handleGetInvoiceEvents(Canonical[raw])
    BY <1>1, <2>1 DEF handleGetInvoiceEvents
  <2>3. ASSUME raw # Canonical[raw] PROVE handleQueryEvents(raw, Unfiltered, limit) = << >>
    <3>1. raw \notin Ids /\ raw # Unfiltered
      BY <1>1, <2>3, IdsAreCanonical, UnfilteredIsNoId DEF UnfilteredIsNoId
    <3>2. \A i \in 1..Len(rows) : Table[i].invoice \in Ids
      <4>1. \A i \in 1..Len(events) : events[i] \in Events
        BY <1>1, EventsAreTyped DEF JInv, LogInv, IInv
      <4> QED
        BY <1>1, <4>1, RowOf DEF Events
    <3>3. Matching(raw, Unfiltered) = {}
      BY <3>1, <3>2 DEF Matching
    <3> DEFINE asked == IF limit > 0 THEN limit ELSE DefaultLimit
    <3>4. Clamp(asked) \in Nat /\ Cardinality(Matching(raw, Unfiltered)) = 0
      BY <3>3, LimitAssumption, FS_EmptySet DEF LimitAssumption, Clamp
    <3>5. ~(0 > Clamp(asked))
      BY <3>4
    <3>6. handleQueryEvents(raw, Unfiltered, limit)
            = [k \in 1..0 |-> Table[InOrder(Matching(raw, Unfiltered))[k]]]
      BY <3>4, <3>5 DEF handleQueryEvents, QueryEvents
    <3> QED
      BY <3>6
  <2> QED
    BY <2>2, <2>3
<1>2. JInv => SpellingOfTheId
  BY <1>1 DEF SpellingOfTheId
<1> QED
  BY <1>2, ServerInvariance, PTL
=============================================================================
