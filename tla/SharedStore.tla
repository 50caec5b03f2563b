----------------------------- MODULE SharedStore -----------------------------
(***************************************************************************)
(* Two API server processes of one organization (cmd/fintrust-api/main.go).*)
(* Their database file is named after the organization and SQLite lets     *)
(* both open it, so from the moment that the second process is started     *)
(* there are two event consumers on one projection.  main starts the       *)
(* consumer before it listens: a process that is started a second time by  *)
(* mistake, or while its predecessor is still shutting down, consumes      *)
(* until it finds the port taken; one that is given a port of its own goes *)
(* on for ever.                                                            *)
(*                                                                         *)
(* Each process is an EventConsumer; rows and checkpoint are shared.       *)
(***************************************************************************)
EXTENDS Integers, Sequences, FiniteSets

CONSTANTS
  MaxBlocks, MaxEventsPerBlock, MaxFaults, StoreMayFail,
  MaxStarts   \* times that a process is started

ASSUME SharedAssumption == MaxStarts \in Nat

VARIABLES
  samePort,            \* whether both are configured to listen on the same port
  chain, height,       \* the event log
  rows, checkpoint,    \* the database
  faults,
  pcA, startBlockA, cursorA, cancelledA, skippedA,   \* one process
  pcB, startBlockB, cursorB, cancelledB, skippedB,   \* the other
  listening,           \* the processes that have bound their port
  starts               \* how often one has been started

shared == <<chain, height, rows, checkpoint, faults>>
ownA == <<pcA, startBlockA, cursorA, cancelledA, skippedA>>
ownB == <<pcB, startBlockB, cursorB, cancelledB, skippedB>>
vars == <<samePort, shared, ownA, ownB, listening, starts>>

A == INSTANCE EventConsumer WITH pc <- pcA, startBlock <- startBlockA,
       cursor <- cursorA, cancelled <- cancelledA, skipped <- skippedA
B == INSTANCE EventConsumer WITH pc <- pcB, startBlock <- startBlockB,
       cursor <- cursorB, cancelled <- cancelledB, skipped <- skippedB

\* Nothing is running, and there is neither a database nor a block.
Init ==
  /\ samePort \in BOOLEAN
  /\ chain = << >> /\ height = 0
  /\ rows = << >> /\ checkpoint = -1
  /\ faults = 0 /\ listening = {} /\ starts = 0
  /\ pcA = "down" /\ startBlockA = 0 /\ cursorA = 1 /\ cancelledA = FALSE /\ skippedA = {}
  /\ pcB = "down" /\ startBlockB = 0 /\ cursorB = 1 /\ cancelledB = FALSE /\ skippedB = {}

-----------------------------------------------------------------------------
\* Blocks without events of the chaincode, of which no consumer hears, are left out.
CommitBlock(n) == A!CommitBlock(n) /\ UNCHANGED <<samePort, ownB, listening, starts>>

\* main, up to the start of the consumer's goroutine.
CanStart == starts < MaxStarts /\ starts' = starts + 1

StartA == CanStart /\ A!Restart /\ UNCHANGED <<samePort, ownB, listening>>
StartB == CanStart /\ B!Restart /\ UNCHANGED <<samePort, ownA, listening>>

ConsumeA == A!Consume /\ UNCHANGED <<samePort, ownB, listening, starts>>
ConsumeB == B!Consume /\ UNCHANGED <<samePort, ownA, listening, starts>>

PortTaken == samePort /\ listening # {}

\* As if a server that cannot listen only logged it.
ListenLogsErrorA ==
  /\ pcA # "down" /\ ~cancelledA /\ "A" \notin listening
  /\ ~PortTaken
  /\ listening' = listening \cup {"A"}
  /\ UNCHANGED <<samePort, shared, ownA, ownB, starts>>

\* ListenAndServe; a port that is taken is fatal, consumer and all.
ListenA ==
  /\ pcA # "down" /\ ~cancelledA /\ "A" \notin listening
  /\ IF PortTaken THEN pcA' = "down" /\ UNCHANGED listening
                  ELSE listening' = listening \cup {"A"} /\ UNCHANGED pcA
  /\ UNCHANGED <<samePort, shared, startBlockA, cursorA, cancelledA, skippedA, ownB,
                 starts>>

ListenB ==
  /\ pcB # "down" /\ ~cancelledB /\ "B" \notin listening
  /\ IF PortTaken THEN pcB' = "down" /\ UNCHANGED listening
                  ELSE listening' = listening \cup {"B"} /\ UNCHANGED pcB
  /\ UNCHANGED <<samePort, shared, startBlockB, cursorB, cancelledB, skippedB, ownA,
                 starts>>

\* SIGTERM: the consumer's context is cancelled, and Shutdown closes the listener
\* first and then waits for the calls; the successor may be up before the end.
StopA == A!Cancel /\ listening' = listening \ {"A"} /\ UNCHANGED <<samePort, ownB, starts>>
StopB == B!Cancel /\ listening' = listening \ {"B"} /\ UNCHANGED <<samePort, ownA, starts>>

ExitA == A!Exit /\ listening' = listening \ {"A"} /\ UNCHANGED <<samePort, ownB, starts>>
ExitB == B!Exit /\ listening' = listening \ {"B"} /\ UNCHANGED <<samePort, ownA, starts>>

Next ==
  \/ \E n \in 1..MaxEventsPerBlock : CommitBlock(n)
  \/ StartA \/ ConsumeA \/ ListenA \/ StopA \/ ExitA
  \/ StartB \/ ConsumeB \/ ListenB \/ StopB \/ ExitB

\* The goroutines of both processes run.
Spec ==
  /\ Init /\ [][Next]_vars
  /\ WF_vars(ConsumeA) /\ WF_vars(ConsumeB)
  /\ WF_vars(ListenA) /\ WF_vars(ListenB)

-----------------------------------------------------------------------------
(***************************************************************************)
(* Properties.                                                             *)
(***************************************************************************)
(***************************************************************************)
(* While no insert fails, two consumers that write to one database, one of *)
(* them far behind the other or started from an old checkpoint, still make *)
(* it a prefix of the event log.                                           *)
(***************************************************************************)
Refused == skippedA \cup skippedB

RowsArePrefix == Refused = {} => rows = [i \in 1..Len(rows) |-> i]

(***************************************************************************)
(* The slower consumer takes the checkpoint back, behind what the faster   *)
(* one has stored.  Still nothing is stored twice, and the checkpoint,     *)
(* whichever of the two wrote it last, never names a block beyond an event *)
(* that is missing and whose insert was not refused to one of them: a      *)
(* restart loses nothing else.                                             *)
(***************************************************************************)
RestartLosesNothing ==
  /\ \A e \in A!Passed \ A!Stored : e \in Refused
  /\ \A i, j \in 1..Len(rows) : rows[i] = rows[j] => i = j

(***************************************************************************)
(* The database cannot tell that there are two of them: every event is     *)
(* added in its turn, after all the events before it have been added or    *)
(* refused, be it by the one process or by the other.                      *)
(***************************************************************************)
Projection ==
  INSTANCE EventProjection WITH log <- chain, table <- rows, refused <- Refused

ImplementsProjection == Projection!Spec

(***************************************************************************)
(* When either of them has nothing more to read, neither has anything to   *)
(* store: whatever the checkpoint went through, all events are stored, or  *)
(* were refused to the one or to the other.                                *)
(***************************************************************************)
IdleMissesNothing == A!Idle \/ B!Idle => A!Event \ A!Stored \subseteq Refused

(***************************************************************************)
(* A second process on the same port does not stay: in the end there is    *)
(* one consumer again, although both went to work on the projection.       *)
(***************************************************************************)
OneConsumerRemains == samePort => []<>~(A!Up /\ B!Up)

(***************************************************************************)
(* If one of the processes stays up, whatever the other does to the common *)
(* checkpoint, every event that was not refused is projected in the end.   *)
(***************************************************************************)
EventuallyProjected ==
  (<>[]A!Up \/ <>[]B!Up) => []<>(A!Event \ A!Stored \subseteq Refused)
=============================================================================
