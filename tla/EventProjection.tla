-------------------------- MODULE EventProjection --------------------------
(***************************************************************************)
(* What the store promises about the events of the ledger, with no stream, *)
(* process or crash in sight: a table to which one event at a time is      *)
(* added, in one step with the checkpoint, and never before all the events *)
(* that the ledger emitted before it have been added or refused.           *)
(* EventConsumer implements this specification, and SharedStore, with its  *)
(* two processes on one database, implements it as well.                   *)
(***************************************************************************)
EXTENDS Integers, Sequences

VARIABLES
  log,         \* for each event of the ledger, the number of its block
  table,       \* the events that have been added, in that order
  checkpoint,  \* the block of the event that was seen last, or -1
  refused      \* the events whose insert failed

Event == 1..Len(log)
Recorded == {table[i] : i \in 1..Len(table)}

Init == log = << >> /\ table = << >> /\ checkpoint = -1 /\ refused = {}

\* The ledger emits the events of a further block.
Emit ==
  /\ Len(log') > Len(log)
  /\ \A i \in Event : log'[i] = log[i]
  /\ \A i, j \in 1..Len(log') : i < j =>
       IF i \in Event /\ j \notin Event THEN log'[i] < log'[j]
       ELSE i \notin Event => log'[i] = log'[j]
  /\ UNCHANGED <<table, checkpoint, refused>>

\* It is the turn of an event when nothing before it is outstanding.
Due(e) == \A d \in Event : d < e => d \in Recorded \cup refused

\* An event may be seen again: then it is already in the table.
Project(e) ==
  /\ Due(e)
  /\ table' = IF e \in Recorded THEN table ELSE Append(table, e)
  /\ checkpoint' = log[e]
  /\ UNCHANGED <<log, refused>>

Refuse(e) ==
  /\ Due(e)
  /\ refused' = refused \cup {e}
  /\ UNCHANGED <<log, table, checkpoint>>

Next == Emit \/ \E e \in Event : Project(e) \/ Refuse(e)

Spec == Init /\ [][Next]_<<log, table, checkpoint, refused>>
=============================================================================
