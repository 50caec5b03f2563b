------------------------------ MODULE ApiCall ------------------------------
(***************************************************************************)
(* What the POST endpoints of the API server promise to a client that      *)
(* repeats its request until it knows what became of it.  A request takes  *)
(* effect on the ledger at most once.  "OK" is said after the effect.      *)
(* After "refused" there is no effect any more: either there never was     *)
(* one, or it came while the client knew nothing and the refusal is the    *)
(* answer to a repetition.  After "unknown" the effect may still come.     *)
(* InvoiceApi implements this specification.                               *)
(***************************************************************************)
EXTENDS Naturals

CONSTANT Clients

VARIABLES
  told,  \* what the client has been told: "nothing", "OK", "refused", "unknown"
  done   \* how often its request has taken effect

Init == told = [c \in Clients |-> "OK"] /\ done = [c \in Clients |-> 1]

\* A new request; what became of the one before it is no longer its concern.
Ask(c) ==
  /\ told[c] # "nothing"
  /\ told' = [told EXCEPT ![c] = "nothing"]
  /\ done' = [done EXCEPT ![c] = 0]

TakeEffect(c) ==
  /\ told[c] \in {"nothing", "unknown"}
  /\ done[c] = 0
  /\ done' = [done EXCEPT ![c] = 1]
  /\ UNCHANGED told

SayOK(c) ==
  /\ told[c] = "nothing" /\ done[c] = 1
  /\ told' = [told EXCEPT ![c] = "OK"]
  /\ UNCHANGED done

Refuse(c) ==
  /\ told[c] = "nothing"
  /\ told' = [told EXCEPT ![c] = "refused"]
  /\ UNCHANGED done

\* One server that stops leaves several clients without an answer.
LeaveUnknown(C) ==
  /\ \A c \in C : told[c] = "nothing"
  /\ told' = [c \in Clients |-> IF c \in C THEN "unknown" ELSE told[c]]
  /\ UNCHANGED done

Repeat(c) ==
  /\ told[c] = "unknown"
  /\ told' = [told EXCEPT ![c] = "nothing"]
  /\ UNCHANGED done

Next ==
  \/ \E c \in Clients : Ask(c) \/ TakeEffect(c) \/ SayOK(c) \/ Refuse(c) \/ Repeat(c)
  \/ \E C \in SUBSET Clients : LeaveUnknown(C)

Spec == Init /\ [][Next]_<<told, done>>
=============================================================================
