----------------------------- MODULE MCFinTrust -----------------------------
(***************************************************************************)
(* Instances of FinTrust for TLC; the inductive invariant comes from the   *)
(* proofs.                                                                 *)
(***************************************************************************)
EXTENDS FinTrustProofs

TwoIds == {"INV-1", "INV-2"}
\* Other spellings of one of them, and ids that are refused.
SomeRawIds == TwoIds \cup {"inv-1", " inv-1", " INV-1", " ", Unfiltered}
Trimmed == [r \in SomeRawIds |-> CASE r = " inv-1" -> "inv-1"
                                    [] r = " INV-1" -> "INV-1"
                                    [] r = " " -> Unfiltered
                                    [] OTHER -> r]
Upper == [r \in SomeRawIds |-> CASE r = "inv-1" -> "INV-1"
                                  [] r = " inv-1" -> " INV-1"
                                  [] OTHER -> r]

OneAmount == {1}
OneText == {"ok"}
=============================================================================
