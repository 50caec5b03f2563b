-------------------------- MODULE MCInvoiceLedger --------------------------
(***************************************************************************)
(* Instances of InvoiceLedger for TLC; the inductive invariant comes from  *)
(* the proofs.                                                             *)
(***************************************************************************)
EXTENDS InvoiceLedgerProofs

\* One invoice under its canonical id and under another spelling of it.
OneId == {"INV-1"}
TwoRawIds == {"INV-1", "inv-1"}
Upper == [r \in TwoRawIds |-> "INV-1"]
NoSpaces == [r \in TwoRawIds |-> r]

Itself == [r \in OneId |-> r]

TwoIds == {"INV-1", "INV-2"}
EitherItself == [r \in TwoIds |-> r]

SmallAmounts == 0..2
OneAmount == {1}
OneText == {"ok"}
BothTexts == {"ok", "malformed"}
=============================================================================
