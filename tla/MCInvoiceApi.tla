---------------------------- MODULE MCInvoiceApi ----------------------------
(***************************************************************************)
(* Instances of InvoiceApi for TLC.                                        *)
(***************************************************************************)
EXTENDS InvoiceApi, TLC

SwapClients == Permutations(Clients)

OneId == {"INV-1"}
Itself == [r \in OneId |-> r]

\* Four spellings of one id, and a string that is refused.
FiveRawIds == {"INV-1", "inv-1", " INV-1", " inv-1", "?"}
Trimmed == [r \in FiveRawIds |-> CASE r = " INV-1" -> "INV-1"
                                    [] r = " inv-1" -> "inv-1"
                                    [] OTHER -> r]
Upper == [r \in FiveRawIds |-> CASE r = "inv-1"  -> "INV-1"
                                  [] r = " inv-1" -> " INV-1"
                                  [] OTHER -> r]

OneAmount == {1}
TwoAmounts == {1, 2}
ZeroAndOne == {0, 1}
OneText == {"ok"}

Call(op, org, raw) ==
  [op |-> op, org |-> org, raw |-> raw, complete |-> TRUE, buyer |-> "BuyerMSP",
   amount |-> 1, asked |-> 1, text |-> "ok"]

\* Every function called by the organization it is for.
ProperCalls == {Call(op, CallerOf(op), "INV-1") : op \in Operations}

EarlyCalls == {q \in ProperCalls :
                 q.op \in {"CreateInvoice", "ApproveInvoice", "RejectInvoice"}}

\* Two that depend on one another, and one that is never accepted.
GoodAndBadCalls ==
  {Call("CreateInvoice", "SupplierMSP", " inv-1"),
   Call("ApproveInvoice", "BuyerMSP", "INV-1"),
   [Call("CreateInvoice", "SupplierMSP", "inv-1") EXCEPT !.amount = 0]}

\* Callers, spellings, amounts and bodies that go wrong, besides those that do not.
AllCalls ==
  ProperCalls
  \cup {[q EXCEPT !.raw = " inv-1"] : q \in {p \in ProperCalls :
          p.op \in {"CreateInvoice", "RequestFinancing", "FinanceInvoice"}}}
  \cup {Call("ApproveInvoice", "SupplierMSP", "INV-1"),
        Call("SettleInvoice", "BuyerMSP", "?"),
        [Call("CreateInvoice", "SupplierMSP", "INV-1") EXCEPT !.buyer = "FinanceMSP"],
        [Call("CreateInvoice", "SupplierMSP", "INV-1") EXCEPT !.amount = 2],
        [Call("RequestFinancing", "SupplierMSP", "INV-1") EXCEPT !.amount = 2],
        [Call("FinanceInvoice", "FinanceMSP", "INV-1") EXCEPT !.asked = 2],
        [Call("FinanceInvoice", "FinanceMSP", "INV-1") EXCEPT !.complete = FALSE]}
=============================================================================
