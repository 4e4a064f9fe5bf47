--------------------------- MODULE PaymentLedger ----------------------------
(***************************************************************************)
(* What one sale's ledger promises its owner: money is recorded one entry  *)
(* at a time, the balance moves with every entry and with nothing else, it *)
(* never goes below nothing or above what is due, a settled sale is one    *)
(* whose balance covers what is due, and only money coming in opens        *)
(* fulfilment.                                                             *)
(***************************************************************************)
EXTENDS Naturals

CONSTANTS DueAmounts, EntryAmounts, FeeAmounts

VARIABLES due, balance, entered, settled, open

ledgerVars == <<due, balance, entered, settled, open>>

Covers(b, d) == b > 0 /\ b >= d

Init ==
    /\ due \in DueAmounts
    /\ balance \in 0 .. due /\ entered = balance
    /\ settled = Covers(balance, due)
    /\ open \in BOOLEAN /\ (balance > 0 => open)

Pay(amount) ==
    /\ balance + amount <= due
    /\ balance' = balance + amount /\ entered' = entered + amount
    /\ settled' = Covers(balance', due)
    /\ open' = TRUE
    /\ UNCHANGED due

Refund(amount) ==
    /\ amount <= balance
    /\ balance' = balance - amount /\ entered' = entered - amount
    /\ settled' = Covers(balance', due)
    /\ UNCHANGED <<due, open>>

Charge(fee) ==
    /\ fee > 0
    /\ due' = due + fee
    /\ settled' = FALSE
    /\ UNCHANGED <<balance, entered, open>>

Next == \/ \E amount \in EntryAmounts : Pay(amount) \/ Refund(amount)
        \/ \E fee \in FeeAmounts : Charge(fee)

Spec == Init /\ [][Next]_ledgerVars
=============================================================================
