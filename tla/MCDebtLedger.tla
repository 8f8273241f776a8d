---------------------------- MODULE MCDebtLedger ----------------------------
(***************************************************************************)
(* All debts have one direction; the other differs in the operation types  *)
(* it accepts.  Templates and users are interchangeable.                   *)
(***************************************************************************)
EXTENDS DebtLedger, TLC

AllPayable == [d \in Debts |-> "Payable"]
AllReceivable == [d \in Debts |-> "Receivable"]

MCSymmetry == Permutations(Users) \cup Permutations(Templates) \cup Permutations(Debts)
=============================================================================
