------------------------------ MODULE MCMoneyInput ------------------------------
(* A currency formatted without decimals, and an amount stored with one.    *)
EXTENDS MoneyInput

WholeUnits == {[places |-> 0, decimal |-> ",", thousands |-> " "]}

StoredHalf == {<<"7", ".", "5">>}
=============================================================================
