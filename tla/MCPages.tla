-------------------------------- MODULE MCPages --------------------------------
(* Values for the pages: addresses in normal form, another spelling of one  *)
(* and a text that is none; three accounts, two of them in one currency;    *)
(* three number formats, one without decimals.                              *)
EXTENDS Pages

MCSpellings == Addresses \cup {"spelled differently", "no address"}

MCNormal ==
    [t \in MCSpellings |->
        CASE t \in Addresses -> t
          [] t = "spelled differently" -> CHOOSE a \in Addresses : TRUE
          [] t = "no address" -> None]

MCReported == {Addresses}

MCCurrencyOf == <<"EUR", "HUF", "EUR">>

MCFormats == {[places |-> 2, decimal |-> ",", thousands |-> "."],
              [places |-> 1, decimal |-> ".", thousands |-> ","],
              [places |-> 0, decimal |-> ",", thousands |-> " "]}

MCStored == {<<>>, <<"7", ".", "0", "7">>, <<"-", "7", "0", "0", "7", ".", "5">>}
=============================================================================
