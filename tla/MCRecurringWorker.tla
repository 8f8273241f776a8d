-------------------------- MODULE MCRecurringWorker --------------------------
(***************************************************************************)
(* One template and two instances; nothing is assumed of the first date.   *)
(***************************************************************************)
EXTENDS RecurringWorker

FirstDay == {1}
=============================================================================
