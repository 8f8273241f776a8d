-------------------------- MODULE MCFinancialCache --------------------------
(***************************************************************************)
(* Two requests and as many commits as there are fresh revisions.          *)
(***************************************************************************)
EXTENDS FinancialCache, TLC

\* A read that uses another cached read.
NestedQueries == ("summary" :> {"transactions"} @@ "balances" :> {"accounts"})
NestedUses == ("summary" :> {"balances"} @@ "balances" :> {})

\* A commit picks any unused uuid, and requests are alike.
MCSymmetry == Permutations(Callers) \cup Permutations(Revisions \ {Empty})
=============================================================================
