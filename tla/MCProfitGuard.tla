--------------------------- MODULE MCProfitGuard ---------------------------
(***************************************************************************)
(* Instances of ProfitGuard small enough for TLC.                          *)
(***************************************************************************)
EXTENDS ProfitGuard, TLC

\* A floor of 14.0 above any price but the highest.
Costly == [fixed |-> 100, rate |-> 9, margin |-> 15, step |-> 10, linked |-> TRUE]
\* A floor of 8.0 below every price.
Cheap == [fixed |-> 71, rate |-> 0, margin |-> 10, step |-> 30, linked |-> FALSE]

TwoProfiles == {Costly, Cheap}

TwoQuotes == {<<104, 0>>, <<104, 136>>}

Symmetry == Permutations(Caller)
=============================================================================
