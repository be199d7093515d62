-------------------------- MODULE MCQuotaRecovery --------------------------
(***************************************************************************)
(* Instances of QuotaRecovery small enough for TLC.                        *)
(***************************************************************************)
EXTENDS QuotaRecovery

\* Two models of one provider and one of another.
TwoProviders == [m \in Model |-> IF m <= 2 THEN "gemini" ELSE "openai"]

\* The shape of (20, 45, 90, 180, 300): growing, and not dividing the budget.
Growing == [i \in 1..NumBackoffs |-> i + 1]
=============================================================================
