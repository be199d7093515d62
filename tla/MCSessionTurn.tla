--------------------------- MODULE MCSessionTurn ---------------------------
(***************************************************************************)
(* Instances of SessionTurn small enough for TLC.                          *)
(***************************************************************************)
EXTENDS SessionTurn, TLC

CONSTANTS i1, i2, i3, i4

\* Ids as a provider with unique ids hands them out.
FreshIds    == [c \in Call |-> IF c = 1 THEN i1 ELSE IF c = 2 THEN i2
                               ELSE IF c = 3 THEN i3 ELSE i4]

\* Tools declared low-risk, independently of what the permission engine says of a call.
SecondIsLow == Call \cap {2}

\* What the permission engine says of the calls, by position.
AskAsk      == [c \in Call |-> "ask"]
AskQuestion == [c \in Call |-> IF c = 1 THEN "ask" ELSE "question"]
AllKinds    == [c \in Call |-> IF c = 1 THEN "auto" ELSE IF c = 2 THEN "ask"
                               ELSE IF c = 3 THEN "question" ELSE "blocked"]

Symmetry == Permutations(Task)
=============================================================================
