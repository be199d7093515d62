--------------------------- MODULE ApprovedPrice ---------------------------
(***************************************************************************)
(* What the profit guard promises: a recommendation is decided on once,    *)
(* and the shop is only ever given the price of an approved one.           *)
(***************************************************************************)
CONSTANT Rec
VARIABLES decision,   \* "open", "approved" or "refused", for good
          sold        \* recommendations whose price the shop was given

Init == decision = [r \in Rec |-> "open"] /\ sold = {}

Decide(r) == /\ decision[r] = "open"
             /\ \E d \in {"approved", "refused"} : decision' = [decision EXCEPT ![r] = d]
             /\ UNCHANGED sold

Sell(r) == /\ decision[r] = "approved"
           /\ sold' = sold \cup {r}
           /\ UNCHANGED decision

Next == \E r \in Rec : Decide(r) \/ Sell(r)
Spec == Init /\ [][Next]_<<decision, sold>>
=============================================================================
