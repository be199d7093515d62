----------------------------- MODULE ReviewJob ------------------------------
(***************************************************************************)
(* What a review job promises: the batches that were kept are kept until   *)
(* the result is saved, a result is saved only when its file has every     *)
(* batch, and a saved result stays.  It promises so as long as nothing     *)
(* disturbs the job.                                                       *)
(***************************************************************************)
EXTENDS Integers

CONSTANTS Job, Batches

VARIABLES kept, result, file, disturbed

vars == <<kept, result, file, disturbed>>

Init ==
    /\ kept = [j \in Job |-> {}] /\ file = [j \in Job |-> {}]
    /\ result = [j \in Job |-> "none"]
    /\ disturbed = FALSE

\* Batches are kept in their order, and one that comes twice counts once.
Keep(j) ==
    /\ result[j] # "saved"
    /\ \E b \in 1..Batches : 1..b - 1 \subseteq kept[j] /\ kept' = [kept EXCEPT ![j] = @ \cup {b}]
    /\ UNCHANGED <<result, file>>

\* The job waits for a person, goes on, or ends in an error.
Change(j) ==
    /\ result[j] # "saved"
    /\ \E r \in {"none", "awaiting", "error"} : result' = [result EXCEPT ![j] = r]
    /\ UNCHANGED <<kept, file>>

Write(j) ==
    /\ result[j] # "saved" /\ kept[j] = 1..Batches
    /\ file' = [file EXCEPT ![j] = kept[j]]
    /\ UNCHANGED <<kept, result>>

Save(j) ==
    /\ file[j] = 1..Batches
    /\ result' = [result EXCEPT ![j] = "saved"]
    /\ kept' = [kept EXCEPT ![j] = {}]
    /\ UNCHANGED file

Next ==
    \/ UNCHANGED disturbed /\ \E j \in Job : Keep(j) \/ Change(j) \/ Write(j) \/ Save(j)
    \/ disturbed'

Spec == Init /\ [][Next]_vars
=============================================================================
