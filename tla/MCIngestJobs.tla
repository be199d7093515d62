---------------------------- MODULE MCIngestJobs ----------------------------
(***************************************************************************)
(* Instances of IngestJobs small enough for TLC.                           *)
(***************************************************************************)
EXTENDS IngestJobs

\* One run's requests, and those the helper still has.
Ids == 1..4

Jobs == 0..Cardinality(Job)

\* With one job, three faults of any kind, and the socket lost twice; with two jobs,
\* two of those that do not disturb them.
ThreeOrTwo == [n \in Jobs |-> IF n <= 1 THEN 3 ELSE 2]

AnyOrCalm ==
    [n \in Jobs |->
        [f \in Fault |->
            IF f = "drop" THEN 2
            ELSE IF n <= 1 \/ f \in {"challenge", "failure", "resend", "alarm"} THEN 1 ELSE 0]]
=============================================================================
