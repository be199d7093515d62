---------------------------- MODULE MCAutomation ----------------------------
(***************************************************************************)
(* Instances of Automation small enough for TLC.                           *)
(***************************************************************************)
EXTENDS Automation

CONSTANTS early, late, s1, s2, s3, k1, k2

\* One run of a task and two of another that comes due while it may be parked, and an
\* editor of each.
TaskOfEach == [p \in Slot \cup Worker |-> IF p \in {s1, k1} THEN early ELSE late]
Times      == [t \in Task |-> IF t = early THEN {1} ELSE {2}]

\* The early one is a one-time fire_at.
OneOfEarly == [t \in Task |-> IF t = early THEN 1 ELSE 0]

\* Timers that go off after the early run has started.
AtTwo == [w \in Wake |-> 2]
=============================================================================
