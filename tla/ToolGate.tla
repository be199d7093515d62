------------------------------ MODULE ToolGate ------------------------------
(***************************************************************************)
(* What a session promises about tools and consent, whatever turns,        *)
(* coroutines, sockets and restarts it is made of: a prompt is raised, the *)
(* first answer to it is final, and a tool that needs consent runs only    *)
(* while its prompt stands approved.                                       *)
(***************************************************************************)
EXTENDS Naturals

CONSTANTS Call, CallId, IdOf, KindOf

VARIABLES verdict,   \* what became of the prompt of each tool-call id
          runs       \* how often each call's tool was started

gateVars == <<verdict, runs>>

Init == /\ verdict = [i \in CallId |-> "none"]
        /\ runs = [c \in Call |-> 0]

Ask(i) == /\ verdict[i] = "none"
          /\ verdict' = [verdict EXCEPT ![i] = "pending"]
          /\ UNCHANGED runs

Answer(i, d) == /\ verdict[i] = "pending"
                /\ verdict' = [verdict EXCEPT ![i] = d]
                /\ UNCHANGED runs

MayRun(c) == \/ KindOf[c] = "auto"
             \/ KindOf[c] = "ask" /\ verdict[IdOf[c]] = "allow"

Perform(S) == /\ \A c \in S : MayRun(c)
              /\ runs' = [c \in Call |-> IF c \in S THEN runs[c] + 1 ELSE runs[c]]
              /\ UNCHANGED verdict

Next == \/ \E i \in CallId : Ask(i)
        \/ \E i \in CallId, d \in {"allow", "deny"} : Answer(i, d)
        \/ \E S \in SUBSET Call : Perform(S)

Spec == Init /\ [][Next]_gateVars
=============================================================================
