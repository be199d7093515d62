--------------------------- MODULE CommandOutcome ---------------------------
(***************************************************************************)
(* What the browser gateway promises of a command: it is answered once,    *)
(* and with what the extension did, if that is what the answer says.       *)
(***************************************************************************)
CONSTANTS Call, Cmd, NoCmd
VARIABLES cmd,       \* the command each call is about
          performed, \* commands the extension carried out
          refused,   \* commands that failed there
          withdrawn, \* commands it took back on request
          answer     \* what each call was told; "none": nothing yet

Init == /\ cmd = [c \in Call |-> NoCmd] /\ answer = [c \in Call |-> "none"]
        /\ performed = {} /\ refused = {} /\ withdrawn = {}

\* What a call about command m may be told now.
MayTell(m) == {"unknown"} \cup (IF m \in performed THEN {"ok"} ELSE {})
              \cup (IF m \in refused THEN {"failed"} ELSE {})
              \cup (IF m \in withdrawn THEN {"cancelled"} ELSE {})

\* A call begins, and may be answered at once.
Ask(c) == /\ cmd[c] = NoCmd /\ answer[c] = "none"
          /\ \E m \in Cmd : /\ cmd' = [cmd EXCEPT ![c] = m]
                            /\ \E a \in MayTell(m) \cup {"none"} :
                                  answer' = [answer EXCEPT ![c] = a]
          /\ UNCHANGED <<performed, refused, withdrawn>>

\* What the extension does, in any order, as often as it is told to.
Perform(m)  == performed' = performed \cup {m} /\ UNCHANGED <<cmd, refused, withdrawn, answer>>
Refuse(m)   == refused' = refused \cup {m} /\ UNCHANGED <<cmd, performed, withdrawn, answer>>
Withdraw(m) == withdrawn' = withdrawn \cup {m} /\ UNCHANGED <<cmd, performed, refused, answer>>

Answer(c) == /\ cmd[c] # NoCmd /\ answer[c] = "none"
             /\ \E a \in MayTell(cmd[c]) : answer' = [answer EXCEPT ![c] = a]
             /\ UNCHANGED <<cmd, performed, refused, withdrawn>>

Next == \/ \E c \in Call : Ask(c) \/ Answer(c)
        \/ \E m \in Cmd : Perform(m) \/ Refuse(m) \/ Withdraw(m)
Spec == Init /\ [][Next]_<<cmd, performed, refused, withdrawn, answer>>
=============================================================================
