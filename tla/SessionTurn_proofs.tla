------------------------- MODULE SessionTurn_proofs -------------------------
(***************************************************************************)
(* Theorems about SessionTurn, for all values of its constants: types,     *)
(* one driver at a time, consent (SessionTurn implements ToolGate), and    *)
(* what follows from it.                                                   *)
(***************************************************************************)
EXTENDS SessionTurn, TLAPS, FiniteSetTheorems

\* Where a task may stand.
Label == {"idle", "claimed", "model", "authorize", "proposed", "parked", "gather", "serial",
          "starting", "tool", "ending"}

-----------------------------------------------------------------------------
(* Histories stay histories.                                               *)

\* Appending a user message keeps the type of a history.
LEMMA AddUserType ==
    ASSUME NEW h \in History, NEW notes \in SUBSET Note
    PROVE  AddUser(h, notes) \in History
BY DEF AddUser, History

\* Appending an assistant message with k calls does, if the calls exist.
LEMMA AddRoundType ==
    ASSUME NEW h \in History, NEW k \in 1..MaxCalls, h.used + k <= NumCalls
    PROVE  AddRound(h, k) \in History
<1>1. h.used + k \in 0..NumCalls
  BY SessionAssumption DEF History
<1>2. (h.used + 1)..(h.used + k) \subseteq Call
  BY SessionAssumption DEF History, Call
<1>3. QED
  BY <1>1, <1>2 DEF AddRound, History

\* Appending tool results does.
LEMMA AddResultsType ==
    ASSUME NEW h \in History, NEW S \in SUBSET Call
    PROVE  AddResults(h, S) \in History
<1>1. [c \in Call |-> IF c \in S THEN h.answers[c] + 1 ELSE h.answers[c]] \in [Call -> Nat]
  BY DEF History
<1>2. QED
  BY <1>1 DEF AddResults, History

\* The number of items is a natural number.
LEMMA RankType ==
    ASSUME NEW S, S = {j \in CallId : item[j] # "none"}
    PROVE  1 + Cardinality(S) \in Nat
<1>1. IsFiniteSet(S)
  BY SessionAssumption, FS_Subset
<1>2. QED
  BY <1>1, FS_CardinalityType

\* Setting or clearing the error notice does.
LEMMA FailedType ==
    ASSUME NEW h \in History, NEW b \in BOOLEAN
    PROVE  [h EXCEPT !.failed = b] \in History
BY DEF History

\* Raising a prompt keeps the types of the Inbox.
LEMMA RaiseType ==
    ASSUME TypeOK, NEW c \in Call, Raise(c)
    PROVE  /\ item' \in [CallId -> {"none", "pending"} \cup Decision]
           /\ rank' \in [CallId -> Nat]
<1>1. CASE item[IdOf[c]] = "none"
  <2>1. 1 + Cardinality({j \in CallId : item[j] # "none"}) \in Nat
    BY RankType
  <2>2. QED
    BY <1>1, <2>1 DEF Raise, TypeOK
<1>2. CASE item[IdOf[c]] # "none"
  BY <1>2 DEF Raise, TypeOK, inboxVars
<1>3. QED
  BY <1>1, <1>2

\* So does resolving one.
LEMMA ResolveType ==
    ASSUME TypeOK, NEW i \in CallId, NEW d \in Decision, Resolve(i, d)
    PROVE  /\ item' \in [CallId -> {"none", "pending"} \cup Decision]
           /\ rank' \in [CallId -> Nat]
BY DEF Resolve, TypeOK

\* Dismissing and clearing calls keeps the types of what they change.
LEMMA DismissType ==
    ASSUME TypeOK, NEW t \in Task, NEW S \in SUBSET Call, Dismiss(t, S)
    PROVE  live' \in History /\ todo' \in [Task -> SUBSET Call]
                              /\ cleared' \in [Task -> SUBSET Call]
BY AddResultsType DEF Dismiss, TypeOK

LEMMA ClearType ==
    ASSUME TypeOK, NEW t \in Task, NEW c \in Call, Clear(t, c)
    PROVE  live' \in History /\ todo' \in [Task -> SUBSET Call]
                              /\ cleared' \in [Task -> SUBSET Call]
BY DEF Clear, TypeOK

\* Starting tools keeps the execution counters natural.
LEMMA ExecuteType ==
    ASSUME TypeOK, NEW S, Execute(S)
    PROVE  executed' \in [Call -> Nat]
BY DEF Execute, TypeOK

-----------------------------------------------------------------------------
(* Type correctness.                                                       *)

LEMMA InitType == Init => TypeOK
<1>1. NoHistory \in History
  BY SessionAssumption DEF NoHistory, History, Call
<1>2. 0 \in 0..MaxIter /\ 0 \in 0..MaxTurns /\ 0 \in 0..MaxCrash
  BY SessionAssumption
<1>3. ASSUME Init
      PROVE  /\ item \in [CallId -> {"none", "pending"} \cup Decision]
             /\ rank \in [CallId -> Nat]
             /\ pc \in [Task -> Label]
             /\ todo \in [Task -> SUBSET Call] /\ cleared \in [Task -> SUBSET Call]
             /\ iter \in [Task -> 0..MaxIter]
             /\ origin \in [Task -> {"socket", "retry", "deliver", "scheduled", "resume"}]
  BY <1>2, <1>3 DEF Init, Label
<1>4. ASSUME Init
      PROVE  /\ frame \in [View -> Decision \cup {NoFrame}]
             /\ executed \in [Call -> Nat]
             /\ said \subseteq CallId \X Decision
  BY <1>4 DEF Init
<1>5. QED
  BY <1>1, <1>2, <1>3, <1>4 DEF Init, TypeOK, Label

LEMMA TaskStepType ==
    ASSUME TypeOK, NEW t \in Task, TaskStep(t)
    PROVE  TypeOK'
<1> USE DEF vars, taskVars, inboxVars, userVars, countVars, Goto, TryMarkRunning,
          InterruptedTool, InjectSteering, SavePrompt
<1>1. CASE Begin(t)
  <2>1. live' \in History /\ disk' \in History
    BY <1>1, AddUserType DEF Begin, TypeOK
  <2>2. 1 \in 0..MaxIter
    BY SessionAssumption
  <2>3. pc' \in [Task -> Label] /\ iter' \in [Task -> 0..MaxIter]
    BY <1>1, <2>2 DEF Begin, TypeOK, Label
  <2>4. cancel' \in BOOLEAN /\ running' \in BOOLEAN
    BY <1>1, Zenon DEF Begin, TypeOK
  <2>5. QED
    BY <1>1, <2>1, <2>3, <2>4 DEF Begin, TypeOK, Label
<1>2. CASE ModelCalls(t)
  <2>1. PICK k \in 1..MaxCalls : /\ live.used + k <= NumCalls
                              /\ live' = AddRound(live, k)
                              /\ todo' = [todo EXCEPT ![t] = live'.round]
    BY <1>2 DEF ModelCalls
  <2>2. live' \in History
    BY <2>1, AddRoundType DEF TypeOK
  <2>3. todo' \in [Task -> SUBSET Call]
    BY <2>1, <2>2 DEF TypeOK, History
  <2>4. QED
    BY <1>2, <2>2, <2>3 DEF ModelCalls, TypeOK
<1>3. CASE ModelText(t)
  <2>1. live' \in History /\ steering' \subseteq Note
    BY <1>3, AddUserType, FailedType DEF ModelText, TypeOK
  <2>2. iter' \in [Task -> 0..MaxIter] /\ pc' \in [Task -> Label]
    BY <1>3, SessionAssumption DEF ModelText, LoopTop, TypeOK, Label
  <2>3. QED
    BY <1>3, <2>1, <2>2 DEF ModelText, TypeOK, Label
<1>4. CASE ModelEnds(t)
  BY <1>4, SessionAssumption, FailedType DEF ModelEnds, TypeOK
<1>5. CASE Authorize(t)
  <2>1. PICK c \in Call :
            /\ First(c, todo[t])
            /\ \/ cancel /\ InterruptedTool(t, c) /\ UNCHANGED pc
               \/ ~cancel /\ Goto(t, "proposed") /\ UNCHANGED <<live, todo, cleared>>
    BY <1>5 DEF Authorize
  <2>2. live' \in History /\ todo' \in [Task -> SUBSET Call]
                         /\ cleared' \in [Task -> SUBSET Call]
    BY <2>1, DismissType DEF TypeOK
  <2>3. QED
    BY <1>5, <2>1, <2>2 DEF Authorize, TypeOK
<1>15. CASE Judge(t)
  <2>1. PICK c \in Call : Dismiss(t, {c}) \/ Clear(t, c)
    BY <1>15 DEF Judge
  <2>2. live' \in History /\ todo' \in [Task -> SUBSET Call]
                         /\ cleared' \in [Task -> SUBSET Call]
    BY <2>1, DismissType, ClearType
  <2>3. QED
    BY <1>15, <2>2 DEF Judge, TypeOK
<1>6. CASE Park(t)
  <2>1. PICK c \in Call : Raise(c)
    BY <1>6 DEF Park
  <2>2. /\ item' \in [CallId -> {"none", "pending"} \cup Decision]
        /\ rank' \in [CallId -> Nat]
    BY <2>1, RaiseType
  <2>3. disk' \in History
    BY <1>6 DEF Park, TypeOK
  <2>4. QED
    BY <1>6, <2>2, <2>3 DEF Park, TypeOK
<1>7. CASE Unpark(t)
  <2>1. PICK c \in Call : Dismiss(t, {c}) \/ Clear(t, c)
    BY <1>7 DEF Unpark
  <2>2. live' \in History /\ todo' \in [Task -> SUBSET Call]
                         /\ cleared' \in [Task -> SUBSET Call]
    BY <2>1, DismissType, ClearType
  <2>3. QED
    BY <1>7, <2>2 DEF Unpark, TypeOK
<1>8. CASE StartConcurrent(t)
  BY <1>8, SessionAssumption, ExecuteType DEF StartConcurrent, TypeOK
<1>9. CASE FinishConcurrent(t)
  <2>1. Concurrent(t) \in SUBSET Call
    BY DEF Concurrent, TypeOK
  <2>2. live' \in History /\ todo' \in [Task -> SUBSET Call]
                         /\ cleared' \in [Task -> SUBSET Call]
    BY <1>9, <2>1, DismissType DEF FinishConcurrent
  <2>3. QED
    BY <1>9, <2>2 DEF FinishConcurrent, TypeOK
<1>10. CASE StartSerial(t)
  <2>1. PICK c \in Call :
            /\ First(c, cleared[t])
            /\ \/ cancel /\ InterruptedTool(t, c) /\ UNCHANGED pc
               \/ ~cancel /\ Goto(t, "starting") /\ UNCHANGED <<live, todo, cleared>>
    BY <1>10 DEF StartSerial
  <2>2. live' \in History /\ todo' \in [Task -> SUBSET Call]
                         /\ cleared' \in [Task -> SUBSET Call]
    BY <2>1, DismissType DEF TypeOK
  <2>3. QED
    BY <1>10, <2>1, <2>2 DEF StartSerial, TypeOK
<1>16. CASE Launch(t)
  <2>1. executed' \in [Call -> Nat]
    BY <1>16, ExecuteType DEF Launch
  <2>2. QED
    BY <1>16, <2>1 DEF Launch, TypeOK
<1>11. CASE FinishSerial(t)
  <2>1. PICK c \in Call : Dismiss(t, {c})
    BY <1>11 DEF FinishSerial
  <2>2. live' \in History /\ todo' \in [Task -> SUBSET Call]
                         /\ cleared' \in [Task -> SUBSET Call]
    BY <2>1, DismissType
  <2>3. QED
    BY <1>11, <2>2 DEF FinishSerial, TypeOK
<1>12. CASE EndIteration(t)
  <2>1. live' \in History /\ steering' \subseteq Note
    BY <1>12, AddUserType DEF EndIteration, TypeOK
  <2>2. iter' \in [Task -> 0..MaxIter] /\ pc' \in [Task -> Label]
    BY <1>12, SessionAssumption DEF EndIteration, LoopTop, TypeOK, Label
  <2>3. disk' \in History
    BY <1>12 DEF EndIteration, TypeOK
  <2>4. QED
    BY <1>12, <2>1, <2>2, <2>3 DEF EndIteration, TypeOK, Label
<1>13. CASE EndTurn(t)
  <2>1. 0 \in 0..MaxIter
    BY SessionAssumption
  <2>2. running' \in BOOLEAN
    BY <1>13, Zenon DEF EndTurn, TypeOK
  <2>3. QED
    BY <1>13, <2>1, <2>2 DEF EndTurn, TypeOK
<1>14. QED
  BY <1>1, <1>2, <1>3, <1>4, <1>5, <1>6, <1>7, <1>8, <1>9, <1>10, <1>11, <1>12, <1>13,
     <1>15, <1>16 DEF TaskStep

LEMMA StartsType ==
    ASSUME TypeOK, Starts
    PROVE  TypeOK'
<1> USE DEF vars, taskVars, inboxVars, userVars, countVars, Goto, TryMarkRunning,
          InterruptedTool, InjectSteering, SavePrompt
<1>1. ASSUME NEW t \in Task, NEW how \in {"socket", "retry"}, ClaimTurn(t, how)
      PROVE  TypeOK'
  <2>1. turns' \in 0..MaxTurns
    BY <1>1, SessionAssumption DEF ClaimTurn, TypeOK
  <2>2. QED
    BY <1>1, <2>1 DEF ClaimTurn, TypeOK
<1>2. 1 \in 0..MaxIter
  BY SessionAssumption
<1>3. ASSUME NEW t \in Task, NEW n \in Note, DeliverIdle(t, n)
      PROVE  TypeOK'
  <2>1. live' \in History
    BY <1>3, AddUserType DEF DeliverIdle, RunDetached, TypeOK
  <2>2. QED
    BY <1>2, <1>3, <2>1 DEF DeliverIdle, RunDetached, TypeOK
<1>4. ASSUME NEW n \in Note, DeliverBusy(n)
      PROVE  TypeOK'
  BY <1>4 DEF DeliverBusy, TypeOK
<1>5. ASSUME NEW t \in Task, StartScheduled(t)
      PROVE  TypeOK'
  <2>1. live' \in History
    BY <1>5, AddUserType DEF StartScheduled, RunDetached, TypeOK
  <2>2. turns' \in 0..MaxTurns
    BY <1>5, SessionAssumption DEF StartScheduled, TypeOK
  <2>3. QED
    BY <1>2, <1>5, <2>1, <2>2 DEF StartScheduled, RunDetached, TypeOK
<1>6. QED
  BY <1>1, <1>3, <1>4, <1>5 DEF Starts

LEMMA PeopleType ==
    ASSUME TypeOK, People
    PROVE  TypeOK'
<1> USE DEF vars, taskVars, inboxVars, userVars, countVars, Goto, TryMarkRunning,
          InterruptedTool, InjectSteering, SavePrompt
<1>1. CASE Stop
  BY <1>1 DEF Stop, TypeOK
<1>2. ASSUME NEW i \in CallId, NEW d \in Decision, ResolveItem(i, d)
      PROVE  TypeOK'
  <2>1. /\ item' \in [CallId -> {"none", "pending"} \cup Decision]
        /\ rank' \in [CallId -> Nat]
        /\ said' \subseteq CallId \X Decision
    BY <1>2, ResolveType DEF ResolveItem, DurableResume, TypeOK
  <2>2. Unanswered(live) \subseteq Call
    BY DEF Unanswered, TypeOK, History
  <2>3. 0 \in 0..MaxIter
    BY SessionAssumption
  <2>4. CASE UNCHANGED <<running, cancel, taskVars>> /\ disk' \in {disk, live}
    BY <1>2, <2>1, <2>4 DEF ResolveItem, DurableResume, TypeOK
  <2>5. CASE /\ running' = TRUE
             /\ cancel' = FALSE
             /\ \E t \in Task \ Active :
                   /\ Goto(t, "authorize")
                   /\ todo' = [todo EXCEPT ![t] = Unanswered(live)]
                   /\ iter' = [iter EXCEPT ![t] = 0]
                   /\ origin' = [origin EXCEPT ![t] = "resume"]
             /\ UNCHANGED <<disk, cleared>>
    <3>1. /\ pc' \in [Task -> Label]
          /\ todo' \in [Task -> SUBSET Call]
          /\ iter' \in [Task -> 0..MaxIter]
          /\ origin' \in [Task -> {"socket", "retry", "deliver", "scheduled", "resume"}]
      BY <2>2, <2>3, <2>5 DEF TypeOK, Label
    <3>2. QED
      BY <1>2, <2>1, <2>5, <3>1 DEF ResolveItem, DurableResume, TypeOK, Label
  <2>6. QED
    BY <1>2, <2>4, <2>5 DEF ResolveItem, DurableResume
<1>3. ASSUME NEW i \in CallId, NEW d \in Decision, ReplyItem(i, d)
      PROVE  TypeOK'
  BY <1>3, ResolveType DEF ReplyItem, TypeOK
<1>4. ASSUME NEW v \in View, NEW i \in CallId, NEW d \in Decision, SendFrame(v, i, d)
      PROVE  TypeOK'
  BY <1>4 DEF SendFrame, TypeOK
<1>5. ASSUME NEW v \in View, FrameArrives(v)
      PROVE  TypeOK'
  <2>1. frame[v] \in Decision
    BY <1>5 DEF FrameArrives, TypeOK
  <2>2. /\ item' \in [CallId -> {"none", "pending"} \cup Decision]
        /\ rank' \in [CallId -> Nat]
    BY <1>5, <2>1, ResolveType DEF FrameArrives, TypeOK
  <2>3. QED
    BY <1>5, <2>2 DEF FrameArrives, TypeOK
<1>6. QED
  BY <1>1, <1>2, <1>3, <1>4, <1>5 DEF People

LEMMA CrashType ==
    ASSUME TypeOK, Crash
    PROVE  TypeOK'
<1>1. crashes' \in 0..MaxCrash
  BY SessionAssumption DEF Crash, TypeOK
<1>2. 0 \in 0..MaxIter
  BY SessionAssumption
<1>3. QED
  BY <1>1, <1>2 DEF Crash, TypeOK, inboxVars

LEMMA StepType ==
    ASSUME TypeOK, [Next]_vars
    PROVE  TypeOK'
<1>1. CASE UNCHANGED vars
  BY <1>1 DEF TypeOK, vars, taskVars, inboxVars, userVars, countVars
<1>2. QED
  BY <1>1, TaskStepType, StartsType, PeopleType, CrashType DEF Next

\* Every variable keeps its type: histories stay well formed, the model loop stays
\* within max_iterations, an Inbox item within the states of InboxItem.
THEOREM TypeCorrect == Spec => []TypeOK
<1>1. Init => TypeOK
  BY InitType
<1>2. TypeOK /\ [Next]_vars => TypeOK'
  BY StepType
<1>3. QED
  BY <1>1, <1>2, PTL DEF Spec

-----------------------------------------------------------------------------
(* What a step may do to the prompts and to the tools.                     *)

Asks ==
    \E i \in CallId : item[i] = "none" /\ item' = [item EXCEPT ![i] = "pending"]

Answers ==
    \E i \in CallId, d \in Decision :
        item[i] = "pending" /\ item' = [item EXCEPT ![i] = d]

Performs ==
    \E S \in SUBSET Call :
        (\A c \in S : Gate!MayRun(c)) /\ Execute(S)

\* A step raises one prompt, answers one prompt, starts tools that may run, or does
\* nothing a person or a tool would notice.
GateStep ==
    \/ UNCHANGED <<item, executed>>
    \/ (Asks \/ Answers) /\ UNCHANGED executed
    \/ Performs /\ UNCHANGED item

\* Raising a prompt is an Ask of the gate, or nothing.
LEMMA RaiseAsks ==
    ASSUME TypeOK, NEW c \in Call, Raise(c)
    PROVE  Asks \/ UNCHANGED item
BY SessionAssumption DEF Raise, Asks, inboxVars

\* Resolving one is an Answer.
LEMMA ResolveAnswers ==
    ASSUME NEW i \in CallId, NEW d \in Decision, Resolve(i, d)
    PROVE  Answers
BY DEF Resolve, Answers

\* What was cleared may run.
LEMMA ClearedMayRun ==
    ASSUME ClearedByConsent, NEW t \in Task, NEW c \in cleared[t]
    PROVE  Gate!MayRun(c)
BY DEF ClearedByConsent, Gate!MayRun

LEMMA TaskStepGate ==
    ASSUME TypeOK, ClearedByConsent, NEW t \in Task, TaskStep(t)
    PROVE  GateStep
<1> USE DEF inboxVars, GateStep
<1>1. CASE Park(t)
  BY <1>1, RaiseAsks DEF Park
<1>2. CASE StartConcurrent(t)
  <2>1. Concurrent(t) \subseteq cleared[t] /\ Concurrent(t) \subseteq Call
    BY DEF Concurrent, TypeOK
  <2>2. \A c \in Concurrent(t) : Gate!MayRun(c)
    BY <2>1, ClearedMayRun
  <2>3. Performs /\ UNCHANGED item
    BY <1>2, <2>1, <2>2 DEF StartConcurrent, Performs
  <2>4. QED
    BY <2>3
<1>3. CASE Launch(t)
  <2>1. PICK c \in Call : First(c, cleared[t]) /\ Execute({c})
    BY <1>3 DEF Launch
  <2>2. Gate!MayRun(c)
    BY <2>1, ClearedMayRun DEF First
  <2>3. Performs /\ UNCHANGED item
    BY <1>3, <2>1, <2>2 DEF Performs, Launch
  <2>4. QED
    BY <2>3
<1>4. CASE \/ Begin(t) \/ ModelCalls(t) \/ ModelText(t) \/ ModelEnds(t) \/ Authorize(t)
           \/ Judge(t) \/ Unpark(t) \/ FinishConcurrent(t) \/ StartSerial(t)
           \/ FinishSerial(t) \/ EndIteration(t) \/ EndTurn(t)
  BY <1>4 DEF Begin, ModelCalls, ModelText, ModelEnds, Authorize, Judge, Unpark,
              FinishConcurrent, StartSerial, FinishSerial, EndIteration, EndTurn
<1>5. QED
  BY <1>1, <1>2, <1>3, <1>4 DEF TaskStep

LEMMA StepGate ==
    ASSUME TypeOK, ClearedByConsent, [Next]_vars
    PROVE  GateStep
<1> USE DEF inboxVars, GateStep
<1>1. CASE Starts
  BY <1>1 DEF Starts, ClaimTurn, DeliverIdle, DeliverBusy, StartScheduled, RunDetached
<1>2. CASE People
  <2>1. CASE Stop
    BY <2>1 DEF Stop
  <2>2. ASSUME NEW i \in CallId, NEW d \in Decision, ResolveItem(i, d) \/ ReplyItem(i, d)
        PROVE  GateStep
    BY <2>2, ResolveAnswers DEF ResolveItem, ReplyItem
  <2>3. ASSUME NEW v \in View, NEW i \in CallId, NEW d \in Decision, SendFrame(v, i, d)
        PROVE  GateStep
    BY <2>3 DEF SendFrame
  <2>4. ASSUME NEW v \in View, FrameArrives(v)
        PROVE  GateStep
    <3>1. frame[v] \in Decision
      BY <2>4 DEF FrameArrives, TypeOK
    <3>2. QED
      BY <2>4, <3>1, ResolveAnswers DEF FrameArrives
  <2>5. QED
    BY <1>2, <2>1, <2>2, <2>3, <2>4 DEF People
<1>3. CASE Crash
  BY <1>3 DEF Crash
<1>4. CASE UNCHANGED vars
  BY <1>4 DEF vars
<1>5. QED
  BY <1>1, <1>2, <1>3, <1>4, TaskStepGate DEF Next

-----------------------------------------------------------------------------
(* Authorized calls stay authorized.                                       *)

\* No step takes an answer back.
LEMMA AnswersStay ==
    ASSUME TypeOK, GateStep, NEW i \in CallId, item[i] # "none"
    PROVE  /\ item[i] \in Decision => item'[i] = item[i]
           /\ item[i] = "pending" => item'[i] # "none"
BY DEF GateStep, Asks, Answers, TypeOK, Decision

\* A step that authorizes a call has the permission engine's or a person's consent.
LEMMA TaskStepClears ==
    ASSUME TypeOK, NEW t \in Task, TaskStep(t), NEW u \in Task, NEW c \in cleared'[u]
    PROVE  \/ c \in cleared[u] \/ KindOf[c] = "auto"
           \/ KindOf[c] = "ask" /\ item[IdOf[c]] = "allow"
<1>1. CASE UNCHANGED cleared
  BY <1>1
<1>2. CASE \E S : Dismiss(t, S)
  BY <1>2 DEF Dismiss, TypeOK
<1>3. CASE Judge(t)
  BY <1>2, <1>3 DEF Judge, AllowedOutright, Clear, TypeOK
<1>4. CASE Unpark(t)
  BY <1>2, <1>4 DEF Unpark, Approved, Clear, TypeOK
<1>5. CASE Authorize(t) \/ FinishConcurrent(t) \/ StartSerial(t) \/ FinishSerial(t)
  BY <1>1, <1>2, <1>5 DEF Authorize, FinishConcurrent, StartSerial, FinishSerial,
                          InterruptedTool
<1>6. CASE \/ Begin(t) \/ ModelCalls(t) \/ ModelText(t) \/ ModelEnds(t) \/ Park(t)
           \/ StartConcurrent(t) \/ Launch(t) \/ EndIteration(t) \/ EndTurn(t)
  BY <1>1, <1>6 DEF Begin, ModelCalls, ModelText, ModelEnds, Park, StartConcurrent, Launch,
                    EndIteration, EndTurn
<1>7. QED
  BY <1>3, <1>4, <1>5, <1>6 DEF TaskStep

\* Outside the engine nothing is authorized.
LEMMA OthersClearNothing ==
    ASSUME TypeOK, Starts \/ People \/ Crash \/ UNCHANGED vars,
           NEW u \in Task, NEW c \in cleared'[u]
    PROVE  c \in cleared[u]
BY DEF Starts, ClaimTurn, DeliverIdle, DeliverBusy, StartScheduled, RunDetached, People,
       Stop, ResolveItem, DurableResume, ReplyItem, SendFrame, FrameArrives, Crash, vars,
       taskVars

LEMMA StepCleared ==
    ASSUME TypeOK, ClearedByConsent, [Next]_vars
    PROVE  ClearedByConsent'
<1>1. GateStep
  BY StepGate
<1>2. TypeOK'
  BY StepType
<1>3. SUFFICES ASSUME NEW u \in Task, NEW c \in cleared'[u]
               PROVE  KindOf[c] = "auto" \/ (KindOf[c] = "ask" /\ item'[IdOf[c]] = "allow")
  BY DEF ClearedByConsent
<1>4. c \in Call /\ IdOf[c] \in CallId
  BY <1>2, SessionAssumption DEF TypeOK
<1>5. \/ KindOf[c] = "auto"
      \/ KindOf[c] = "ask" /\ item[IdOf[c]] = "allow"
  BY TaskStepClears, OthersClearNothing DEF Next, ClearedByConsent
<1>6. item[IdOf[c]] = "allow" => item'[IdOf[c]] = "allow"
  BY <1>1, <1>4, AnswersStay DEF Decision
<1>7. QED
  BY <1>5, <1>6

LEMMA InitCleared == Init => ClearedByConsent
BY DEF Init, ClearedByConsent

\* Whatever the interleaving, a call is executed only after the permission engine let
\* it through or its Inbox item was approved (engine._authorize before _execute_sync).
THEOREM ClearedCorrect == Spec => []ClearedByConsent
<1>1. TypeOK /\ ClearedByConsent /\ [Next]_vars => ClearedByConsent'
  BY StepCleared
<1>2. QED
  BY <1>1, InitCleared, TypeCorrect, PTL DEF Spec

-----------------------------------------------------------------------------
(* Refinement and its consequences.                                        *)

LEMMA InitGate == Init => Gate!Init
BY DEF Init, Gate!Init

LEMMA NextGate ==
    ASSUME GateStep
    PROVE  [Gate!Next]_(Gate!gateVars)
<1>1. CASE UNCHANGED <<item, executed>>
  BY <1>1 DEF Gate!gateVars
<1>2. CASE (Asks \/ Answers) /\ UNCHANGED executed
  BY <1>2 DEF Asks, Answers, Decision, Gate!Next, Gate!Ask, Gate!Answer
<1>3. CASE Performs /\ UNCHANGED item
  BY <1>3 DEF Performs, Execute, Gate!Next, Gate!Perform
<1>4. QED
  BY <1>1, <1>2, <1>3 DEF GateStep

\* The session implements the abstract gate: prompts are answered once, and every tool
\* it starts may run at that moment.
THEOREM GateRefinement == Spec => GateSpec
<1>1. TypeOK /\ ClearedByConsent /\ [Next]_vars => [Gate!Next]_(Gate!gateVars)
  BY StepGate, NextGate
<1>2. QED
  BY <1>1, InitGate, TypeCorrect, ClearedCorrect, PTL DEF Spec, GateSpec, Gate!Spec

\* An answer to a prompt is final (InboxStore.resolve: "exactly once").
THEOREM FirstAnswerFinal == Spec => FirstAnswerWins
<1>1. ASSUME TypeOK, ClearedByConsent, [Next]_vars, NEW i \in CallId
      PROVE  /\ (item[i] \in Decision => item'[i] = item[i])
             /\ (item[i] = "pending" => item'[i] # "none")
  <2>1. GateStep
    BY <1>1, StepGate
  <2>2. CASE item[i] = "none"
    BY <2>2 DEF Decision
  <2>3. CASE item[i] # "none"
    BY <1>1, <2>1, <2>3, AnswersStay
  <2>4. QED
    BY <2>2, <2>3
<1>2. TypeOK /\ ClearedByConsent /\ [Next]_vars => [AnswersKept]_item
  BY <1>1 DEF AnswersKept
<1>3. QED
  BY <1>2, TypeCorrect, ClearedCorrect, PTL DEF Spec, FirstAnswerWins

LEMMA StepConsent ==
    ASSUME TypeOK, TypeOK', ConsentedRuns, OnlyToolsRun, GateStep
    PROVE  ConsentedRuns' /\ OnlyToolsRun'
<1>1. ASSUME NEW c \in Call, executed'[c] > 0
      PROVE  KindOf[c] = "auto" \/ (KindOf[c] = "ask" /\ item'[IdOf[c]] = "allow")
  <2>1. KindOf[c] \in Kind /\ IdOf[c] \in CallId
    BY SessionAssumption
  <2>2. CASE executed[c] > 0
    <3>1. KindOf[c] = "auto" \/ (KindOf[c] = "ask" /\ item[IdOf[c]] = "allow")
      BY <2>1, <2>2 DEF ConsentedRuns, OnlyToolsRun, Kind
    <3>2. CASE item[IdOf[c]] = "allow"
      <4>1. item'[IdOf[c]] = "allow"
        BY <2>1, <3>2, AnswersStay DEF Decision
      <4>2. QED
        BY <3>1, <4>1
    <3>3. QED
      BY <3>1, <3>2
  <2>3. CASE ~(executed[c] > 0)
    <3>1. Performs /\ UNCHANGED item
      BY <1>1, <2>3 DEF GateStep
    <3>2. Gate!MayRun(c)
      BY <1>1, <2>3, <3>1 DEF Performs, Execute
    <3>3. QED
      BY <3>1, <3>2 DEF Gate!MayRun
  <2>4. QED
    BY <2>2, <2>3
<1>2. ConsentedRuns'
  BY <1>1 DEF ConsentedRuns
<1>3. \A c \in Call : executed'[c] > 0 \/ executed'[c] = 0
  BY DEF TypeOK
<1>4. OnlyToolsRun'
  BY <1>1, <1>3 DEF OnlyToolsRun
<1>5. QED
  BY <1>2, <1>4

\* No tool that needs consent has ever run without an approval on record, and no call
\* the permission engine refused was ever executed.
THEOREM ConsentCorrect == Spec => [](ConsentedRuns /\ OnlyToolsRun)
<1>1. Init => ConsentedRuns /\ OnlyToolsRun
  BY DEF Init, ConsentedRuns, OnlyToolsRun
<1>2. TypeOK /\ ClearedByConsent /\ ConsentedRuns /\ OnlyToolsRun /\ [Next]_vars
          => (ConsentedRuns /\ OnlyToolsRun)'
  BY StepGate, StepType, StepConsent
<1>3. QED
  BY <1>1, <1>2, TypeCorrect, ClearedCorrect, PTL DEF Spec

-----------------------------------------------------------------------------
(* Mutual exclusion.                                                       *)

\* OneRunner is not inductive by itself: the turn that ends must be one that claimed
\* the session, which a scheduled run does not do.
Claimed == OneRunner /\ \A t \in Task : origin[t] # "scheduled"

\* A step of the coroutine that runs leaves it the only one, or nobody.
LEMMA TaskStepClaimed ==
    ASSUME TypeOK, Claimed, NEW t \in Task, TaskStep(t)
    PROVE  Claimed'
<1>1. pc[t] # "idle" /\ running
  BY DEF TaskStep, Begin, ModelCalls, ModelText, ModelEnds, Authorize, Judge, Park, Unpark,
         StartConcurrent, FinishConcurrent, StartSerial, Launch, FinishSerial, EndIteration,
         EndTurn, Claimed, OneRunner, Active
<1>2. \A u \in Task : u # t => pc[u] = "idle"
  BY <1>1 DEF Claimed, OneRunner, Active
<1>3. CASE Goto(t, "idle") /\ running' = FALSE /\ UNCHANGED origin
  BY <1>2, <1>3 DEF Goto, Claimed, OneRunner, Active, TypeOK
<1>6. CASE EndTurn(t)
  BY <1>3, <1>6 DEF EndTurn, Claimed
<1>4. CASE ~EndTurn(t) /\ ~(Begin(t) /\ Goto(t, "idle"))
  <2>1. /\ UNCHANGED <<running, origin>>
        /\ \/ UNCHANGED pc
           \/ \E l \in Label \ {"idle"} : Goto(t, l)
    BY <1>4 DEF TaskStep, Begin, ModelCalls, ModelText, ModelEnds, Authorize, Judge, Park,
         Unpark, StartConcurrent, FinishConcurrent, StartSerial, Launch, FinishSerial,
         EndIteration, LoopTop, Label
  <2>2. pc'[t] # "idle" /\ \A u \in Task : u # t => pc'[u] = "idle"
    BY <1>1, <1>2, <2>1 DEF Goto, TypeOK
  <2>3. QED
    BY <1>1, <2>1, <2>2 DEF Claimed, OneRunner, Active
<1>5. CASE Begin(t) /\ Goto(t, "idle")
  <2>1. pc'[t] = "idle"
    BY <1>5 DEF Goto, TypeOK
  <2>2. running' = FALSE /\ UNCHANGED origin
    BY <1>5, <2>1 DEF Begin, Goto, TypeOK
  <2>3. QED
    BY <1>3, <1>5, <2>2
<1>7. QED
  BY <1>4, <1>5, <1>6

\* A turn starts only where none is under way.
LEMMA TurnStartsAlone ==
    ASSUME TypeOK, Claimed, NEW t \in Task, ~running, running' = TRUE,
           NEW l, l # "idle", Goto(t, l),
           NEW o, o # "scheduled", origin' = [origin EXCEPT ![t] = o]
    PROVE  Claimed'
<1>1. \A u \in Task : pc[u] = "idle"
  BY DEF Claimed, OneRunner, Active
<1>2. pc'[t] # "idle" /\ \A u \in Task : u # t => pc'[u] = "idle"
  BY <1>1 DEF Goto, TypeOK
<1>3. \A u \in Task : origin'[u] # "scheduled"
  BY DEF Claimed, TypeOK
<1>4. QED
  BY <1>2, <1>3 DEF Claimed, OneRunner, Active

LEMMA StepClaimed ==
    ASSUME ~Scheduled, TypeOK, Claimed, [Next]_vars
    PROVE  Claimed'
<1>1. CASE UNCHANGED <<pc, running, origin>>
  BY <1>1 DEF Claimed, OneRunner, Active
<1>2. ASSUME NEW t \in Task, NEW how \in {"socket", "retry"}, ClaimTurn(t, how)
      PROVE  Claimed'
  BY <1>2, TurnStartsAlone DEF ClaimTurn, TryMarkRunning
<1>3. ASSUME NEW t \in Task, NEW n \in Note, DeliverIdle(t, n)
      PROVE  Claimed'
  BY <1>3, TurnStartsAlone DEF DeliverIdle, TryMarkRunning, RunDetached
<1>4. ASSUME NEW i \in CallId, NEW d \in Decision, ResolveItem(i, d)
      PROVE  Claimed'
  <2>1. CASE UNCHANGED <<running, cancel, taskVars>>
    BY <1>1, <2>1 DEF taskVars
  <2>2. CASE /\ ~running /\ running' = TRUE
             /\ \E t \in Task \ Active : /\ Goto(t, "authorize")
                                        /\ origin' = [origin EXCEPT ![t] = "resume"]
    BY <2>2, TurnStartsAlone
  <2>3. QED
    BY <1>4, <2>1, <2>2 DEF ResolveItem, DurableResume
<1>5. CASE Crash
  BY <1>5 DEF Crash, Claimed, OneRunner, Active
<1>6. CASE Starts
  <2>1. ASSUME NEW t \in Task, StartScheduled(t)
        PROVE  FALSE
    BY <2>1 DEF StartScheduled
  <2>2. ASSUME NEW n \in Note, DeliverBusy(n)
        PROVE  Claimed'
    BY <1>1, <2>2 DEF DeliverBusy, taskVars
  <2>3. QED
    BY <1>2, <1>3, <1>6, <2>1, <2>2 DEF Starts
<1>7. CASE People
  BY <1>1, <1>4, <1>7 DEF People, Stop, ReplyItem, SendFrame, FrameArrives, taskVars
<1>8. CASE UNCHANGED vars
  BY <1>1, <1>8 DEF vars, taskVars
<1>9. QED
  BY <1>5, <1>6, <1>7, <1>8, TaskStepClaimed DEF Next

\* As long as the scheduler does not run the session, at most one coroutine drives its
\* engine, and exactly while the session is marked running: every start goes through
\* try_mark_running or an equivalent check without an await in between.
THEOREM OneRunnerCorrect ==
    ASSUME ~Scheduled
    PROVE  Spec => []OneRunner
<1>1. Init => Claimed
  BY DEF Init, Claimed, OneRunner, Active
<1>2. TypeOK /\ Claimed /\ [Next]_vars => Claimed'
  BY StepClaimed
<1>3. Claimed => OneRunner
  BY DEF Claimed
<1>4. QED
  BY <1>1, <1>2, <1>3, TypeCorrect, PTL DEF Spec

-----------------------------------------------------------------------------
(* Background messages.                                                    *)

\* A step of the engine moves the queue into the history or leaves both alone.
LEMMA TaskStepNotes ==
    ASSUME TypeOK, NEW t \in Task, TaskStep(t)
    PROVE  /\ UNCHANGED <<sent, crashes>>
           /\ \/ UNCHANGED steering /\ live'.steered = live.steered
              \/ steering' = {} /\ live'.steered = live.steered \cup steering
<1> USE DEF countVars
<1>1. CASE Begin(t)
  <2>1. AddUser(live, {}).steered = live.steered
    BY DEF AddUser, TypeOK, History
  <2>2. live' = AddUser(live, {}) \/ live' = live
    BY <1>1 DEF Begin
  <2>3. QED
    BY <1>1, <2>1, <2>2 DEF Begin
<1>2. CASE ModelCalls(t)
  BY <1>2 DEF ModelCalls, AddRound, TypeOK, History
<1>3. CASE ModelText(t) \/ EndIteration(t)
  <2>1. CASE steering = {} \/ UNCHANGED <<live, steering>>
    BY <1>3, <2>1 DEF ModelText, EndIteration, InjectSteering, AddUser, TypeOK, History
  <2>2. CASE steering # {} /\ live' = AddUser(live, steering) /\ steering' = {}
    <3>1. live'.steered = live.steered \cup steering
      BY <2>2 DEF AddUser, TypeOK, History
    <3>2. QED
      BY <1>3, <2>2, <3>1 DEF ModelText, EndIteration, InjectSteering
  <2>3. QED
    BY <1>3, <2>1, <2>2 DEF ModelText, EndIteration, InjectSteering
<1>4. CASE ModelEnds(t)
  BY <1>4 DEF ModelEnds, TypeOK, History
<1>5. CASE \E S : Dismiss(t, S) /\ UNCHANGED <<steering, sent, crashes>>
  BY <1>5 DEF Dismiss, AddResults, TypeOK, History
<1>6. CASE UNCHANGED <<live, steering, sent, crashes>>
  BY <1>6
<1>7. CASE Authorize(t) \/ Judge(t) \/ Unpark(t) \/ StartSerial(t)
  BY <1>5, <1>6, <1>7 DEF Authorize, Judge, Unpark, StartSerial, InterruptedTool, Clear
<1>8. CASE FinishConcurrent(t) \/ FinishSerial(t)
  BY <1>5, <1>8 DEF FinishConcurrent, FinishSerial
<1>9. CASE Park(t) \/ StartConcurrent(t) \/ Launch(t) \/ EndTurn(t)
  BY <1>6, <1>9 DEF Park, StartConcurrent, Launch, EndTurn
<1>10. QED
  BY <1>1, <1>2, <1>3, <1>4, <1>7, <1>8, <1>9 DEF TaskStep

LEMMA StepNotes ==
    ASSUME TypeOK, NotesKept, [Next]_vars
    PROVE  NotesKept'
<1> USE DEF NotesKept, taskVars, inboxVars, countVars
<1>1. ASSUME NEW t \in Task, TaskStep(t)
      PROVE  NotesKept'
  BY <1>1, TaskStepNotes
<1>2. ASSUME NEW t \in Task, NEW n \in Note, DeliverIdle(t, n)
      PROVE  NotesKept'
  BY <1>2 DEF DeliverIdle, RunDetached, AddUser, TypeOK, History
<1>3. ASSUME NEW n \in Note, DeliverBusy(n)
      PROVE  NotesKept'
  BY <1>3 DEF DeliverBusy
<1>4. ASSUME NEW t \in Task, StartScheduled(t)
      PROVE  NotesKept'
  BY <1>4 DEF StartScheduled, RunDetached, AddUser, TypeOK, History
<1>5. ASSUME NEW t \in Task, NEW how \in {"socket", "retry"}, ClaimTurn(t, how)
      PROVE  NotesKept'
  BY <1>5 DEF ClaimTurn
<1>6. CASE People
  BY <1>6 DEF People, Stop, ResolveItem, ReplyItem, SendFrame, FrameArrives
<1>7. CASE Crash
  BY <1>7 DEF Crash, TypeOK
<1>8. CASE UNCHANGED vars
  BY <1>8 DEF vars
<1>9. QED
  BY <1>1, <1>2, <1>3, <1>4, <1>5, <1>6, <1>7, <1>8 DEF Next, Starts

\* Without a restart no background message is lost or entered twice, on whichever side
\* of the end of a turn it arrives (deliver_to_session, _inject_steering).
THEOREM NotesKeptCorrect == Spec => []NotesKept
<1>1. Init => NotesKept
  BY DEF Init, NotesKept, NoHistory
<1>2. TypeOK /\ NotesKept /\ [Next]_vars => NotesKept'
  BY StepNotes
<1>3. QED
  BY <1>1, <1>2, TypeCorrect, PTL DEF Spec
=============================================================================
