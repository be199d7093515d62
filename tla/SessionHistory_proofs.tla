----------------------- MODULE SessionHistory_proofs -----------------------
(***************************************************************************)
(* Tool calls and their results: every call is executed and answered once, *)
(* none is left open, and a prompt that waits for a person is on disk.     *)
(* All of it rests on one invariant, Ordered, that ties the calls a        *)
(* coroutine has in hand to the history it will append their results to.   *)
(***************************************************************************)
EXTENDS SessionTurn_proofs

\* A history whose last message is one of its own, with at most one result for each
\* call, and none for a call that was not proposed.
Sound(h) ==
    /\ h.round \subseteq 1..h.used
    /\ \A c \in Call : h.answers[c] <= 1 /\ (c > h.used => h.answers[c] = 0)

Open(t) == todo[t] \cup cleared[t]

\* The calls T to authorize and C authorized that a coroutine may have in hand at a
\* label: unanswered calls of the last message.
Fits(h, label, T, C) ==
    /\ T \cap C = {} /\ T \cup C \subseteq h.round
    /\ \A c \in T \cup C : h.answers[c] = 0
    /\ label \notin {"authorize", "proposed", "parked"} => T = {}
    /\ label \in {"idle", "claimed", "model", "ending"} => C = {}

Ordered ==
    /\ Sound(live) /\ Sound(disk)
    /\ \A t \in Task : Fits(live, pc[t], todo[t], cleared[t])

-----------------------------------------------------------------------------
(* Histories.                                                              *)

LEMMA SoundAddUser ==
    ASSUME NEW h \in History, NEW notes \in SUBSET Note, Sound(h)
    PROVE  Sound(AddUser(h, notes))
BY DEF Sound, AddUser, History

LEMMA SoundFailed ==
    ASSUME NEW h \in History, NEW b \in BOOLEAN, Sound(h)
    PROVE  Sound([h EXCEPT !.failed = b])
BY DEF Sound, History

\* The calls of a new message are unanswered.
LEMMA SoundAddRound ==
    ASSUME NEW h \in History, NEW k \in 1..MaxCalls, h.used + k <= NumCalls, Sound(h)
    PROVE  /\ Sound(AddRound(h, k))
           /\ AddRound(h, k).used = h.used + k
           /\ AddRound(h, k).answers = h.answers
           /\ AddRound(h, k).round = (h.used + 1)..(h.used + k)
           /\ AddRound(h, k).round \subseteq Call
           /\ \A c \in AddRound(h, k).round : c > h.used /\ h.answers[c] = 0
<1>1. /\ AddRound(h, k).used = h.used + k
      /\ AddRound(h, k).answers = h.answers
      /\ AddRound(h, k).round = (h.used + 1)..(h.used + k)
  BY DEF AddRound, History
<1>2. h.used \in Nat /\ k \in Nat
  BY SessionAssumption DEF History
<1>3. (h.used + 1)..(h.used + k) \subseteq Call
  BY <1>2, SessionAssumption DEF Call
<1>4. \A c \in Call : c > h.used + k => c > h.used
  BY <1>2, SessionAssumption DEF Call
<1>5. (h.used + 1)..(h.used + k) \subseteq 1..(h.used + k)
  BY <1>2
<1>6. \A c \in (h.used + 1)..(h.used + k) : c > h.used
  BY <1>2
<1>7. QED
  BY <1>1, <1>3, <1>4, <1>5, <1>6 DEF Sound

\* Results for calls that have none.
LEMMA SoundAddResults ==
    ASSUME NEW h \in History, NEW S \in SUBSET Call, Sound(h),
           S \subseteq 1..h.used, \A c \in S : h.answers[c] = 0
    PROVE  /\ Sound(AddResults(h, S))
           /\ AddResults(h, S).used = h.used /\ AddResults(h, S).round = h.round
           /\ \A c \in Call : AddResults(h, S).answers[c] = IF c \in S THEN 1 ELSE h.answers[c]
<1>1. AddResults(h, S).used = h.used /\ AddResults(h, S).round = h.round
  BY DEF AddResults, History
<1>2. \A c \in Call : AddResults(h, S).answers[c] = IF c \in S THEN 1 ELSE h.answers[c]
  BY DEF AddResults, History
<1>3. \A c \in S : ~(c > h.used)
  BY DEF History
<1>4. QED
  BY <1>1, <1>2, <1>3 DEF Sound

\* A call without a result is unanswered, and so is every call of its id.
LEMMA UnansweredIsOpen ==
    ASSUME NEW h \in History, NEW c \in Unanswered(h)
    PROVE  c \in h.round /\ c \in Call /\ h.answers[c] = 0
BY DEF Unanswered, History

-----------------------------------------------------------------------------
(* Ordered is an invariant, as long as every driver claims the session.    *)

LEMMA InitOrdered == Init => Ordered
<1> SUFFICES ASSUME Init PROVE Ordered
  OBVIOUS
<1>1. Sound(NoHistory)
  BY DEF Sound, NoHistory
<1>2. QED
  BY <1>1 DEF Init, Ordered, Fits

\* The others have nothing in hand while t runs.
LEMMA OthersIdle ==
    ASSUME Claimed, Ordered, NEW t \in Task, pc[t] # "idle", NEW u \in Task, u # t
    PROVE  pc[u] = "idle" /\ todo[u] = {} /\ cleared[u] = {}
<1>1. pc[u] = "idle"
  BY DEF Claimed, OneRunner, Active
<1>2. QED
  BY <1>1 DEF Ordered, Fits

\* A step of t that leaves the others alone has only its own calls to account for.
LEMMA OwnStep ==
    ASSUME Claimed, Ordered, NEW t \in Task, pc[t] # "idle" \/ Active = {},
           \A u \in Task : u # t => pc'[u] = pc[u] /\ todo'[u] = todo[u]
                                                   /\ cleared'[u] = cleared[u],
           Sound(live'), Sound(disk'), Fits(live', pc'[t], todo'[t], cleared'[t])
    PROVE  Ordered'
<1>1. ASSUME NEW u \in Task, u # t
      PROVE  pc[u] = "idle" /\ todo[u] = {} /\ cleared[u] = {}
  <2>1. pc[u] = "idle"
    BY <1>1 DEF Claimed, OneRunner, Active
  <2>2. QED
    BY <2>1 DEF Ordered, Fits
<1>2. ASSUME NEW u \in Task
      PROVE  Fits(live', pc'[u], todo'[u], cleared'[u])
  <2>1. CASE u = t
    BY <2>1
  <2>2. CASE u # t
    BY <1>1, <2>2 DEF Fits
  <2>3. QED
    BY <2>1, <2>2
<1>3. QED
  BY <1>2 DEF Ordered

\* What dismissing some of its calls leaves a coroutine.
LEMMA DismissFits ==
    ASSUME TypeOK, Ordered, NEW t \in Task, NEW S \in SUBSET Open(t), Dismiss(t, S),
           NEW label,
           label \notin {"authorize", "proposed", "parked"} => todo[t] \subseteq S,
           label \notin {"idle", "claimed", "model", "ending"}
    PROVE  /\ Sound(live') /\ Fits(live', label, todo'[t], cleared'[t])
           /\ live'.used = live.used /\ live'.round = live.round
           /\ \A c \in Call : live'.answers[c] = IF c \in S THEN 1 ELSE live.answers[c]
           /\ todo' = [todo EXCEPT ![t] = @ \ S] /\ cleared' = [cleared EXCEPT ![t] = @ \ S]
<1>1. S \in SUBSET Call /\ live \in History
  BY DEF TypeOK, Open
<1>2. S \subseteq live.round /\ \A c \in S : live.answers[c] = 0
  BY DEF Ordered, Fits, Open
<1>3. S \subseteq 1..live.used /\ Sound(live)
  BY <1>2 DEF Ordered, Sound
<1>4. /\ Sound(live')
      /\ live'.used = live.used /\ live'.round = live.round
      /\ \A c \in Call : live'.answers[c] = IF c \in S THEN 1 ELSE live.answers[c]
  BY <1>1, <1>2, <1>3, SoundAddResults DEF Dismiss
<1>5. todo'[t] = todo[t] \ S /\ cleared'[t] = cleared[t] \ S
  BY DEF Dismiss, TypeOK
<1>6. Fits(live, pc[t], todo[t], cleared[t]) /\ todo[t] \subseteq Call /\ cleared[t] \subseteq Call
  BY DEF Ordered, TypeOK
<1>7. Fits(live', label, todo'[t], cleared'[t])
  BY <1>4, <1>5, <1>6 DEF Fits
<1>8. QED
  BY <1>4, <1>7 DEF Dismiss

LEMMA TaskStepOrdered ==
    ASSUME TypeOK, Claimed, Ordered, NEW t \in Task, TaskStep(t)
    PROVE  Ordered'
<1>1. pc[t] # "idle" /\ live \in History /\ steering \in SUBSET Note
  BY DEF TypeOK, TaskStep, Begin, ModelCalls, ModelText, ModelEnds, Authorize, Judge, Park, Unpark,
         StartConcurrent, FinishConcurrent, StartSerial, Launch, FinishSerial, EndIteration, EndTurn
<1>2. Sound(live) /\ Sound(disk) /\ Fits(live, pc[t], todo[t], cleared[t])
  BY DEF Ordered
<1>3. todo[t] \subseteq Call /\ cleared[t] \subseteq Call
  BY DEF TypeOK
<1>4. ASSUME NEW label, Goto(t, label) \/ (UNCHANGED pc /\ label = pc[t])
      PROVE  pc'[t] = label /\ \A u \in Task : u # t => pc'[u] = pc[u]
  BY <1>4 DEF Goto, TypeOK
<1>5. ASSUME NEW label, Goto(t, label), UNCHANGED <<todo, cleared>>,
             todo[t] = {}, cleared[t] = {} \/ label \notin {"idle", "claimed", "model", "ending"},
             \/ live' = live \/ cleared[t] = {},
             Sound(live'), Sound(disk')
      PROVE  Ordered'
  <2>1. Fits(live', label, todo[t], cleared[t])
    BY <1>2, <1>5 DEF Fits
  <2>2. QED
    BY <1>1, <1>4, <1>5, <2>1, OwnStep
<1>6. ASSUME NEW S \in SUBSET Open(t), Dismiss(t, S), NEW label,
             Goto(t, label) \/ (UNCHANGED pc /\ label = pc[t]),
             label \notin {"authorize", "proposed", "parked"} => todo[t] \subseteq S,
             label \notin {"idle", "claimed", "model", "ending"}, Sound(disk')
      PROVE  Ordered'
  <2>1. /\ Sound(live') /\ Fits(live', label, todo'[t], cleared'[t])
        /\ todo' = [todo EXCEPT ![t] = @ \ S] /\ cleared' = [cleared EXCEPT ![t] = @ \ S]
    BY <1>6, DismissFits
  <2>2. \A u \in Task : u # t => todo'[u] = todo[u] /\ cleared'[u] = cleared[u]
    BY <2>1 DEF TypeOK
  <2>3. QED
    BY <1>1, <1>4, <1>6, <2>1, <2>2, OwnStep
<1>7. ASSUME NEW c \in todo[t], Clear(t, c), NEW label,
             Goto(t, label) \/ (UNCHANGED pc /\ label = pc[t]), label \in {"authorize", "parked"},
             UNCHANGED disk
      PROVE  Ordered'
  <2>1. todo'[t] = todo[t] \ {c} /\ cleared'[t] = cleared[t] \cup {c} /\ live' = live
    BY <1>7 DEF Clear, TypeOK
  <2>2. \A u \in Task : u # t => todo'[u] = todo[u] /\ cleared'[u] = cleared[u]
    BY <1>7 DEF Clear, TypeOK
  <2>3. Fits(live', label, todo'[t], cleared'[t])
    BY <1>2, <1>7, <2>1 DEF Fits
  <2>4. QED
    BY <1>1, <1>2, <1>4, <1>7, <2>1, <2>2, <2>3, OwnStep
<1>8. pc[t] \in {"claimed", "model", "ending"} => todo[t] = {} /\ cleared[t] = {}
  BY <1>2 DEF Fits
<1>9. pc[t] \in {"gather", "serial", "starting", "tool"} => todo[t] = {}
  BY <1>2 DEF Fits
<1>10. CASE Begin(t)
  <2>1. Sound(AddUser(live, {}))
    BY <1>1, <1>2, SoundAddUser
  <2>2. Sound(live') /\ Sound(disk')
    BY <1>2, <1>10, <2>1 DEF Begin
  <2>3. \E label \in {"model", "idle"} : Goto(t, label)
    BY <1>10 DEF Begin
  <2>4. QED
    BY <1>5, <1>8, <1>10, <2>2, <2>3 DEF Begin
<1>11. CASE ModelCalls(t)
  <2>1. PICK k \in 1..MaxCalls : /\ live.used + k <= NumCalls
                                 /\ live' = AddRound(live, k)
                                 /\ todo' = [todo EXCEPT ![t] = live'.round]
    BY <1>11 DEF ModelCalls
  <2>2. /\ Sound(live') /\ live'.answers = live.answers
        /\ \A c \in live'.round : live.answers[c] = 0
    BY <1>1, <1>2, <2>1, SoundAddRound
  <2>3. todo'[t] = live'.round /\ cleared'[t] = {} /\ pc'[t] = "authorize"
    BY <1>8, <1>11, <2>1 DEF ModelCalls, Goto, TypeOK
  <2>4. Fits(live', pc'[t], todo'[t], cleared'[t])
    BY <2>2, <2>3 DEF Fits
  <2>5. \A u \in Task : u # t => pc'[u] = pc[u] /\ todo'[u] = todo[u] /\ cleared'[u] = cleared[u]
    BY <1>11, <2>1 DEF ModelCalls, Goto, TypeOK
  <2>6. QED
    BY <1>1, <1>2, <1>11, <2>2, <2>4, <2>5, OwnStep DEF ModelCalls
<1>12. CASE ModelText(t) \/ ModelEnds(t)
  <2>1. Sound(AddUser(live, steering)) /\ \A b \in BOOLEAN : Sound([live EXCEPT !.failed = b])
    BY <1>1, <1>2, SoundAddUser, SoundFailed
  <2>2. Sound(live') /\ Sound(disk')
    BY <1>2, <1>12, <2>1 DEF ModelText, ModelEnds, InjectSteering
  <2>3. \E label \in {"model", "ending"} : Goto(t, label)
    BY <1>12 DEF ModelText, ModelEnds, LoopTop
  <2>4. QED
    BY <1>5, <1>8, <1>12, <2>2, <2>3 DEF ModelText, ModelEnds
<1>13. CASE Authorize(t)
  <2>1. PICK c \in Call :
            /\ First(c, todo[t])
            /\ \/ cancel /\ InterruptedTool(t, c) /\ UNCHANGED pc
               \/ ~cancel /\ Goto(t, "proposed") /\ UNCHANGED <<live, todo, cleared>>
    BY <1>13 DEF Authorize
  <2>2. pc[t] = "authorize" /\ UNCHANGED disk
    BY <1>13 DEF Authorize
  <2>3. CASE Dismiss(t, {c}) /\ UNCHANGED pc
    <3>1. {c} \in SUBSET Open(t)
      BY <2>1 DEF First, Open
    <3>2. QED
      BY <1>2, <1>6, <2>2, <2>3, <3>1
  <2>4. CASE Goto(t, "proposed") /\ UNCHANGED <<live, todo, cleared>>
    <3>1. pc'[t] = "proposed" /\ \A u \in Task : u # t => pc'[u] = pc[u]
      BY <1>4, <2>4
    <3>2. Fits(live', pc'[t], todo'[t], cleared'[t])
      BY <1>2, <2>4, <3>1 DEF Fits
    <3>3. QED
      BY <1>1, <1>2, <2>2, <2>4, <3>1, <3>2, OwnStep
  <2>5. QED
    BY <2>1, <2>3, <2>4 DEF InterruptedTool
<1>24. CASE Judge(t)
  <2>1. PICK c \in Call : First(c, todo[t]) /\ (Dismiss(t, {c}) \/ Clear(t, c))
    BY <1>24 DEF Judge
  <2>2. c \in todo[t] /\ {c} \in SUBSET Open(t)
    BY <2>1 DEF First, Open
  <2>3. Goto(t, "authorize") /\ UNCHANGED disk
    BY <1>24 DEF Judge
  <2>4. QED
    BY <1>2, <1>6, <1>7, <2>1, <2>2, <2>3
<1>14. CASE Unpark(t)
  <2>1. PICK c \in Call : First(c, todo[t]) /\ (Dismiss(t, {c}) \/ Clear(t, c))
    BY <1>14 DEF Unpark
  <2>2. c \in todo[t] /\ {c} \in SUBSET Open(t)
    BY <2>1 DEF First, Open
  <2>3. Goto(t, "authorize") /\ UNCHANGED disk
    BY <1>14 DEF Unpark
  <2>4. QED
    BY <1>2, <1>6, <1>7, <2>1, <2>2, <2>3
<1>15. CASE Park(t)
  <2>1. pc'[t] = "parked" /\ UNCHANGED <<live, todo, cleared>>
    BY <1>15 DEF Park, Goto, TypeOK
  <2>2. Sound(disk')
    BY <1>2, <1>15 DEF Park, SavePrompt
  <2>3. Fits(live', pc'[t], todo'[t], cleared'[t])
    BY <1>2, <2>1 DEF Fits
  <2>4. QED
    BY <1>1, <1>2, <1>4, <1>15, <2>1, <2>2, <2>3, OwnStep DEF Park
<1>16. CASE StartConcurrent(t)
  <2>1. todo[t] = {} /\ UNCHANGED <<live, disk, todo, cleared>>
    BY <1>16 DEF StartConcurrent
  <2>2. \E label \in {"serial", "gather"} : Goto(t, label)
    BY <1>16 DEF StartConcurrent
  <2>3. QED
    BY <1>2, <1>5, <2>1, <2>2
<1>17. CASE FinishConcurrent(t)
  <2>1. Concurrent(t) \in SUBSET Open(t)
    BY DEF Concurrent, Open
  <2>2. QED
    BY <1>2, <1>6, <1>9, <1>17, <2>1 DEF FinishConcurrent
<1>18. CASE StartSerial(t)
  <2>1. PICK c \in Call : /\ First(c, cleared[t])
                          /\ \/ Dismiss(t, {c}) /\ UNCHANGED pc
                             \/ Goto(t, "starting") /\ UNCHANGED <<live, todo, cleared>>
    BY <1>18 DEF StartSerial, InterruptedTool
  <2>2. {c} \in SUBSET Open(t)
    BY <2>1 DEF First, Open
  <2>3. pc[t] = "serial" /\ todo[t] = {} /\ UNCHANGED disk
    BY <1>9, <1>18 DEF StartSerial
  <2>4. QED
    BY <1>2, <1>5, <1>6, <2>1, <2>2, <2>3
<1>19. CASE FinishSerial(t)
  <2>1. PICK c \in Call : First(c, cleared[t]) /\ Dismiss(t, {c})
    BY <1>19 DEF FinishSerial
  <2>2. {c} \in SUBSET Open(t)
    BY <2>1 DEF First, Open
  <2>3. pc[t] = "tool" /\ todo[t] = {} /\ Goto(t, "serial") /\ UNCHANGED disk
    BY <1>9, <1>19 DEF FinishSerial
  <2>4. QED
    BY <1>2, <1>6, <2>1, <2>2, <2>3
<1>20. CASE EndIteration(t)
  <2>1. todo[t] = {} /\ cleared[t] = {} /\ UNCHANGED <<todo, cleared>>
    BY <1>9, <1>20 DEF EndIteration
  <2>2. Sound(AddUser(live, steering))
    BY <1>1, <1>2, SoundAddUser
  <2>3. Sound(live') /\ Sound(disk')
    BY <1>2, <1>20, <2>2 DEF EndIteration, InjectSteering
  <2>4. \E label \in {"model", "ending"} : Goto(t, label)
    BY <1>20 DEF EndIteration, LoopTop
  <2>5. QED
    BY <1>5, <2>1, <2>3, <2>4
<1>21. CASE EndTurn(t)
  <2>1. Goto(t, "idle") /\ UNCHANGED <<live, todo, cleared>> /\ disk' = live
    BY <1>21 DEF EndTurn
  <2>2. todo[t] = {} /\ cleared[t] = {}
    BY <1>8, <1>21 DEF EndTurn
  <2>3. QED
    BY <1>2, <1>5, <2>1, <2>2
<1>23. CASE Launch(t)
  <2>1. pc[t] = "starting" /\ Goto(t, "tool") /\ UNCHANGED <<live, disk, todo, cleared>>
    BY <1>23 DEF Launch
  <2>2. QED
    BY <1>2, <1>5, <1>9, <2>1
<1>22. QED
  BY <1>23, <1>24, <1>10, <1>11, <1>12, <1>13, <1>14, <1>15, <1>16, <1>17, <1>18, <1>19, <1>20,
     <1>21
     DEF TaskStep

\* An answer from the Inbox page takes the unanswered calls in hand again.
LEMMA ResumeOrdered ==
    ASSUME TypeOK, Claimed, Ordered, DurableResume, UNCHANGED live
    PROVE  Ordered'
<1>1. CASE UNCHANGED taskVars /\ (disk' = disk \/ disk' = live)
  BY <1>1 DEF taskVars, Ordered
<1>2. CASE ~UNCHANGED taskVars
  <2>1. PICK t \in Task \ Active :
            /\ Goto(t, "authorize") /\ todo' = [todo EXCEPT ![t] = Unanswered(live)]
            /\ UNCHANGED <<disk, cleared>>
    BY <1>2 DEF DurableResume
  <2>2. ~running
    BY <1>2 DEF DurableResume
  <2>3. Active = {}
    BY <2>2 DEF Claimed, OneRunner
  <2>4. cleared[t] = {} /\ live \in History
    BY <2>1 DEF Ordered, Fits, Active, TypeOK
  <2>5. pc'[t] = "authorize" /\ todo'[t] = Unanswered(live) /\ cleared'[t] = {}
    BY <2>1, <2>4 DEF Goto, TypeOK
  <2>6. \A u \in Task : u # t => pc'[u] = pc[u] /\ todo'[u] = todo[u] /\ cleared'[u] = cleared[u]
    BY <2>1 DEF Goto, TypeOK
  <2>7. Fits(live', pc'[t], todo'[t], cleared'[t])
    BY <2>4, <2>5, UnansweredIsOpen DEF Fits
  <2>8. QED
    BY <2>1, <2>3, <2>6, <2>7, OwnStep DEF Ordered
<1>3. QED
  BY <1>1, <1>2 DEF DurableResume, taskVars

LEMMA StepOrdered ==
    ASSUME ~Scheduled, TypeOK, Claimed, Ordered, [Next]_vars
    PROVE  Ordered'
<1>1. CASE UNCHANGED <<live, disk, pc, todo, cleared>>
  BY <1>1 DEF Ordered
<1>2. ASSUME NEW t \in Task, NEW label \in {"claimed", "model"},
             Active = {}, Goto(t, label), UNCHANGED <<disk, todo, cleared>>,
             \/ live' = live \/ \E notes \in SUBSET Note : live' = AddUser(live, notes)
      PROVE  Ordered'
  <2>1. todo[t] = {} /\ cleared[t] = {}
    BY <1>2 DEF Ordered, Fits, Active
  <2>2. Sound(live') /\ Sound(disk')
    BY <1>2, SoundAddUser DEF Ordered, TypeOK
  <2>3. pc'[t] = label /\ \A u \in Task : u # t => pc'[u] = pc[u]
    BY <1>2 DEF Goto, TypeOK
  <2>4. Fits(live', pc'[t], todo'[t], cleared'[t])
    BY <1>2, <2>1, <2>3 DEF Fits
  <2>5. QED
    BY <1>2, <2>2, <2>3, <2>4, OwnStep
<1>3. ~running => Active = {}
  BY DEF Claimed, OneRunner
<1>4. ASSUME NEW t \in Task, NEW how \in {"socket", "retry"}, ClaimTurn(t, how)
      PROVE  Ordered'
  BY <1>2, <1>3, <1>4 DEF ClaimTurn, TryMarkRunning
<1>5. ASSUME NEW t \in Task, NEW n \in Note, DeliverIdle(t, n)
      PROVE  Ordered'
  BY <1>2, <1>3, <1>5 DEF DeliverIdle, TryMarkRunning, RunDetached
<1>6. ASSUME NEW n \in Note, DeliverBusy(n)
      PROVE  Ordered'
  BY <1>1, <1>6 DEF DeliverBusy, taskVars
<1>7. ASSUME NEW i \in CallId, NEW d \in Decision, ResolveItem(i, d)
      PROVE  Ordered'
  BY <1>7, ResumeOrdered DEF ResolveItem
<1>8. CASE Crash
  <2>1. \A t \in Task : pc'[t] = "idle" /\ todo'[t] = {} /\ cleared'[t] = {}
    BY <1>8 DEF Crash
  <2>2. \A t \in Task : Fits(live', pc'[t], todo'[t], cleared'[t])
    BY <2>1 DEF Fits
  <2>3. QED
    BY <1>8, <2>2 DEF Crash, Ordered
<1>9. CASE People
  BY <1>1, <1>7, <1>9 DEF People, Stop, ReplyItem, SendFrame, FrameArrives, taskVars
<1>10. CASE UNCHANGED vars
  BY <1>1, <1>10 DEF vars, taskVars
<1>11. CASE Starts
  BY <1>4, <1>5, <1>6, <1>11 DEF Starts, StartScheduled
<1>12. QED
  BY <1>8, <1>9, <1>10, <1>11, TaskStepOrdered DEF Next

\* Every tool call gets at most one result, through any number of stops, answers,
\* resumptions and restarts: engine.resume answers the unanswered calls only.
THEOREM AnsweredOnceCorrect ==
    ASSUME ~Scheduled
    PROVE  Spec => []AnsweredOnce
<1>1. Init => Claimed /\ Ordered
  BY InitOrdered DEF Init, Claimed, OneRunner, Active
<1>2. TypeOK /\ Claimed /\ Ordered /\ [Next]_vars => (Claimed /\ Ordered)'
  BY StepClaimed, StepOrdered
<1>3. Ordered => AnsweredOnce
  BY DEF Ordered, Sound, AnsweredOnce
<1>4. QED
  BY <1>1, <1>2, <1>3, TypeCorrect, PTL DEF Spec

-----------------------------------------------------------------------------
(* Executions: in each life of the server a call runs at most once.        *)

\* The calls whose tools are running.
Started(t) ==
    IF pc[t] = "gather" THEN Concurrent(t)
    ELSE IF pc[t] = "tool" THEN {c \in Call : First(c, cleared[t])} ELSE {}

\* A call without a result that is not running was not started in this life.
Once ==
    /\ \A c \in Call : executed[c] <= 1 + crashes
    /\ \A c \in Call :
          live.answers[c] = 0 /\ (\A t \in Task : c \notin Started(t)) => executed[c] <= crashes

LEMMA FirstIsUnique ==
    ASSUME NEW S \in SUBSET Call, NEW c \in Call, NEW d \in Call, First(c, S), First(d, S)
    PROVE  c = d
BY SessionAssumption DEF First, Call

\* Only the one coroutine that is not idle has a tool running.
LEMMA OneStarts ==
    ASSUME Claimed, NEW t \in Task, pc[t] # "idle", NEW u \in Task, u # t
    PROVE  Started(u) = {}
BY DEF Claimed, OneRunner, Active, Started

\* A step without a tool running, that answers nothing.
LEMMA QuietOnce ==
    ASSUME Once, \A t \in Task : Started(t) = {},
           UNCHANGED <<executed, crashes>>, live'.answers = live.answers
    PROVE  Once'
BY DEF Once

\* A step that answers calls in hand, the running ones among them, and starts none.
LEMMA DismissOnce ==
    ASSUME TypeOK, Claimed, Ordered, Once, NEW t \in Task, pc[t] # "idle",
           NEW S \in SUBSET Open(t), Dismiss(t, S), Started(t) \subseteq S,
           UNCHANGED <<executed, crashes>>
    PROVE  Once'
<1>1. S \in SUBSET Call /\ live \in History
  BY DEF TypeOK, Open
<1>2. S \subseteq live.round /\ \A c \in S : live.answers[c] = 0
  BY DEF Ordered, Fits, Open
<1>3. S \subseteq 1..live.used /\ Sound(live)
  BY <1>2 DEF Ordered, Sound
<1>4. \A c \in Call : live'.answers[c] = IF c \in S THEN 1 ELSE live.answers[c]
  BY <1>1, <1>2, <1>3, SoundAddResults DEF Dismiss
<1>5. \A u \in Task : Started(u) \subseteq S
  BY OneStarts
<1>6. QED
  BY <1>4, <1>5 DEF Once

\* A step that starts calls in hand.
LEMMA ExecuteOnce ==
    ASSUME TypeOK, Ordered, Once, NEW t \in Task, \A u \in Task : Started(u) = {},
           NEW S \in SUBSET cleared[t], Execute(S), UNCHANGED <<live, crashes>>,
           S \subseteq Started(t)'
    PROVE  Once'
<1>1. \A c \in S : live.answers[c] = 0 /\ c \in Call
  BY DEF Ordered, Fits, TypeOK
<1>2. \A c \in S : executed[c] <= crashes
  BY <1>1 DEF Once
<1>3. \A c \in Call : executed'[c] = IF c \in S THEN executed[c] + 1 ELSE executed[c]
  BY DEF Execute
<1>4. \A c \in Call : executed[c] \in Nat /\ crashes \in Nat
  BY DEF TypeOK
<1>5. \A c \in Call : executed'[c] <= 1 + crashes
  BY <1>2, <1>3, <1>4 DEF Once
<1>6. ASSUME NEW c \in Call, live.answers[c] = 0, \A u \in Task : c \notin Started(u)'
      PROVE  executed'[c] <= crashes
  BY <1>3, <1>6 DEF Once
<1>7. QED
  BY <1>5, <1>6 DEF Once

LEMMA TaskStepOnce ==
    ASSUME TypeOK, Claimed, Ordered, Once, NEW t \in Task, TaskStep(t)
    PROVE  Once'
<1>1. pc[t] # "idle" /\ live \in History /\ UNCHANGED crashes
  BY DEF TypeOK, TaskStep, Begin, ModelCalls, ModelText, ModelEnds, Authorize, Judge, Park,
         Unpark, StartConcurrent, FinishConcurrent, StartSerial, Launch, FinishSerial,
         EndIteration, EndTurn, countVars
<1>2. pc[t] \notin {"gather", "tool"} => \A u \in Task : Started(u) = {}
  BY <1>1, OneStarts DEF Started
<1>3. CASE \/ Begin(t) \/ ModelCalls(t) \/ ModelText(t) \/ ModelEnds(t) \/ Park(t)
           \/ EndIteration(t) \/ EndTurn(t)
  <2>1. \A notes : AddUser(live, notes).answers = live.answers
    BY <1>1 DEF AddUser, History
  <2>2. \A b : [live EXCEPT !.failed = b].answers = live.answers
    BY <1>1 DEF History
  <2>3. \A k : AddRound(live, k).answers = live.answers
    BY <1>1 DEF AddRound, History
  <2>4. live'.answers = live.answers
    BY <1>3, <2>1, <2>2, <2>3
       DEF Begin, ModelCalls, ModelText, ModelEnds, Park, EndIteration, EndTurn, InjectSteering
  <2>5. pc[t] \notin {"gather", "tool"} /\ UNCHANGED executed
    BY <1>3 DEF Begin, ModelCalls, ModelText, ModelEnds, Park, EndIteration, EndTurn
  <2>6. QED
    BY <1>1, <1>2, <2>4, <2>5, QuietOnce
<1>4. CASE Judge(t) \/ Unpark(t)
  <2>1. PICK c \in Call : First(c, todo[t]) /\ (Dismiss(t, {c}) \/ Clear(t, c))
    BY <1>4 DEF Judge, Unpark
  <2>2. {c} \in SUBSET Open(t)
    BY <2>1 DEF First, Open
  <2>3. pc[t] \in {"proposed", "parked"} /\ UNCHANGED executed
    BY <1>4 DEF Judge, Unpark
  <2>4. \A u \in Task : Started(u) = {}
    BY <1>2, <2>3
  <2>5. CASE Dismiss(t, {c})
    BY <1>1, <2>2, <2>3, <2>4, <2>5, DismissOnce
  <2>6. CASE Clear(t, c)
    BY <1>1, <2>3, <2>4, <2>6, QuietOnce DEF Clear
  <2>7. QED
    BY <2>1, <2>5, <2>6
<1>5. CASE StartConcurrent(t)
  <2>1. pc[t] = "authorize" /\ Execute(Concurrent(t)) /\ UNCHANGED <<live, todo, cleared>>
    BY <1>5 DEF StartConcurrent
  <2>2. Concurrent(t) \in SUBSET cleared[t] /\ Concurrent(t)' = Concurrent(t)
    BY <2>1 DEF Concurrent
  <2>3. Concurrent(t) # {} => pc'[t] = "gather"
    BY <1>5 DEF StartConcurrent, Goto, TypeOK
  <2>4. Concurrent(t) \subseteq Started(t)'
    BY <2>2, <2>3 DEF Started
  <2>5. QED
    BY <1>1, <1>2, <2>1, <2>2, <2>4, ExecuteOnce
<1>6. CASE FinishConcurrent(t)
  <2>1. Concurrent(t) \in SUBSET Open(t)
    BY DEF Concurrent, Open
  <2>2. pc[t] = "gather" /\ Dismiss(t, Concurrent(t)) /\ UNCHANGED executed
    BY <1>6 DEF FinishConcurrent
  <2>3. Started(t) = Concurrent(t)
    BY <2>2 DEF Started
  <2>4. QED
    BY <1>1, <2>1, <2>2, <2>3, DismissOnce
<1>7. CASE Authorize(t) \/ StartSerial(t)
  <2>1. PICK c \in Open(t) : Dismiss(t, {c}) \/ UNCHANGED live
    BY <1>7 DEF Authorize, StartSerial, InterruptedTool, First, Open
  <2>2. pc[t] \in {"authorize", "serial"} /\ UNCHANGED executed
    BY <1>7 DEF Authorize, StartSerial
  <2>3. \A u \in Task : Started(u) = {}
    BY <1>2, <2>2
  <2>4. CASE Dismiss(t, {c})
    BY <1>1, <2>2, <2>3, <2>4, DismissOnce
  <2>5. CASE UNCHANGED live
    BY <1>1, <2>2, <2>3, <2>5, QuietOnce
  <2>6. QED
    BY <2>1, <2>4, <2>5
<1>10. CASE Launch(t)
  <2>1. PICK c \in Call : First(c, cleared[t]) /\ Execute({c})
    BY <1>10 DEF Launch
  <2>2. pc[t] = "starting" /\ Goto(t, "tool") /\ UNCHANGED <<live, todo, cleared>>
    BY <1>10 DEF Launch
  <2>3. \A u \in Task : Started(u) = {}
    BY <1>2, <2>2
  <2>4. pc'[t] = "tool" /\ First(c, cleared'[t])
    BY <2>1, <2>2 DEF Goto, TypeOK
  <2>5. {c} \subseteq Started(t)'
    BY <2>4 DEF Started
  <2>6. {c} \in SUBSET cleared[t]
    BY <2>1 DEF First
  <2>7. QED
    BY <1>1, <2>1, <2>2, <2>3, <2>5, <2>6, ExecuteOnce
<1>8. CASE FinishSerial(t)
  <2>1. PICK c \in Call : First(c, cleared[t]) /\ Dismiss(t, {c})
    BY <1>8 DEF FinishSerial
  <2>2. {c} \in SUBSET Open(t) /\ cleared[t] \in SUBSET Call
    BY <2>1 DEF First, Open, TypeOK
  <2>3. pc[t] = "tool" /\ UNCHANGED executed
    BY <1>8 DEF FinishSerial
  <2>4. Started(t) \subseteq {c}
    BY <2>1, <2>2, <2>3, FirstIsUnique DEF Started
  <2>5. QED
    BY <1>1, <2>1, <2>2, <2>3, <2>4, DismissOnce
<1>9. QED
  BY <1>3, <1>4, <1>5, <1>6, <1>7, <1>8, <1>10 DEF TaskStep

\* Nothing runs after a restart: every call may run once more.
LEMMA StepOnce ==
    ASSUME ~Scheduled, TypeOK, Claimed, Ordered, Once, [Next]_vars
    PROVE  Once'
<1>1. CASE UNCHANGED <<live, pc, cleared, executed, crashes>>
  BY <1>1 DEF Once, Started, Concurrent
<1>2. ASSUME ~running, UNCHANGED <<executed, crashes>>, live'.answers = live.answers
      PROVE  Once'
  BY <1>2, QuietOnce DEF Claimed, OneRunner, Active, Started
<1>3. ASSUME NEW t \in Task, NEW how \in {"socket", "retry"}, ClaimTurn(t, how)
      PROVE  Once'
  BY <1>2, <1>3 DEF ClaimTurn, TryMarkRunning
<1>4. ASSUME NEW t \in Task, NEW n \in Note, DeliverIdle(t, n)
      PROVE  Once'
  <2>1. live'.answers = live.answers
    BY <1>4 DEF DeliverIdle, RunDetached, AddUser, TypeOK, History
  <2>2. QED
    BY <1>2, <1>4, <2>1 DEF DeliverIdle, TryMarkRunning, RunDetached
<1>5. ASSUME NEW n \in Note, DeliverBusy(n)
      PROVE  Once'
  BY <1>1, <1>5 DEF DeliverBusy, taskVars, countVars
<1>6. ASSUME NEW i \in CallId, NEW d \in Decision, ResolveItem(i, d)
      PROVE  Once'
  <2>1. UNCHANGED taskVars \/ ~running
    BY <1>6 DEF ResolveItem, DurableResume
  <2>2. QED
    BY <1>1, <1>2, <1>6, <2>1 DEF ResolveItem, taskVars, countVars
<1>7. CASE Crash
  <2>1. \A c \in Call : executed[c] \in Nat /\ crashes \in Nat
    BY DEF TypeOK
  <2>2. QED
    BY <1>7, <2>1 DEF Crash, Once
<1>8. CASE People
  BY <1>1, <1>6, <1>8 DEF People, Stop, ReplyItem, SendFrame, FrameArrives, taskVars, countVars
<1>9. CASE UNCHANGED vars
  BY <1>1, <1>9 DEF vars, taskVars, countVars
<1>10. CASE Starts
  BY <1>3, <1>4, <1>5, <1>10 DEF Starts, StartScheduled
<1>11. QED
  BY <1>7, <1>8, <1>9, <1>10, TaskStepOnce DEF Next

\* However turns are stopped, answered from elsewhere and resumed, each restart of the
\* server lets a tool call run once more at most: a later resumption goes only over
\* the calls that no result was recorded for (engine.resume).
THEOREM OncePerLifeCorrect ==
    ASSUME ~Scheduled
    PROVE  Spec => [](\A c \in Call : executed[c] <= 1 + crashes)
<1>1. Init => Claimed /\ Ordered /\ Once
  BY InitOrdered DEF Init, Claimed, OneRunner, Active, Once
<1>2. TypeOK /\ (Claimed /\ Ordered /\ Once) /\ [Next]_vars => (Claimed /\ Ordered /\ Once)'
  BY StepClaimed, StepOrdered, StepOnce
<1>3. Once => \A c \in Call : executed[c] <= 1 + crashes
  BY DEF Once
<1>4. QED
  BY <1>1, <1>2, <1>3, TypeCorrect, PTL DEF Spec

\* In one life of the server no tool call is executed twice (engine.resume: "nothing
\* double-executes").
THEOREM AtMostOnceCorrect ==
    ASSUME ~Scheduled, MaxCrash = 0
    PROVE  Spec => []AtMostOnce
<1>1. TypeOK /\ (\A c \in Call : executed[c] <= 1 + crashes) => AtMostOnce
  BY DEF TypeOK, AtMostOnce
<1>2. QED
  BY <1>1, TypeCorrect, OncePerLifeCorrect, PTL

-----------------------------------------------------------------------------
(* Results: no call is left open in one life of the server.                *)

\* A call without a result is in somebody's hands.
Covered ==
    \A c \in 1..live.used : live.answers[c] = 0 => \E t \in Task : c \in Open(t)

\* What the one coroutine that is not idle has to show for.
LEMMA OwnCovered ==
    ASSUME Claimed, Ordered, Covered, NEW t \in Task, pc[t] # "idle"
    PROVE  \A c \in 1..live.used : live.answers[c] = 0 => c \in Open(t)
BY OthersIdle DEF Covered, Open

LEMMA DismissCovered ==
    ASSUME TypeOK, Claimed, Ordered, Covered, NEW t \in Task, pc[t] # "idle",
           NEW S \in SUBSET Open(t), Dismiss(t, S)
    PROVE  Covered'
<1>1. S \in SUBSET Call /\ live \in History
  BY DEF TypeOK, Open
<1>2. S \subseteq live.round /\ \A c \in S : live.answers[c] = 0
  BY DEF Ordered, Fits, Open
<1>3. S \subseteq 1..live.used /\ Sound(live)
  BY <1>2 DEF Ordered, Sound
<1>4. /\ live'.used = live.used
      /\ \A c \in Call : live'.answers[c] = IF c \in S THEN 1 ELSE live.answers[c]
  BY <1>1, <1>2, <1>3, SoundAddResults DEF Dismiss
<1>5. Open(t)' = Open(t) \ S
  BY DEF Dismiss, Open, TypeOK
<1>6. 1..live.used \subseteq Call
  BY <1>1, SessionAssumption DEF History, Call
<1>7. \A c \in 1..live.used : live.answers[c] = 0 => c \in Open(t)
  BY OwnCovered
<1>8. \A c \in 1..live'.used : live'.answers[c] = 0 => c \in Open(t)'
  BY <1>4, <1>5, <1>6, <1>7
<1>9. QED
  BY <1>8 DEF Covered

LEMMA TaskStepCovered ==
    ASSUME TypeOK, Claimed, Ordered, Covered, NEW t \in Task, TaskStep(t)
    PROVE  Covered'
<1>1. pc[t] # "idle" /\ live \in History
  BY DEF TypeOK, TaskStep, Begin, ModelCalls, ModelText, ModelEnds, Authorize, Judge, Park, Unpark,
         StartConcurrent, FinishConcurrent, StartSerial, Launch, FinishSerial, EndIteration, EndTurn
<1>2. todo[t] \subseteq Call /\ cleared[t] \subseteq Call
  BY DEF TypeOK
<1>3. \A c \in 1..live.used : live.answers[c] = 0 => c \in Open(t)
  BY <1>1, OwnCovered
<1>4. ASSUME Open(t)' = Open(t), live'.used = live.used, live'.answers = live.answers
      PROVE  Covered'
  BY <1>3, <1>4 DEF Covered
<1>5. CASE Begin(t) \/ ModelText(t) \/ ModelEnds(t) \/ EndIteration(t) \/ EndTurn(t) \/ Park(t)
  <2>1. \A notes : AddUser(live, notes).used = live.used /\ AddUser(live, notes).answers = live.answers
    BY <1>1 DEF AddUser, History
  <2>2. \A b : /\ [live EXCEPT !.failed = b].used = live.used
               /\ [live EXCEPT !.failed = b].answers = live.answers
    BY <1>1 DEF History
  <2>3. live'.used = live.used /\ live'.answers = live.answers
    BY <1>5, <2>1, <2>2
       DEF Begin, ModelText, ModelEnds, EndIteration, EndTurn, Park, InjectSteering
  <2>4. UNCHANGED <<todo, cleared>>
    BY <1>5 DEF Begin, ModelText, ModelEnds, EndIteration, EndTurn, Park
  <2>5. QED
    BY <1>4, <2>3, <2>4 DEF Open
<1>6. CASE ModelCalls(t)
  <2>1. PICK k \in 1..MaxCalls : /\ live.used + k <= NumCalls
                                 /\ live' = AddRound(live, k)
                                 /\ todo' = [todo EXCEPT ![t] = live'.round]
    BY <1>6 DEF ModelCalls
  <2>2. /\ live'.used = live.used + k /\ live'.answers = live.answers
        /\ live'.round = (live.used + 1)..(live.used + k)
    BY <1>1, <2>1, SoundAddRound DEF Ordered
  <2>3. Open(t) = {}
    BY <1>6 DEF ModelCalls, Ordered, Fits, Open
  <2>4. live'.round \subseteq Open(t)'
    BY <2>1 DEF TypeOK, Open
  <2>5. live.used \in Nat /\ k \in Nat
    BY <1>1 DEF History
  <2>6. \A c \in 1..live'.used : live'.answers[c] = 0 => c \in Open(t)'
    BY <1>3, <2>2, <2>3, <2>4, <2>5
  <2>7. QED
    BY <2>6 DEF Covered
<1>7. ASSUME NEW c \in todo[t], Clear(t, c)
      PROVE  Covered'
  BY <1>4, <1>7 DEF Clear, Open, TypeOK
<1>8. CASE Judge(t) \/ Unpark(t)
  <2>1. PICK c \in Call : First(c, todo[t]) /\ (Dismiss(t, {c}) \/ Clear(t, c))
    BY <1>8 DEF Judge, Unpark
  <2>2. c \in todo[t] /\ {c} \in SUBSET Open(t)
    BY <2>1 DEF First, Open
  <2>3. QED
    BY <1>1, <1>7, <2>1, <2>2, DismissCovered
<1>9. CASE FinishConcurrent(t)
  <2>1. Concurrent(t) \in SUBSET Open(t)
    BY DEF Concurrent, Open
  <2>2. QED
    BY <1>1, <1>9, <2>1, DismissCovered DEF FinishConcurrent
<1>10. CASE StartConcurrent(t) \/ Launch(t)
  BY <1>4, <1>10 DEF StartConcurrent, Launch, Open
<1>11. CASE Authorize(t) \/ StartSerial(t) \/ FinishSerial(t)
  <2>1. PICK c \in Open(t) : Dismiss(t, {c}) \/ UNCHANGED <<live, todo, cleared>>
    BY <1>11 DEF Authorize, StartSerial, FinishSerial, InterruptedTool, First, Open
  <2>2. {c} \in SUBSET Open(t)
    BY <2>1
  <2>3. QED
    BY <1>1, <1>4, <2>1, <2>2, DismissCovered DEF Open
<1>12. QED
  BY <1>5, <1>6, <1>8, <1>9, <1>10, <1>11 DEF TaskStep

\* Between turns everything is answered, so there is nothing to resume.
LEMMA NothingOpen ==
    ASSUME TypeOK, Claimed, Ordered, Covered, ~running
    PROVE  /\ \A c \in 1..live.used : live.answers[c] # 0
           /\ Unanswered(live) = {}
<1>1. \A t \in Task : Open(t) = {}
  BY DEF Claimed, OneRunner, Active, Ordered, Fits, Open
<1>2. \A c \in 1..live.used : live.answers[c] # 0
  BY <1>1 DEF Covered
<1>3. ASSUME NEW c \in Unanswered(live)
      PROVE  FALSE
  <2>1. c \in live.round /\ live.answers[c] = 0
    BY <1>3, UnansweredIsOpen DEF TypeOK
  <2>2. QED
    BY <1>2, <2>1 DEF Ordered, Sound
<1>4. QED
  BY <1>2, <1>3

LEMMA StepCovered ==
    ASSUME ~Scheduled, MaxCrash = 0, TypeOK, Claimed, Ordered, Covered, [Next]_vars
    PROVE  Covered'
<1>1. CASE UNCHANGED <<live, todo, cleared>>
  BY <1>1 DEF Covered, Open
<1>2. ASSUME ~running, live'.used = live.used, live'.answers = live.answers
      PROVE  Covered'
  BY <1>2, NothingOpen DEF Covered
<1>3. ASSUME NEW t \in Task, NEW how \in {"socket", "retry"}, ClaimTurn(t, how)
      PROVE  Covered'
  BY <1>2, <1>3 DEF ClaimTurn, TryMarkRunning
<1>4. ASSUME NEW t \in Task, NEW n \in Note, DeliverIdle(t, n)
      PROVE  Covered'
  <2>1. live'.used = live.used /\ live'.answers = live.answers
    BY <1>4 DEF DeliverIdle, RunDetached, AddUser, TypeOK, History
  <2>2. QED
    BY <1>2, <1>4, <2>1 DEF DeliverIdle, TryMarkRunning, RunDetached
<1>5. ASSUME NEW n \in Note, DeliverBusy(n)
      PROVE  Covered'
  BY <1>1, <1>5 DEF DeliverBusy, taskVars
<1>6. ASSUME NEW i \in CallId, NEW d \in Decision, ResolveItem(i, d)
      PROVE  Covered'
  <2>1. UNCHANGED taskVars
    BY <1>6, NothingOpen DEF ResolveItem, DurableResume
  <2>2. QED
    BY <1>1, <1>6, <2>1 DEF ResolveItem, taskVars
<1>7. CASE Crash
  BY <1>7, SessionAssumption DEF Crash, TypeOK
<1>8. CASE People
  BY <1>1, <1>6, <1>8 DEF People, Stop, ReplyItem, SendFrame, FrameArrives, taskVars
<1>9. CASE UNCHANGED vars
  BY <1>1, <1>9 DEF vars, taskVars
<1>10. CASE Starts
  BY <1>3, <1>4, <1>5, <1>10 DEF Starts, StartScheduled
<1>11. QED
  BY <1>7, <1>8, <1>9, <1>10, TaskStepCovered DEF Next

\* In one life of the server no call is without its result between turns, whatever was
\* stopped, declined or timed out (request_interrupt: "the history never carries orphans").
THEOREM NoOrphansCorrect ==
    ASSUME ~Scheduled, MaxCrash = 0
    PROVE  Spec => []NoOrphans
<1>1. Init => Claimed /\ Ordered /\ Covered
  <2>1. Init => Covered
    BY DEF Init, Covered, NoHistory
  <2>2. QED
    BY <2>1, InitOrdered DEF Init, Claimed, OneRunner, Active
<1>2. TypeOK /\ (Claimed /\ Ordered /\ Covered) /\ [Next]_vars
          => (Claimed /\ Ordered /\ Covered)'
  BY StepClaimed, StepOrdered, StepCovered
<1>3. TypeOK /\ Claimed /\ Ordered /\ Covered => NoOrphans
  <2> SUFFICES ASSUME TypeOK, Claimed, Ordered, Covered
               PROVE  NoOrphans
    OBVIOUS
  <2>1. 1..live.used \subseteq Call /\ live.answers \in [Call -> Nat]
    BY SessionAssumption DEF TypeOK, History, Call
  <2>2. Active = {} => ~running
    BY DEF Claimed, OneRunner
  <2>3. QED
    BY <2>1, <2>2, NothingOpen DEF NoOrphans
<1>4. QED
  BY <1>1, <1>2, <1>3, TypeCorrect, PTL DEF Spec

-----------------------------------------------------------------------------
(* Prompts.                                                                *)

\* The provider gives every call an id of its own.
FreshIdOf == \A c, d \in Call : IdOf[c] = IdOf[d] => c = d

\* A prompt stays as it was raised while its coroutine waits.
LEMMA StaysParked ==
    ASSUME ~Scheduled, TypeOK, Claimed, [Next]_vars, NEW t \in Task, pc'[t] = "parked", ~Park(t)
    PROVE  /\ pc[t] = "parked" /\ todo'[t] = todo[t] /\ UNCHANGED <<live, disk>>
           /\ \A i \in CallId : item'[i] = "pending" => item[i] = "pending"
<1>1. CASE UNCHANGED <<pc, todo, live, disk, item>>
  BY <1>1
<1>2. ASSUME NEW u \in Task, TaskStep(u)
      PROVE  FALSE
  <2>1. pc[u] # "idle"
    BY <1>2 DEF TaskStep, Begin, ModelCalls, ModelText, ModelEnds, Authorize, Judge, Park, Unpark,
         StartConcurrent, FinishConcurrent, StartSerial, Launch, FinishSerial, EndIteration, EndTurn
  <2>2. \A w \in Task : w # u => pc[w] = "idle"
    BY <2>1 DEF Claimed, OneRunner, Active
  <2>3. CASE u = t
    <3>1. \/ \E label : label # "parked" /\ Goto(t, label)
          \/ UNCHANGED pc /\ pc[t] \in {"authorize", "serial"}
      BY <1>2, <2>3 DEF TaskStep, Begin, ModelCalls, ModelText, ModelEnds, Authorize, Judge,
           Unpark, StartConcurrent, FinishConcurrent, StartSerial, Launch, FinishSerial,
           EndIteration, EndTurn, LoopTop
    <3>2. QED
      BY <3>1 DEF Goto, TypeOK
  <2>4. CASE u # t
    <3>1. pc'[t] = pc[t]
      BY <1>2, <2>4 DEF TypeOK, TaskStep, Begin, ModelCalls, ModelText, ModelEnds, Authorize,
           Judge, Park, Unpark, StartConcurrent, FinishConcurrent, StartSerial, Launch,
           FinishSerial, EndIteration, EndTurn, LoopTop, Goto
    <3>2. QED
      BY <2>2, <2>4, <3>1
  <2>5. QED
    BY <2>3, <2>4
<1>3. ASSUME NEW i \in CallId, NEW d \in Decision, Resolve(i, d)
      PROVE  \A j \in CallId : item'[j] = "pending" => item[j] = "pending"
  BY <1>3 DEF Resolve, TypeOK, Decision
<1>4. CASE Starts
  <2>1. ASSUME NEW u \in Task, ~running, \E label \in {"claimed", "model"} : Goto(u, label)
        PROVE  FALSE
    <3>1. \A w \in Task : pc[w] = "idle"
      BY <2>1 DEF Claimed, OneRunner, Active
    <3>2. QED
      BY <2>1, <3>1 DEF Goto, TypeOK
  <2>2. ASSUME NEW n \in Note, DeliverBusy(n)
        PROVE  UNCHANGED <<pc, todo, live, disk, item>>
    BY <2>2 DEF DeliverBusy, taskVars, inboxVars
  <2>3. QED
    BY <1>1, <1>4, <2>1, <2>2 DEF Starts, StartScheduled, ClaimTurn, DeliverIdle, RunDetached,
                                  TryMarkRunning
<1>5. ASSUME NEW i \in CallId, NEW d \in Decision, ResolveItem(i, d)
      PROVE  /\ pc[t] = "parked" /\ todo'[t] = todo[t] /\ UNCHANGED <<live, disk>>
             /\ \A j \in CallId : item'[j] = "pending" => item[j] = "pending"
  <2>1. \A j \in CallId : item'[j] = "pending" => item[j] = "pending"
    BY <1>3, <1>5 DEF ResolveItem
  <2>2. CASE running
    BY <1>5, <2>1, <2>2 DEF ResolveItem, DurableResume, taskVars
  <2>3. CASE ~running
    <3>1. \A w \in Task : pc[w] = "idle"
      BY <2>3 DEF Claimed, OneRunner, Active
    <3>2. pc' = pc \/ \E u \in Task : Goto(u, "authorize")
      BY <1>5 DEF ResolveItem, DurableResume, taskVars
    <3>3. QED
      BY <3>1, <3>2 DEF Goto, TypeOK
  <2>4. QED
    BY <2>2, <2>3
<1>6. CASE People
  <2>1. \A v \in View : frame[v] # NoFrame => frame[v] \in Decision
    BY DEF TypeOK
  <2>2. ASSUME NEW v \in View, FrameArrives(v)
        PROVE  /\ UNCHANGED <<pc, todo, live, disk>>
               /\ \A j \in CallId : item'[j] = "pending" => item[j] = "pending"
    BY <1>3, <2>1, <2>2 DEF FrameArrives, taskVars, inboxVars
  <2>3. ASSUME NEW i \in CallId, NEW d \in Decision, ReplyItem(i, d)
        PROVE  /\ UNCHANGED <<pc, todo, live, disk>>
               /\ \A j \in CallId : item'[j] = "pending" => item[j] = "pending"
    BY <1>3, <2>3 DEF ReplyItem, taskVars
  <2>4. QED
    BY <1>1, <1>5, <1>6, <2>2, <2>3 DEF People, Stop, SendFrame, taskVars, inboxVars
<1>7. CASE Crash
  BY <1>7 DEF Crash
<1>8. CASE UNCHANGED vars
  BY <1>1, <1>8 DEF vars, taskVars, inboxVars
<1>9. QED
  BY <1>2, <1>4, <1>6, <1>7, <1>8 DEF Next

LEMMA StepDurable ==
    ASSUME ~Scheduled, FreshIdOf, TypeOK, Claimed, Ordered, ParkedIsDurable, [Next]_vars
    PROVE  ParkedIsDurable'
<1> SUFFICES ASSUME NEW t \in Task, NEW c \in Call,
                    pc'[t] = "parked", First(c, todo'[t]), item'[IdOf[c]] = "pending"
             PROVE  disk'.round = live'.round /\ c \in Unanswered(disk')
  BY DEF ParkedIsDurable, ParkedOn, Unanswered
<1>1. IdOf[c] \in CallId
  BY SessionAssumption
<1>2. CASE ~Park(t)
  <2>1. /\ pc[t] = "parked" /\ todo'[t] = todo[t] /\ UNCHANGED <<live, disk>>
        /\ item[IdOf[c]] = "pending"
    BY <1>1, <1>2, StaysParked
  <2>2. ParkedOn(t, c)
    BY <2>1 DEF ParkedOn
  <2>3. disk.round = live.round /\ c \in Unanswered(disk)
    BY <2>1, <2>2 DEF ParkedIsDurable
  <2>4. QED
    BY <2>1, <2>3
<1>3. CASE Park(t)
  <2>1. UNCHANGED <<live, todo>>
    BY <1>3 DEF Park
  <2>2. PICK d \in Call : First(d, todo[t]) /\ SavePrompt(t, d)
    BY <1>3 DEF Park
  <2>3. d = c
    BY <2>1, <2>2, FirstIsUnique DEF TypeOK
  <2>4. disk' = live
    BY <2>2, <2>3 DEF SavePrompt
  <2>5. c \in live.round /\ live.answers[c] = 0
    BY <2>1 DEF Ordered, Fits, First
  <2>6. \A e \in Call : IdOf[e] = IdOf[c] => live.answers[e] = 0
    BY <2>5 DEF FreshIdOf
  <2>7. QED
    BY <2>1, <2>4, <2>5, <2>6 DEF Unanswered
<1>4. QED
  BY <1>2, <1>3

\* A turn that waits for a person is on disk with the call unanswered, in every life of
\* the server, so that an answer after a crash can resume it (persist_session in the
\* prompt callbacks).
THEOREM DurableCorrect ==
    ASSUME ~Scheduled, FreshIdOf
    PROVE  Spec => []ParkedIsDurable
<1>1. Init => Claimed /\ Ordered /\ ParkedIsDurable
  BY InitOrdered DEF Init, Claimed, OneRunner, Active, ParkedIsDurable, ParkedOn
<1>2. TypeOK /\ (Claimed /\ Ordered /\ ParkedIsDurable) /\ [Next]_vars
          => (Claimed /\ Ordered /\ ParkedIsDurable)'
  BY StepClaimed, StepOrdered, StepDurable
<1>3. QED
  BY <1>1, <1>2, TypeCorrect, PTL DEF Spec

\* While Stop is set, the one call that is started is the announced one.
LEMMA StoppedStarts ==
    ASSUME TypeOK, [Next]_vars, cancel, NEW c \in Call \ LowRisk, executed'[c] > executed[c]
    PROVE  c \in Announced
<1>1. executed[c] \in Nat
  BY DEF TypeOK
<1>6. executed' # executed
  BY <1>1
<1>2. PICK t \in Task : StartConcurrent(t) \/ Launch(t)
  BY <1>6 DEF Next, TaskStep, Begin, ModelCalls, ModelText, ModelEnds, Authorize, Judge, Park,
         Unpark, FinishConcurrent, StartSerial, FinishSerial, EndIteration, EndTurn, Starts,
         ClaimTurn, DeliverIdle, DeliverBusy, StartScheduled, RunDetached, People, Stop,
         ResolveItem, ReplyItem, SendFrame, FrameArrives, Crash, vars
<1>3. CASE StartConcurrent(t)
  <2>1. c \notin Concurrent(t)
    BY DEF Concurrent
  <2>2. QED
    BY <1>1, <1>3, <2>1 DEF StartConcurrent, Execute
<1>4. CASE Launch(t)
  BY <1>1, <1>4 DEF Launch, Execute, Announced
<1>5. QED
  BY <1>2, <1>3, <1>4

\* Only StartSerial announces a call, and it looks at Stop first.
LEMMA StoppedAnnounces ==
    ASSUME TypeOK, [Next]_vars, cancel, cancel'
    PROVE  Announced' \subseteq Announced
<1>1. SUFFICES ASSUME NEW t \in Task, pc'[t] = "starting"
               PROVE  pc[t] = "starting" /\ cleared'[t] = cleared[t]
  BY DEF Announced, First
<1>2. ASSUME NEW u \in Task, TaskStep(u)
      PROVE  u # t
  <2>1. CASE \E label \in Label \ {"starting"} : Goto(u, label)
    BY <1>1, <2>1 DEF Goto, TypeOK
  <2>2. CASE UNCHANGED pc /\ pc[u] \in {"authorize", "serial"}
    BY <1>1, <2>2
  <2>3. QED
    BY <1>2, <2>1, <2>2 DEF TaskStep, Begin, ModelCalls, ModelText, ModelEnds, Authorize, Judge,
       Park, Unpark, StartConcurrent, FinishConcurrent, StartSerial, Launch, FinishSerial,
       EndIteration, EndTurn, LoopTop, Label
<1>3. ASSUME NEW u \in Task, TaskStep(u)
      PROVE  pc'[t] = pc[t] /\ cleared'[t] = cleared[t]
  <2>1. u # t
    BY <1>2, <1>3
  <2>2. UNCHANGED pc \/ \E label : pc' = [pc EXCEPT ![u] = label]
    BY <1>3 DEF TaskStep, Begin, ModelCalls, ModelText, ModelEnds, Authorize, Judge, Park, Unpark,
       StartConcurrent, FinishConcurrent, StartSerial, Launch, FinishSerial, EndIteration,
       EndTurn, LoopTop, Goto
  <2>3. UNCHANGED cleared \/ \E S : cleared' = [cleared EXCEPT ![u] = S]
    BY <1>3 DEF TaskStep, Begin, ModelCalls, ModelText, ModelEnds, Authorize, Judge, Park, Unpark,
       StartConcurrent, FinishConcurrent, StartSerial, Launch, FinishSerial, EndIteration,
       EndTurn, InterruptedTool, Dismiss, Clear
  <2>4. QED
    BY <2>1, <2>2, <2>3 DEF TypeOK
<1>4. CASE Starts
  BY <1>1, <1>4 DEF Starts, ClaimTurn, DeliverIdle, DeliverBusy, StartScheduled, RunDetached,
     Goto, TypeOK, taskVars
<1>5. CASE People
  BY <1>1, <1>5 DEF People, Stop, ResolveItem, DurableResume, ReplyItem, SendFrame, FrameArrives,
     taskVars
<1>6. CASE Crash
  BY <1>6 DEF Crash
<1>7. CASE UNCHANGED vars
  BY <1>1, <1>7 DEF vars, taskVars
<1>8. QED
  BY <1>1, <1>3, <1>4, <1>5, <1>6, <1>7 DEF Next

\* After Stop one announced tool at most is still started, whatever restarts, answers and
\* other turns come in between (the checks of _cancel in engine._handle_tool_calls).
THEOREM StopCorrect == Spec => StopHolds
<1> DEFINE Held ==
        cancel => /\ \A c \in Call \ LowRisk : executed'[c] > executed[c] => c \in Announced
                  /\ cancel' => Announced' \subseteq Announced
<1>1. TypeOK /\ [Next]_vars => [Held]_vars
  BY StoppedStarts, StoppedAnnounces
<1>2. QED
  BY <1>1, TypeCorrect, PTL DEF Spec, StopHolds

-----------------------------------------------------------------------------
(* Why Stop ends a turn: the part of StopEndsTurn that is no liveness.     *)
(* While Stop is set every step of the turn gets it nearer to its end in   *)
(* this order: another iteration is counted, the loop goes on to a later   *)
(* phase of the iteration, a call is authorized or dismissed, a call that  *)
(* was authorized gets its result.                                         *)

UnderWay(t) == pc[t] \notin {"idle", "claimed"}

\* Phases of an iteration still to come.  The labels of a phase alternate, each time
\* with one call less.
PhasesLeft(label) ==
    CASE label = "model" -> 5
      [] label = "proposed" -> 4
      [] label \in {"authorize", "parked"} -> 3
      [] label \in {"gather", "starting"} -> 2
      [] label \in {"serial", "tool"} -> 1
      [] OTHER -> 0

Shrinks(S, T) == T \subseteq S /\ T # S

Nearer(t) ==
    \/ iter'[t] > iter[t]
    \/ iter'[t] = iter[t] /\ PhasesLeft(pc[t])' < PhasesLeft(pc[t])
    \/ /\ iter'[t] = iter[t] /\ PhasesLeft(pc[t])' = PhasesLeft(pc[t])
       /\ \/ Shrinks(todo[t], todo'[t])
          \/ todo'[t] = todo[t] /\ Shrinks(cleared[t], cleared'[t])

\* Nobody else moves a turn that is under way, or takes Stop back.
Runs(t) ==
    \/ pc'[t] = "idle"
    \/ cancel' /\ (Nearer(t) \/ UNCHANGED <<pc[t], iter[t], todo[t], cleared[t]>>)

StopLeadsOut(t) ==
    cancel /\ UnderWay(t) => /\ Runs(t)
                             /\ TaskStep(t) => pc'[t] = "idle" \/ Nearer(t)

\* One call less.
LEMMA OneLess ==
    ASSUME NEW S, NEW c \in S
    PROVE  Shrinks(S, S \ {c})
BY DEF Shrinks

\* A step of the turn itself, while Stop is set.
LEMMA TaskStepNearer ==
    ASSUME TypeOK, NEW t \in Task, cancel, UnderWay(t), TaskStep(t)
    PROVE  pc'[t] = "idle" \/ (cancel' /\ Nearer(t))
<1>1. /\ iter[t] \in Nat
      /\ \A label : pc' = [pc EXCEPT ![t] = label] => pc'[t] = label
      /\ \A x : todo' = [todo EXCEPT ![t] = x] => todo'[t] = x
      /\ \A x : cleared' = [cleared EXCEPT ![t] = x] => cleared'[t] = x
      /\ \A x : iter' = [iter EXCEPT ![t] = x] => iter'[t] = x
  BY SessionAssumption DEF TypeOK
<1>2. ~Begin(t)
  BY DEF UnderWay, Begin
<1>3. CASE ModelCalls(t)
  <2>1. pc[t] = "model" /\ pc'[t] = "authorize" /\ UNCHANGED <<cancel, iter>>
    BY <1>1, <1>3 DEF ModelCalls, Goto
  <2>2. QED
    BY <1>1, <2>1 DEF Nearer, PhasesLeft
<1>4. CASE ModelText(t)
  <2>1. /\ pc[t] = "model" /\ cancel'
        /\ \/ pc'[t] = "ending" /\ iter' = iter
           \/ iter'[t] = iter[t] + 1
    BY <1>1, <1>4 DEF ModelText, LoopTop, Goto
  <2>2. QED
    BY <1>1, <2>1 DEF Nearer, PhasesLeft
<1>5. CASE ModelEnds(t)
  <2>1. pc[t] = "model" /\ pc'[t] = "ending" /\ UNCHANGED <<cancel, iter>>
    BY <1>1, <1>5 DEF ModelEnds, Goto
  <2>2. QED
    BY <1>1, <2>1 DEF Nearer, PhasesLeft
<1>6. CASE Authorize(t)
  <2>1. PICK c \in Call : First(c, todo[t]) /\ InterruptedTool(t, c)
    BY <1>6 DEF Authorize
  <2>2. todo'[t] = todo[t] \ {c} /\ c \in todo[t]
    BY <1>1, <2>1 DEF InterruptedTool, Dismiss, First
  <2>3. Shrinks(todo[t], todo'[t])
    BY <2>2, OneLess
  <2>4. UNCHANGED <<pc, iter, cancel>>
    BY <1>6 DEF Authorize
  <2>5. QED
    BY <2>3, <2>4 DEF Nearer
<1>7. CASE Judge(t) \/ Park(t)
  <2>1. pc[t] = "proposed" /\ pc'[t] \in {"authorize", "parked"} /\ UNCHANGED <<cancel, iter>>
    BY <1>1, <1>7 DEF Judge, Park, Goto
  <2>2. QED
    BY <1>1, <2>1 DEF Nearer, PhasesLeft
<1>8. CASE Unpark(t)
  <2>1. PICK c \in Call : First(c, todo[t]) /\ (Clear(t, c) \/ Dismiss(t, {c}))
    BY <1>8 DEF Unpark
  <2>2. todo'[t] = todo[t] \ {c} /\ c \in todo[t]
    BY <1>1, <2>1 DEF Clear, Dismiss, First
  <2>3. Shrinks(todo[t], todo'[t])
    BY <2>2, OneLess
  <2>4. pc[t] = "parked" /\ pc'[t] = "authorize"
    BY <1>1, <1>8 DEF Unpark, Goto
  <2>5. QED
    BY <1>8, <2>3, <2>4 DEF Unpark, Nearer, PhasesLeft
<1>9. CASE StartConcurrent(t)
  <2>1. pc[t] = "authorize" /\ pc'[t] \in {"serial", "gather"}
    BY <1>1, <1>9 DEF StartConcurrent, Goto
  <2>2. QED
    BY <1>1, <1>9, <2>1 DEF StartConcurrent, Nearer, PhasesLeft
<1>10. CASE FinishConcurrent(t)
  <2>1. pc[t] = "gather" /\ pc'[t] = "serial"
    BY <1>1, <1>10 DEF FinishConcurrent, Goto
  <2>2. QED
    BY <1>1, <1>10, <2>1 DEF FinishConcurrent, Nearer, PhasesLeft
<1>11. CASE StartSerial(t) \/ FinishSerial(t)
  <2>1. PICK c \in Call : First(c, cleared[t]) /\ Dismiss(t, {c})
    BY <1>11 DEF StartSerial, FinishSerial, InterruptedTool
  <2>2. todo'[t] = todo[t] \ {c} /\ cleared'[t] = cleared[t] \ {c} /\ c \in cleared[t]
    BY <1>1, <2>1 DEF Dismiss, First
  <2>3. Shrinks(cleared[t], cleared'[t])
    BY <2>2, OneLess
  <2>4. Shrinks(todo[t], todo'[t]) \/ todo'[t] = todo[t]
    BY <2>2 DEF Shrinks
  <2>5. pc[t] \in {"serial", "tool"} /\ pc'[t] = "serial"
    BY <1>1, <1>11 DEF StartSerial, FinishSerial, Goto
  <2>6. UNCHANGED <<cancel, iter>>
    BY <1>11 DEF StartSerial, FinishSerial
  <2>7. QED
    BY <2>3, <2>4, <2>5, <2>6 DEF Nearer, PhasesLeft
<1>15. CASE Launch(t)
  <2>1. pc[t] = "starting" /\ pc'[t] = "tool" /\ UNCHANGED <<cancel, iter>>
    BY <1>1, <1>15 DEF Launch, Goto
  <2>2. QED
    BY <1>1, <2>1 DEF Nearer, PhasesLeft
<1>12. CASE EndIteration(t)
  BY <1>1, <1>12 DEF EndIteration, Goto, Nearer, PhasesLeft
<1>13. CASE EndTurn(t)
  BY <1>1, <1>13 DEF EndTurn, Goto
<1>14. QED
  BY <1>2, <1>3, <1>4, <1>5, <1>6, <1>7, <1>8, <1>9, <1>10, <1>11, <1>12, <1>13, <1>15
  DEF TaskStep

\* Whoever else moves while a turn is under way leaves it and Stop alone: no other
\* coroutine drives the engine, and no turn can start.
LEMMA OthersStay ==
    ASSUME ~Scheduled, TypeOK, Claimed, NEW t \in Task, cancel, UnderWay(t), [Next]_vars,
           ~TaskStep(t)
    PROVE  pc'[t] = "idle" \/ (cancel' /\ UNCHANGED <<pc, iter, todo, cleared>>)
<1>1. running /\ \A u \in Task : u # t => pc[u] = "idle"
  BY DEF Claimed, OneRunner, Active, UnderWay
<1>2. ASSUME NEW u \in Task, TaskStep(u)
      PROVE  FALSE
  <2>1. u # t
    BY <1>2
  <2>2. pc[u] = "idle"
    BY <1>1, <2>1
  <2>3. QED
    BY <1>2, <2>2 DEF TaskStep, Begin, ModelCalls, ModelText, ModelEnds, Authorize, Judge, Park,
       Unpark, StartConcurrent, FinishConcurrent, StartSerial, Launch, FinishSerial,
       EndIteration, EndTurn
<1>3. CASE Starts
  BY <1>1, <1>3 DEF Starts, ClaimTurn, DeliverIdle, DeliverBusy, StartScheduled,
     TryMarkRunning, taskVars
<1>4. CASE People
  <2>1. CASE Stop \/ (\E v \in View : FrameArrives(v))
             \/ (\E v \in View, i \in CallId, d \in Decision : SendFrame(v, i, d))
    BY <2>1 DEF Stop, FrameArrives, SendFrame, taskVars
  <2>2. ASSUME NEW i \in CallId, NEW d \in Decision, ReplyItem(i, d)
        PROVE  cancel' /\ UNCHANGED <<pc, iter, todo, cleared>>
    BY <2>2 DEF ReplyItem, taskVars
  <2>3. ASSUME NEW i \in CallId, NEW d \in Decision, ResolveItem(i, d)
        PROVE  cancel' /\ UNCHANGED <<pc, iter, todo, cleared>>
    BY <1>1, <2>3 DEF ResolveItem, DurableResume, taskVars
  <2>4. QED
    BY <1>4, <2>1, <2>2, <2>3 DEF People
<1>5. CASE Crash
  BY <1>5 DEF Crash
<1>6. CASE UNCHANGED vars
  BY <1>6 DEF vars, taskVars
<1>7. QED
  BY <1>2, <1>3, <1>4, <1>5, <1>6 DEF Next

\* Once Stop is set, a turn under way is on its way out: nobody takes Stop back or
\* moves the turn before it has ended, and every step of its own gets it nearer to its
\* end, in an order that cannot go on for ever, because TypeCorrect bounds iterations
\* and calls.  Parked or running a tool, it needs nobody's answer for that.
THEOREM StopRunsOut ==
    ASSUME ~Scheduled
    PROVE  Spec => [][\A t \in Task : StopLeadsOut(t)]_vars
<1>1. Init => Claimed
  BY DEF Init, Claimed, OneRunner, Active
<1>2. TypeOK /\ Claimed /\ [Next]_vars => Claimed'
  BY StepClaimed
<1>3. TypeOK /\ Claimed /\ [Next]_vars => [\A t \in Task : StopLeadsOut(t)]_vars
  <2> SUFFICES ASSUME TypeOK, Claimed, [Next]_vars, NEW t \in Task, cancel, UnderWay(t)
               PROVE  Runs(t) /\ (TaskStep(t) => pc'[t] = "idle" \/ Nearer(t))
    BY DEF StopLeadsOut
  <2>1. CASE TaskStep(t)
    BY <2>1, TaskStepNearer DEF Runs
  <2>2. CASE ~TaskStep(t)
    BY <2>2, OthersStay DEF Runs
  <2>3. QED
    BY <2>1, <2>2
<1>4. QED
  BY <1>1, <1>2, <1>3, TypeCorrect, PTL DEF Spec
=============================================================================
