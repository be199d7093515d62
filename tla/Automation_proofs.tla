-------------------------- MODULE Automation_proofs --------------------------
(***************************************************************************)
(* Theorems about Automation, for any number of tasks, runs, requests,     *)
(* wakes and restarts and any schedules.                                             *)
(***************************************************************************)
EXTENDS Automation, WellFoundedInduction, TLAPS

-----------------------------------------------------------------------------
(* Skip-on-overlap.                                                        *)

Label == {"free", "spawned", "starting", "running", "minting", "advancing"}

\* NoOverlap with what it needs of the types.
OneRun == /\ pc \in [Slot -> Label]
          /\ NoOverlap

\* StartRun is the only step that puts a run under way.
LEMMA StartOneRun ==
    ASSUME OneRun, NEW s \in Slot, StartRun(s)
    PROVE  OneRun'
<1>1. pc' \in [Slot -> Label] /\ \A r \in Slot : r # s => pc'[r] = pc[r]
  BY DEF OneRun, StartRun, SkipOnOverlap, Begin, Goto, Label
<1>2. CASE pc'[s] = "free" /\ UNCHANGED running
  <2>1. InFlight' = InFlight
    BY <1>1, <1>2 DEF InFlight, StartRun
  <2>2. QED
    BY <1>1, <1>2, <2>1 DEF OneRun, NoOverlap
<1>3. CASE TaskOf[s] \notin running /\ running' = running \cup {TaskOf[s]} /\ pc'[s] = "starting"
  <2>1. \A r \in InFlight : TaskOf[r] # TaskOf[s]
    BY <1>3 DEF OneRun, NoOverlap
  <2>2. InFlight' = InFlight \cup {s}
    BY <1>1, <1>3 DEF InFlight, StartRun
  <2>3. QED
    BY <1>1, <1>3, <2>1, <2>2 DEF OneRun, NoOverlap
<1>4. QED
  BY <1>2, <1>3 DEF OneRun, StartRun, SkipOnOverlap, Begin, Goto

\* FinishRun ends the only run of its task that is under way, and clears the guard.
LEMMA FinishOneRun ==
    ASSUME OneRun, NEW s \in Slot, FinishRun(s)
    PROVE  OneRun'
<1>1. pc' \in [Slot -> Label] /\ (\A r \in Slot : r # s => pc'[r] = pc[r])
  BY DEF OneRun, FinishRun, Goto, Label
<1>2. pc'[s] \in {"advancing", "free"}
  BY DEF OneRun, FinishRun, Goto
<1>3. s \in InFlight /\ InFlight' = InFlight \ {s}
  BY <1>1, <1>2 DEF InFlight, FinishRun
<1>4. \A r \in InFlight' : TaskOf[r] # TaskOf[s]
  BY <1>3 DEF OneRun, NoOverlap
<1>5. running' = running \ {TaskOf[s]}
  BY DEF FinishRun, DiscardRunning
<1>6. QED
  BY <1>1, <1>3, <1>4, <1>5 DEF OneRun, NoOverlap

\* The other steps of a run, and Mint, leave who is under way and the guard alone.
LEMMA SameInFlight ==
    ASSUME OneRun, UNCHANGED running, pc' \in [Slot -> Label],
           \A s \in Slot : pc'[s] \in {"starting", "running", "minting"}
                              <=> pc[s] \in {"starting", "running", "minting"}
    PROVE  OneRun'
<1>1. InFlight' = InFlight
  BY DEF InFlight
<1>2. QED
  BY <1>1 DEF OneRun, NoOverlap

LEMMA StepOneRun == OneRun /\ [Next]_vars => OneRun'
<1> SUFFICES ASSUME OneRun, [Next]_vars PROVE OneRun'
  OBVIOUS
<1> USE DEF OneRun, Label
<1>1. ASSUME NEW s \in Slot, RunStep(s) \/ Mint(s) PROVE OneRun'
  <2>1. CASE StartRun(s)
    BY <2>1, StartOneRun
  <2>2. CASE FinishRun(s)
    BY <2>2, FinishOneRun
  <2>3. CASE BuildEngine(s)
    BY <2>3, SameInFlight DEF BuildEngine, Goto
  <2>4. CASE SaveMint(s)
    BY <2>4, SameInFlight DEF SaveMint, Goto
  <2>5. CASE Advance(s)
    BY <2>5, SameInFlight DEF Advance, Goto
  <2>6. CASE Mint(s)
    BY <2>6, SameInFlight DEF Mint, Goto
  <2>7. QED
    BY <1>1, <2>1, <2>2, <2>3, <2>4, <2>5, <2>6 DEF RunStep
<1>2. CASE Tick
  <2>1. PICK new \in SUBSET Slot :
          /\ Spawned(new)
          /\ pc' = [s \in Slot |-> IF s \in new THEN "spawned" ELSE pc[s]]
    BY <1>2 DEF Tick
  <2>2. \A s \in new : pc[s] = "free"
    BY <2>1 DEF Spawned
  <2>3. QED
    BY <1>2, <2>1, <2>2, SameInFlight DEF Tick
<1>3. CASE Crash
  <2>1. InFlight' = {}
    BY <1>3 DEF Crash, InFlight
  <2>2. QED
    BY <1>3, <2>1 DEF Crash, NoOverlap
<1>4. CASE UNCHANGED <<pc, running>>
  BY <1>4, SameInFlight
<1>5. CASE StartWake \/ EndWake \/ Pass \/ UNCHANGED vars
  BY <1>4, <1>5 DEF StartWake, EndWake, Pass, vars, runVars
<1>6. CASE People
  <2>1. CASE \E s \in Slot : Mint(s)
    BY <1>1, <2>1
  <2>2. CASE ~(\E s \in Slot : Mint(s))
    BY <1>4, <1>6, <2>2
    DEF People, Request, Save, Reseed, Delete, SetAuto, CancelWake, runVars
  <2>3. QED
    BY <2>1, <2>2
<1>7. QED
  BY <1>1, <1>2, <1>3, <1>5, <1>6 DEF Next, Loop

\* Two scheduled runs of one task are never under way, and _running_ids says which
\* tasks have one, for any number of tasks, ticks, edits and restarts.
THEOREM NoOverlapCorrect == Spec => []NoOverlap
<1>1. Init => OneRun
  BY DEF Init, OneRun, NoOverlap, InFlight, Label
<1>2. OneRun => NoOverlap
  BY DEF OneRun
<1>3. QED
  BY <1>1, <1>2, StepOneRun, PTL DEF Spec

-----------------------------------------------------------------------------
(* Wakes.                                                                  *)

\* A wake that still waits has been delivered once for every restart at most, whether
\* it is pending or was cancelled after the tick had looked for due wakes; one that
\* was delivered in this life of the server is not delivered again.
WakeCount ==
    /\ crashes \in Nat
    /\ delivered \in [Wake -> Nat]
    /\ wake \in [Wake -> {"pending", "fired", "cancelled"}]
    /\ batch \subseteq Wake /\ waking \in Wake \cup {NoWake}
    /\ waking \notin batch
    /\ WakeOnce
    /\ \A w \in Wake :
          /\ w \in batch => delivered[w] <= crashes /\ wake[w] # "fired"
          /\ wake[w] = "pending" /\ w # waking => delivered[w] <= crashes

\* The steps that do not touch the wakes.
LEMMA SameWakes ==
    ASSUME WakeCount, UNCHANGED <<wakeVars, crashes>>
    PROVE  WakeCount'
BY DEF WakeCount, WakeOnce, wakeVars

LEMMA StepWakeCount == WakeCount /\ [Next]_vars => WakeCount'
<1> SUFFICES ASSUME WakeCount, [Next]_vars PROVE WakeCount'
  OBVIOUS
<1>1. CASE Tick
  <2>1. /\ waking = NoWake /\ batch' \subseteq {w \in Wake : wake[w] = "pending"}
        /\ UNCHANGED <<wake, waking, delivered, crashes>>
    BY <1>1 DEF Tick, Sleeping, DueWakes
  <2>2. QED
    BY <2>1, AutomationAssumption DEF WakeCount, WakeOnce
<1>2. CASE StartWake
  <2>1. PICK w \in batch : waking' = w /\ batch' = batch \ {w} /\ Deliver(w)
    BY <1>2 DEF StartWake
  <2>2. w \in Wake /\ delivered[w] <= crashes /\ delivered[w] \in Nat /\ waking = NoWake
    BY <1>2, <2>1 DEF WakeCount, StartWake
  <2>3. delivered' = [delivered EXCEPT ![w] = @ + 1] \/ delivered' = delivered
    BY <2>1 DEF Deliver
  <2>9. delivered' \in [Wake -> Nat] /\ delivered'[w] <= 1 + crashes
    BY <2>2, <2>3, AutomationAssumption DEF WakeCount
  <2>4. \A v \in Wake : v # w => delivered'[v] = delivered[v]
    BY <2>3 DEF WakeCount
  <2>5. wake' = wake /\ crashes' = crashes
    BY <1>2, <2>1 DEF StartWake, Deliver
  <2>6. WakeOnce'
    BY <2>9, <2>4, <2>5 DEF WakeCount, WakeOnce
  <2>7. \A v \in Wake :
          /\ v \in batch' => delivered'[v] <= crashes' /\ wake'[v] # "fired"
          /\ wake'[v] = "pending" /\ v # waking' => delivered'[v] <= crashes'
    BY <2>1, <2>2, <2>4, <2>5, AutomationAssumption DEF WakeCount
  <2>8. QED
    BY <2>1, <2>2, <2>9, <2>5, <2>6, <2>7 DEF WakeCount
<1>3. CASE EndWake
  <2>1. waking \in Wake /\ waking \notin batch
    BY <1>3 DEF EndWake, WakeCount
  <2>2. wake' \in [Wake -> {"pending", "fired", "cancelled"}] /\ wake'[waking] # "pending"
    BY <1>3, <2>1 DEF EndWake, MarkFired, WakeCount
  <2>3. \A v \in Wake : v # waking => wake'[v] = wake[v]
    BY <1>3, <2>1 DEF EndWake, MarkFired, WakeCount
  <2>4. UNCHANGED <<batch, delivered, crashes>> /\ waking' = NoWake
    BY <1>3 DEF EndWake
  <2>5. QED
    BY <2>1, <2>2, <2>3, <2>4, AutomationAssumption DEF WakeCount, WakeOnce
<1>4. CASE \E w \in Wake : CancelWake(w)
  BY <1>4 DEF CancelWake, WakeCount, WakeOnce
<1>5. CASE Crash
  BY <1>5, AutomationAssumption DEF Crash, WakeCount, WakeOnce
<1>6. CASE \/ \E s \in Slot : RunStep(s) \/ Mint(s)
           \/ \E k \in Worker, op \in Op : Request(k, op)
           \/ \E k \in Worker : Save(k) \/ Reseed(k)
           \/ (\E t \in Task : Delete(t)) \/ SetAuto \/ Pass \/ UNCHANGED vars
  BY <1>6, SameWakes
  DEF RunStep, StartRun, BuildEngine, SaveMint, FinishRun, Advance, Mint, Request, Save,
      Reseed, Delete, SetAuto, Pass, vars, wakeVars
<1>7. QED
  BY <1>1, <1>2, <1>3, <1>4, <1>5, <1>6 DEF Next, Loop, People

\* Without a restart a wake's message is delivered once at most, even if its session's
\* turn is long, the wake is cancelled meanwhile or automatic wakes are switched.
THEOREM WakeOnceCorrect == Spec => []WakeOnce
<1>1. Init => WakeCount
  BY AutomationAssumption DEF Init, WakeCount, WakeOnce
<1>2. WakeCount => WakeOnce
  BY DEF WakeCount
<1>3. QED
  BY <1>1, <1>2, StepWakeCount, PTL DEF Spec

-----------------------------------------------------------------------------
(* Types.  next_run is the first of the schedule's times after now: it      *)
(* exists because the natural numbers are well-founded.                     *)

\* A set of times has a first one (compute_next_run).
LEMMA FirstTime ==
    ASSUME NEW S, S \subseteq Time, S # {}
    PROVE  First(S) \in S
<1>1. S \subseteq Nat
  BY AutomationAssumption DEF Time
<1>2. IsWellFoundedOn(OpToRel(<, Nat), Nat)
  BY NatLessThanWellFounded
<1>3. \E f \in S : \A g \in S : <<g, f>> \notin OpToRel(<, Nat)
  BY <1>1, <1>2, WFMin
<1>4. \A f, g \in S : <<g, f>> \in OpToRel(<, Nat) <=> g < f
  BY <1>1 DEF OpToRel
<1>5. PICK f \in S : \A g \in S : ~(g < f)
  BY <1>3, <1>4
<1>6. \A g \in S : f <= g
  <2> TAKE g \in S
  <2>1. f \in Nat /\ g \in Nat /\ ~(g < f)
    BY <1>1, <1>5
  <2>2. QED
    BY <2>1
<1>7. QED
  BY <1>5, <1>6 DEF First

\* A task is scheduled inside the bound, and not at all when it is disabled.
LEMMA NextRunType ==
    ASSUME NEW t \in Task, NEW r \in Row, clock \in 0..MaxTime
    PROVE  NextRun(t, r) \in 0..MaxTime /\ (~r.enabled => NextRun(t, r) = 0)
<1> DEFINE later == {f \in Fires[t] : f > clock}
<1>1. later \subseteq Time /\ Time \subseteq 0..MaxTime /\ 0 \in 0..MaxTime
  BY AutomationAssumption DEF Time
<1>2. later # {} => First(later) \in later
  BY <1>1, FirstTime
<1> HIDE DEF later
<1>3. QED
  BY <1>1, <1>2 DEF NextRun, later

\* What is saved is a row, and is not due unless the task is enabled.
LEMMA SavedType ==
    ASSUME NEW t \in Task, NEW r \in Row, clock \in 0..MaxTime
    PROVE  /\ Saved(t, r) \in Row
           /\ ~(Saved(t, r).exists /\ Saved(t, r).enabled) => Saved(t, r).next = 0
<1>1. NextRun(t, r) \in 0..MaxTime /\ (~r.enabled => NextRun(t, r) = 0)
  BY NextRunType
<1> DEFINE n == NextRun(t, r)
<1> HIDE DEF n
<1>2. Saved(t, r) = [r EXCEPT !.next = n, !.exists = TRUE]
  BY DEF Saved, n
<1>3. n \in 0..MaxTime /\ (~r.enabled => n = 0)
  BY <1>1 DEF n
<1>4. QED
  BY <1>2, <1>3 DEF Row

TypedRow == /\ clock \in 0..MaxTime /\ row \in [Task -> Row]
            /\ \A t \in Task : ~(row[t].exists /\ row[t].enabled) => row[t].next = 0

TypedRuns == /\ pc \in [Slot -> Label]
             /\ copy \in [Slot \cup Worker -> Row]
             /\ running \subseteq Task /\ filed \subseteq Slot /\ holds \subseteq Slot
             /\ request \in [Worker -> Op \cup {"none", "reseed"}]
             /\ served \in [Task -> SUBSET (0..MaxTime)]

TypedRest == /\ wake \in [Wake -> {"pending", "fired", "cancelled"}] /\ auto \in BOOLEAN
             /\ batch \subseteq Wake /\ waking \in Wake \cup {NoWake} /\ undone \subseteq Wake
             /\ delivered \in [Wake -> Nat]
             /\ edits \in 0..MaxEdits /\ crashes \in 0..MaxCrash

LEMMA NoRowType == NoRow \in Row
BY AutomationAssumption DEF NoRow, Row

LEMMA TypeInit == Init => TypeOK
<1> SUFFICES ASSUME Init PROVE TypeOK
  OBVIOUS
<1> USE AutomationAssumption
<1>1. ASSUME NEW t \in Task
      PROVE  row[t] \in Row /\ row[t].exists /\ row[t].enabled
  <2> DEFINE n == IF Fires[t] = {} THEN 0 ELSE First(Fires[t])
  <2>1. n \in 0..MaxTime
    <3>1. Fires[t] \subseteq Time /\ Time \subseteq 0..MaxTime /\ 0 \in 0..MaxTime
      BY DEF Time
    <3>2. QED
      BY <3>1, FirstTime
  <2>2. row[t] = [exists |-> TRUE, enabled |-> TRUE, runs |-> 0, rule |-> FALSE, next |-> n]
    BY DEF Init
  <2> HIDE DEF n
  <2>3. QED
    BY <2>1, <2>2 DEF Row
<1>2. row \in [Task -> Row]
  BY <1>1 DEF Init
<1>3. copy \in [Slot \cup Worker -> Row] /\ request \in [Worker -> Op \cup {"none", "reseed"}]
  BY NoRowType DEF Init
<1>4. /\ 0 \in 0..MaxTime /\ 0 \in 0..MaxEdits /\ 0 \in 0..MaxCrash
      /\ wake \in [Wake -> {"pending", "fired", "cancelled"}] /\ delivered \in [Wake -> Nat]
      /\ served \in [Task -> SUBSET (0..MaxTime)]
  BY DEF Init
<1>5. QED
  BY <1>1, <1>2, <1>3, <1>4 DEF Init, TypeOK

\* What a run or a request makes of the row it read is a row.
LEMMA WrittenType ==
    ASSUME NEW t \in Task, NEW r \in Row
    PROVE  /\ [r EXCEPT !.rule = TRUE] \in Row
           /\ Counted(t, r) \in Row
           /\ \A op : Changed(r, op) \in Row
<1>1. [r EXCEPT !.rule = TRUE] \in Row
  BY DEF Row
<1>2. Counted(t, r) \in Row
  <2> DEFINE n == IF r.runs < MaxRuns[t] THEN r.runs + 1 ELSE r.runs
  <2>1. n \in Nat
    BY AutomationAssumption DEF Row
  <2>2. Counted(t, r) = [r EXCEPT !.runs = n]
    BY DEF Counted
  <2> HIDE DEF n
  <2>3. QED
    BY <2>1, <2>2 DEF Row
<1>3. ASSUME NEW op PROVE Changed(r, op) \in Row
  <2> DEFINE e == (op = "enable" \/ (r.enabled /\ op # "disable"))
             q == r.rule /\ op # "revoke"
  <2>1. e \in BOOLEAN /\ q \in BOOLEAN
    OBVIOUS
  <2>2. Changed(r, op) = [r EXCEPT !.enabled = e, !.rule = q]
    BY DEF Changed
  <2> HIDE DEF e, q
  <2>3. QED
    BY <2>1, <2>2 DEF Row
<1>4. QED
  BY <1>1, <1>2, <1>3

LEMMA RowTyped == TypeOK /\ [Next]_vars => TypedRow'
<1> SUFFICES ASSUME TypeOK, [Next]_vars PROVE TypedRow'
  OBVIOUS
<1> USE AutomationAssumption DEF TypeOK, TypedRow
<1>1. ASSUME NEW t \in Task, NEW r \in Row, Write(t, r), clock' = clock PROVE TypedRow'
  <2>1. row' = [row EXCEPT ![t] = Saved(t, r)]
    BY <1>1 DEF Write
  <2>2. Saved(t, r) \in Row /\ (~(Saved(t, r).exists /\ Saved(t, r).enabled) => Saved(t, r).next = 0)
    BY <1>1, SavedType
  <2>3. QED
    BY <1>1, <2>1, <2>2
<1>2. ASSUME NEW s \in Slot, SaveMint(s) PROVE TypedRow'
  <2>1. copy[s] \in Row /\ TaskOf[s] \in Task
    OBVIOUS
  <2> DEFINE r == [copy[s] EXCEPT !.rule = TRUE]
  <2>2. r \in Row
    BY <2>1, WrittenType
  <2>3. Write(TaskOf[s], r) /\ clock' = clock
    BY <1>2 DEF SaveMint
  <2> HIDE DEF r
  <2>4. QED
    BY <1>1, <2>1, <2>2, <2>3
<1>3. ASSUME NEW s \in Slot, Advance(s) PROVE TypedRow'
  <2>1. copy[s] \in Row /\ TaskOf[s] \in Task
    OBVIOUS
  <2>2. Counted(TaskOf[s], copy[s]) \in Row
    BY <2>1, WrittenType
  <2>3. QED
    BY <1>1, <1>3, <2>1, <2>2 DEF Advance
<1>4. ASSUME NEW k \in Worker, Save(k) PROVE TypedRow'
  <2>1. copy[k] \in Row /\ TaskOf[k] \in Task
    OBVIOUS
  <2>2. Changed(copy[k], request[k]) \in Row
    BY <2>1, WrittenType
  <2>3. QED
    BY <1>1, <1>4, <2>1, <2>2 DEF Save
<1>5. ASSUME NEW t \in Task, Delete(t) PROVE TypedRow'
  BY <1>5, NoRowType DEF Delete, NoRow
<1>6. CASE Pass
  BY <1>6 DEF Pass
<1>7. ASSUME NEW s \in Slot, StartRun(s) \/ BuildEngine(s) \/ FinishRun(s) \/ Mint(s)
      PROVE  UNCHANGED <<clock, row>>
  BY <1>7 DEF StartRun, BuildEngine, FinishRun, Mint
<1>8. ASSUME NEW k \in Worker, NEW op \in Op, Request(k, op) \/ Reseed(k)
      PROVE  UNCHANGED <<clock, row>>
  BY <1>8 DEF Request, Reseed
<1>9. ASSUME NEW w \in Wake, CancelWake(w) PROVE UNCHANGED <<clock, row>>
  BY <1>9 DEF CancelWake
<1>10. ASSUME Tick \/ StartWake \/ EndWake \/ SetAuto \/ Crash \/ UNCHANGED vars
       PROVE  UNCHANGED <<clock, row>>
  BY <1>10 DEF Tick, StartWake, EndWake, SetAuto, Crash, vars
<1>11. ASSUME UNCHANGED <<clock, row>> PROVE TypedRow'
  BY <1>11
<1>12. "touch" \in Op
  BY DEF Op
<1>13. QED
  BY <1>2, <1>3, <1>4, <1>5, <1>6, <1>7, <1>8, <1>9, <1>10, <1>11, <1>12 DEF Next, RunStep, Loop,
     People

LEMMA RunsTyped == TypeOK /\ [Next]_vars => TypedRuns'
<1> SUFFICES ASSUME TypeOK, [Next]_vars PROVE TypedRuns'
  OBVIOUS
<1> USE AutomationAssumption DEF TypeOK, TypedRuns, Goto, Read, Drop, Label
<1>1. \A s \in Slot : copy[s].next \in 0..MaxTime
  BY DEF Row
<1>2. ASSUME NEW s \in Slot, StartRun(s) PROVE TypedRuns'
  <2>1. TaskOf[s] \in Task /\ copy' \in [Slot \cup Worker -> Row]
    BY <1>2, NoRowType DEF StartRun, SkipOnOverlap, Begin
  <2>2. UNCHANGED <<holds, request>>
    BY <1>2 DEF StartRun
  <2>3. CASE Begin(s)
    BY <1>1, <1>2, <2>1, <2>2, <2>3 DEF Begin
  <2>4. CASE Goto(s, "free") /\ UNCHANGED <<running, filed, served>>
    BY <2>1, <2>2, <2>4
  <2>5. QED
    BY <1>2, <2>3, <2>4 DEF StartRun, SkipOnOverlap
<1>3. ASSUME NEW s \in Slot, BuildEngine(s) \/ SaveMint(s) \/ Mint(s) \/ FinishRun(s)
      PROVE  TypedRuns'
  BY <1>3 DEF BuildEngine, SaveMint, Mint, FinishRun, DiscardRunning
<1>4. ASSUME NEW s \in Slot, Advance(s) PROVE TypedRuns'
  BY <1>4, NoRowType DEF Advance
<1>5. CASE Tick
  <2>1. PICK new \in SUBSET Slot :
          /\ pc' = [s \in Slot |-> IF s \in new THEN "spawned" ELSE pc[s]]
          /\ copy' = [p \in Slot \cup Worker |-> IF p \in new THEN row[TaskOf[p]] ELSE copy[p]]
    BY <1>5 DEF Tick
  <2>2. QED
    BY <1>5, <2>1 DEF Tick
<1>6. ASSUME NEW k \in Worker, NEW op \in Op, Request(k, op) PROVE TypedRuns'
  BY <1>6 DEF Request
<1>7. ASSUME NEW k \in Worker, Save(k) \/ Reseed(k) PROVE TypedRuns'
  BY <1>7, NoRowType DEF Save, Reseed, runVars
<1>8. ASSUME NEW t \in Task, Delete(t) PROVE TypedRuns'
  BY <1>8 DEF Delete
<1>9. CASE SetAuto \/ (\E w \in Wake : CancelWake(w))
  BY <1>9 DEF SetAuto, CancelWake, runVars
<1>10. CASE StartWake \/ EndWake \/ Pass \/ UNCHANGED vars
  BY <1>10 DEF StartWake, EndWake, Pass, vars, runVars
<1>11. CASE Crash
  BY <1>11, NoRowType DEF Crash
<1>12. QED
  BY <1>2, <1>3, <1>4, <1>5, <1>6, <1>7, <1>8, <1>9, <1>10, <1>11 DEF Next, RunStep, Loop, People

LEMMA RestTyped == TypeOK /\ [Next]_vars => TypedRest'
<1> SUFFICES ASSUME TypeOK, [Next]_vars PROVE TypedRest'
  OBVIOUS
<1> USE AutomationAssumption DEF TypeOK, TypedRest
<1>1. ASSUME NEW s \in Slot, RunStep(s) \/ Mint(s) PROVE TypedRest'
  BY <1>1 DEF RunStep, StartRun, BuildEngine, SaveMint, FinishRun, Advance, Mint, wakeVars
<1>2. CASE Tick
  BY <1>2 DEF Tick, DueWakes
<1>10. CASE StartWake
  <2>1. PICK w \in batch : waking' = w /\ batch' = batch \ {w} /\ Deliver(w)
    BY <1>10 DEF StartWake
  <2>2. UNCHANGED <<auto, edits, crashes>>
    BY <1>10 DEF StartWake
  <2>3. QED
    BY <2>1, <2>2 DEF Deliver
<1>3. CASE EndWake
  BY <1>3 DEF EndWake, MarkFired
<1>4. ASSUME NEW k \in Worker, NEW op \in Op, Request(k, op) PROVE TypedRest'
  BY <1>4 DEF Request, wakeVars
<1>5. ASSUME NEW k \in Worker, Save(k) \/ Reseed(k) PROVE TypedRest'
  BY <1>5 DEF Save, Reseed, wakeVars
<1>6. CASE (\E t \in Task : Delete(t)) \/ SetAuto
  <2>1. edits' \in 0..MaxEdits
    BY <1>6 DEF Delete, SetAuto
  <2>2. auto' = auto \/ auto' = ~auto
    BY <1>6, Zenon DEF Delete, SetAuto
  <2>3. auto' \in BOOLEAN
    BY <2>2
  <2>4. UNCHANGED <<wakeVars, crashes>>
    BY <1>6 DEF Delete, SetAuto
  <2>5. QED
    BY <2>1, <2>3, <2>4 DEF wakeVars
<1>7. CASE \E w \in Wake : CancelWake(w)
  BY <1>7 DEF CancelWake
<1>8. CASE Pass \/ Crash \/ UNCHANGED vars
  BY <1>8 DEF Pass, Crash, vars, wakeVars
<1>9. QED
  BY <1>1, <1>2, <1>10, <1>3, <1>4, <1>5, <1>6, <1>7, <1>8 DEF Next, Loop, People

\* Every variable keeps its type, and a task that is disabled or deleted is never
\* scheduled, for any schedule.
THEOREM TypeCorrect == Spec => []TypeOK
<1>1. TypedRow /\ TypedRuns /\ TypedRest => TypeOK
  BY DEF TypedRow, TypedRuns, TypedRest, TypeOK, Label
<1>2. TypeOK /\ [Next]_vars => TypeOK'
  BY <1>1, RowTyped, RunsTyped, RestTyped, PTL
<1>3. QED
  BY <1>2, TypeInit, PTL DEF Spec
=============================================================================
