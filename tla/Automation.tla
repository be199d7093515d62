----------------------------- MODULE Automation -----------------------------
(***************************************************************************)
(* The scheduled tasks of the agent server: the scheduler's tick, the runs *)
(* it spawns, the self-wakes it delivers (coworker/automation, selfwake.py, *)
(* server/manager.py) and the REST endpoints that edit a task from the     *)
(* thread pool while the event loop runs it.                               *)
(*                                                                         *)
(* A task is one row that every writer reads, changes and writes back as a *)
(* whole; a coroutine's step lasts to its next await, a request's to its   *)
(* next call of the store.                                                 *)
(***************************************************************************)
EXTENDS Naturals, FiniteSets

CONSTANTS
    Task,
    Slot,      \* runs the scheduler has in hand (Scheduler._spawned)
    Worker,    \* request handlers in the thread pool
    TaskOf,    \* the task of each of these
    Wake,      \* self-wake timers
    FireAt,    \* the time each of them fires at
    Fires,     \* the times each task's schedule fires at
    MaxRuns,   \* its max_runs, 1 for a one-time fire_at and 0 for None
    MaxTime,   \* bound: the last instant of the clock
    MaxCrash,  \* bound: restarts of the server
    MaxEdits,  \* bound: requests that edit the task
    NoWake     \* "no wake is being delivered"

Time == 1..MaxTime
Row  == [exists : BOOLEAN, enabled : BOOLEAN,
         next   : 0..MaxTime,    \* next_run; 0 for None
         runs   : Nat,           \* run_count, up to max_runs
         rule   : BOOLEAN]       \* the standing rule is in always_allowed_tools

ASSUME AutomationAssumption ==
    /\ MaxTime \in Nat /\ MaxCrash \in Nat /\ MaxEdits \in Nat
    /\ TaskOf \in [Slot \cup Worker -> Task]
    /\ Fires \in [Task -> SUBSET Time] /\ MaxRuns \in [Task -> Nat]
    /\ NoWake \notin Wake /\ FireAt \in [Wake -> Nat]
    /\ IsFiniteSet(Slot)

VARIABLES
    clock,
    row,       \* the rows of scheduled_tasks
    pc,        \* where each run stands
    copy,      \* the task as each run or request last read it
    running,   \* Scheduler._running_ids
    filed,     \* runs whose TaskRun is in task_runs
    holds,     \* runs whose engine has the rule in permissions.task_rules
    request,   \* what each worker is doing
    wake,      \* state of the wakes
    auto,      \* WakeStore._auto of the woken session
    batch,     \* wakes of this tick still to be delivered
    waking,    \* the wake whose turn the tick awaits
    served,    \* due times a run was started for (history variable)
    delivered, \* how often each wake's message was delivered (history variable)
    undone,    \* wakes whose delivery failed (history variable)
    edits, crashes

runVars  == <<pc, copy, running, filed, holds, served>>
wakeVars == <<wake, batch, waking, delivered, undone>>
vars == <<clock, row, runVars, request, wakeVars, auto, edits, crashes>>

-----------------------------------------------------------------------------
First(S) == CHOOSE f \in S : \A g \in S : f <= g

RunsOut(t, r) == MaxRuns[t] # 0 /\ r.runs >= MaxRuns[t]

\* Mutant: a disabled task is scheduled, too.
NextRunAnyway(t, r) ==
    LET later == {f \in Fires[t] : f > clock}
    IN  IF RunsOut(t, r) \/ later = {} THEN 0 ELSE First(later)

\* compute_next_run: the first time after now, as long as there are runs left.
NextRun(t, r) ==
    LET later == {f \in Fires[t] : f > clock}
    IN  IF ~r.enabled \/ RunsOut(t, r) \/ later = {} THEN 0 ELSE First(later)

\* TaskStore.save: the row is replaced, and next_run computed anew.
Saved(t, r) == [r EXCEPT !.next = NextRun(t, r), !.exists = TRUE]
Write(t, r) == row' = [row EXCEPT ![t] = Saved(t, r)]

\* TaskStore.due.
Due(t) ==
    /\ row[t].exists /\ row[t].enabled
    /\ row[t].next # 0 /\ row[t].next <= clock

NoRow == [exists |-> FALSE, enabled |-> FALSE, next |-> 0, runs |-> 0, rule |-> FALSE]

Init ==
    /\ clock = 0
    /\ row = [t \in Task |->
                 [exists |-> TRUE, enabled |-> TRUE, runs |-> 0, rule |-> FALSE,
                  next |-> IF Fires[t] = {} THEN 0 ELSE First(Fires[t])]]
    /\ pc = [s \in Slot |-> "free"]
    /\ copy = [p \in Slot \cup Worker |-> NoRow]
    /\ running = {} /\ filed = {} /\ holds = {}
    /\ request = [k \in Worker |-> "none"]
    /\ wake = [w \in Wake |-> "pending"] /\ auto = TRUE
    /\ batch = {} /\ waking = NoWake
    /\ served = [t \in Task |-> {}]
    /\ delivered = [w \in Wake |-> 0] /\ undone = {}
    /\ edits = 0 /\ crashes = 0

InFlight == {s \in Slot : pc[s] \in {"starting", "running", "minting"}}
Goto(s, label) == pc' = [pc EXCEPT ![s] = label]
Read(p) == copy' = [copy EXCEPT ![p] = row[TaskOf[p]]]
Drop(p) == copy' = [copy EXCEPT ![p] = NoRow]

Pass == /\ clock < MaxTime
        /\ clock' = clock + 1
        /\ UNCHANGED <<row, runVars, request, wakeVars, auto, edits, crashes>>

-----------------------------------------------------------------------------
(* The scheduler's loop.                                                   *)

\* Mutant: a tick awaits the runs it started before it goes on.
SleepingAwaitsRuns == batch = {} /\ waking = NoWake /\ InFlight = {}

Sleeping == batch = {} /\ waking = NoWake

\* WakeStore.due.
DueWakes == {w \in Wake : wake[w] = "pending" /\ auto /\ FireAt[w] <= clock}

\* A slot for each task that is due; a task whose slots are all taken gets no further
\* run (a bound).
Spawned(new) ==
    /\ \A s \in new : pc[s] = "free" /\ Due(TaskOf[s])
    /\ \A s, r \in new : TaskOf[s] = TaskOf[r] => s = r
    /\ \A s \in Slot : pc[s] = "free" /\ Due(TaskOf[s]) => \E r \in new : TaskOf[r] = TaskOf[s]

\* _tick: spawn a run of each due task as it was read, then look for due wakes.
Tick ==
    /\ Sleeping
    /\ \E new \in SUBSET Slot :
          /\ Spawned(new)
          /\ pc' = [s \in Slot |-> IF s \in new THEN "spawned" ELSE pc[s]]
          /\ copy' = [p \in Slot \cup Worker |-> IF p \in new THEN row[TaskOf[p]] ELSE copy[p]]
    /\ batch' = DueWakes
    /\ UNCHANGED <<clock, row, running, filed, holds, served, request, wake, waking,
                   delivered, undone, auto, edits, crashes>>

\* Mutant: the wakes that were due are marked before they are delivered.
StartMarked(w) ==
    /\ delivered' = [delivered EXCEPT ![w] = @ + 1]
    /\ wake' = [v \in Wake |-> IF v \in batch /\ wake[v] = "pending" THEN "fired" ELSE wake[v]]
    /\ UNCHANGED undone

\* deliver_to_session: the message starts a turn or is queued for the one that is
\* going on; or there is no engine for the session, or the delivery raises.
Deliver(w) ==
    /\ \/ delivered' = [delivered EXCEPT ![w] = @ + 1] /\ UNCHANGED undone
       \/ undone' = undone \cup {w} /\ UNCHANGED delivered
    /\ UNCHANGED wake

\* resume_due_wakes takes the next wake; the turn that it starts is awaited.
StartWake ==
    /\ waking = NoWake
    /\ \E w \in batch : waking' = w /\ batch' = batch \ {w} /\ Deliver(w)
    /\ UNCHANGED <<clock, row, runVars, request, auto, edits, crashes>>

\* Mutant: the wake stays pending.
ForgetFired == UNCHANGED wake

\* WakeStore.mark_fired, unless the wake was cancelled meanwhile.
MarkFired ==
    wake' = IF wake[waking] = "pending" THEN [wake EXCEPT ![waking] = "fired"] ELSE wake

\* The woken turn is over, however it ended, or the delivery failed.
EndWake ==
    /\ waking # NoWake
    /\ MarkFired
    /\ waking' = NoWake
    /\ UNCHANGED <<clock, row, runVars, request, batch, delivered, undone, auto, edits, crashes>>

-----------------------------------------------------------------------------
(* A run.                                                                  *)

\* The run is filed and announced.
Begin(s) ==
    /\ running' = running \cup {TaskOf[s]}
    /\ Goto(s, "starting")
    /\ filed' = filed \cup {s}
    /\ served' = [served EXCEPT ![TaskOf[s]] = @ \cup {copy[s].next}]
    /\ UNCHANGED copy

\* Mutant: a run starts whether or not another is going on.
StackRuns(s) == Begin(s)

\* run_task: skip on overlap.
SkipOnOverlap(s) ==
    \/ TaskOf[s] \in running /\ Goto(s, "free") /\ Drop(s) /\ UNCHANGED <<running, filed, served>>
    \/ TaskOf[s] \notin running /\ Begin(s)

StartRun(s) ==
    /\ pc[s] = "spawned"
    /\ SkipOnOverlap(s)
    /\ UNCHANGED <<clock, row, holds, request, wakeVars, auto, edits, crashes>>

\* _build_task_engine: the engine's rules come from the task as due() read it.
BuildEngine(s) ==
    /\ pc[s] = "starting"
    /\ Goto(s, "running")
    /\ holds' = IF copy[s].rule THEN holds \cup {s} ELSE holds
    /\ UNCHANGED <<clock, row, copy, running, filed, served, request, wakeVars, auto,
                   edits, crashes>>

\* mint_task_rule: "Allow every time" on an approval of this run.
Mint(s) ==
    /\ pc[s] = "running"
    /\ s \in filed /\ row[TaskOf[s]].exists /\ ~row[TaskOf[s]].rule
    /\ Goto(s, "minting")
    /\ Read(s)
    /\ UNCHANGED <<clock, row, running, filed, holds, served, request, wakeVars, auto,
                   edits, crashes>>

SaveMint(s) ==
    /\ pc[s] = "minting"
    /\ Write(TaskOf[s], [copy[s] EXCEPT !.rule = TRUE])
    /\ holds' = holds \cup {s}
    /\ Goto(s, "running")
    /\ UNCHANGED <<clock, copy, running, filed, served, request, wakeVars, auto, edits,
                   crashes>>

\* run_task's finally clause.
DiscardRunning(s) == running' = running \ {TaskOf[s]}

\* The run is over, or its engine could not be built: read the task again.
FinishRun(s) ==
    /\ pc[s] \in {"starting", "running"}
    /\ DiscardRunning(s)
    /\ Read(s)
    /\ Goto(s, IF row[TaskOf[s]].exists THEN "advancing" ELSE "free")
    /\ holds' = holds \ {s}
    /\ filed' = IF row[TaskOf[s]].exists THEN filed \cup {s} ELSE filed \ {s}
    /\ UNCHANGED <<clock, row, served, request, wakeVars, auto, edits, crashes>>

\* run_count += 1, last_run, last_status.
Counted(t, r) == [r EXCEPT !.runs = IF @ < MaxRuns[t] THEN @ + 1 ELSE @]

Advance(s) ==
    /\ pc[s] = "advancing"
    /\ Write(TaskOf[s], Counted(TaskOf[s], copy[s]))
    /\ Goto(s, "free") /\ Drop(s)
    /\ filed' = filed \ {s}
    /\ UNCHANGED <<clock, running, holds, served, request, wakeVars, auto, edits,
                   crashes>>

-----------------------------------------------------------------------------
(* Requests: update_automation, mark_automation_seen, delete_automation and *)
(* the agent's update_scheduled_task.                                       *)

\* "touch" stands for the seen mark and edits of the title or the instructions.
Op == {"touch", "enable", "disable", "revoke"}

Changed(r, op) ==
    [r EXCEPT !.enabled = (op = "enable" \/ (@ /\ op # "disable")),
              !.rule    = @ /\ op # "revoke"]

Request(k, op) ==
    /\ request[k] = "none" /\ row[TaskOf[k]].exists /\ edits < MaxEdits
    /\ request' = [request EXCEPT ![k] = op]
    /\ Read(k)
    /\ edits' = edits + 1
    /\ UNCHANGED <<clock, row, pc, running, filed, holds, served, wakeVars, auto, crashes>>

Save(k) ==
    /\ request[k] \in Op
    /\ Write(TaskOf[k], Changed(copy[k], request[k]))
    /\ request' = [request EXCEPT ![k] = IF @ = "revoke" THEN "reseed" ELSE "none"]
    /\ Drop(k)
    /\ UNCHANGED <<clock, pc, running, filed, holds, served, wakeVars, auto, edits, crashes>>

\* The runs of a task that are filed as going on.
RunsOf(t) == {s \in filed : TaskOf[s] = t}

\* After a revocation: reseed the engines of the task's live runs.
Reseed(k) ==
    /\ request[k] = "reseed"
    /\ request' = [request EXCEPT ![k] = "none"]
    /\ holds' = IF row[TaskOf[k]].exists THEN holds \ RunsOf(TaskOf[k]) ELSE holds
    /\ UNCHANGED <<clock, row, pc, copy, running, filed, served, wakeVars, auto, edits,
                   crashes>>

\* The row goes, and its runs with it; what is running goes on.
Delete(t) ==
    /\ row[t].exists /\ edits < MaxEdits
    /\ row' = [row EXCEPT ![t] = NoRow]
    /\ filed' = filed \ RunsOf(t)
    /\ edits' = edits + 1
    /\ UNCHANGED <<clock, pc, copy, running, holds, served, request, wakeVars, auto,
                   crashes>>

SetAuto ==
    /\ edits < MaxEdits
    /\ auto' = ~auto
    /\ edits' = edits + 1
    /\ UNCHANGED <<clock, row, runVars, request, wakeVars, crashes>>

\* WakeStore.cancel: the wake is removed.
CancelWake(w) ==
    /\ wake[w] # "cancelled" /\ edits < MaxEdits
    /\ wake' = [wake EXCEPT ![w] = "cancelled"]
    /\ edits' = edits + 1
    /\ UNCHANGED <<clock, row, runVars, request, batch, waking, delivered, undone, auto, crashes>>

\* A restart: the stores survive, coroutines and requests do not.
Crash ==
    /\ crashes < MaxCrash
    /\ crashes' = crashes + 1
    /\ pc' = [s \in Slot |-> "free"] /\ copy' = [p \in Slot \cup Worker |-> NoRow]
    /\ running' = {} /\ holds' = {} /\ filed' = {}
    /\ request' = [k \in Worker |-> "none"]
    /\ batch' = {} /\ waking' = NoWake
    /\ UNCHANGED <<clock, row, served, wake, delivered, undone, auto, edits>>

-----------------------------------------------------------------------------
RunStep(s) == StartRun(s) \/ BuildEngine(s) \/ SaveMint(s) \/ FinishRun(s) \/ Advance(s)
Loop == Tick \/ StartWake
People ==
    \/ \E k \in Worker, op \in Op : Request(k, op)
    \/ \E k \in Worker : Save(k) \/ Reseed(k)
    \/ \E t \in Task : Delete(t)
    \/ SetAuto
    \/ \E w \in Wake : CancelWake(w)
    \/ \E s \in Slot : Mint(s)

Next == \/ \E s \in Slot : RunStep(s)
        \/ Loop \/ EndWake \/ People \/ Pass \/ Crash

Spec == Init /\ [][Next]_vars

-----------------------------------------------------------------------------
(* Fairness: the event loop runs its ready coroutines, a run that was      *)
(* spawned gets to its engine, and what ended is advanced.  A run under    *)
(* way, and a turn that was woken, may be parked on an approval nobody     *)
(* answers: neither FinishRun of a running one nor EndWake is fair.        *)

\* A step of a run that waits for nobody.
Ready(s) ==
    \/ StartRun(s) \/ SaveMint(s) \/ Advance(s)
    \/ pc[s] = "starting" /\ (BuildEngine(s) \/ FinishRun(s))

FairSpec == Spec /\ WF_vars(Loop) /\ \A s \in Slot : WF_vars(Ready(s))

-----------------------------------------------------------------------------
(* Properties.                                                             *)

\* Every variable has its type, and a task that is disabled or deleted is not
\* scheduled.
TypeOK ==
    /\ clock \in 0..MaxTime /\ row \in [Task -> Row]
    /\ \A t \in Task : ~(row[t].exists /\ row[t].enabled) => row[t].next = 0
    /\ pc \in [Slot -> {"free", "spawned", "starting", "running", "minting", "advancing"}]
    /\ copy \in [Slot \cup Worker -> Row]
    /\ running \subseteq Task /\ filed \subseteq Slot /\ holds \subseteq Slot
    /\ request \in [Worker -> Op \cup {"none", "reseed"}]
    /\ wake \in [Wake -> {"pending", "fired", "cancelled"}] /\ auto \in BOOLEAN
    /\ batch \subseteq Wake /\ waking \in Wake \cup {NoWake} /\ undone \subseteq Wake
    /\ served \in [Task -> SUBSET (0..MaxTime)] /\ delivered \in [Wake -> Nat]
    /\ edits \in 0..MaxEdits /\ crashes \in 0..MaxCrash

\* Skip-on-overlap: whatever the ticks, crashes and edits, two scheduled runs of
\* one task are never under way, and one is whenever _running_ids says so.
NoOverlap ==
    /\ \A s, r \in InFlight : TaskOf[s] = TaskOf[r] => s = r
    /\ running = {TaskOf[s] : s \in InFlight}

\* A wake's message is delivered once, and once more for every restart at most.
WakeOnce == \A w \in Wake : delivered[w] <= 1 + crashes

\* Run-once-catch-up: a time that came due is not skipped by a change of the row
\* unless a run was started for it, or the task was disabled or deleted.
MissedRunKept ==
    [][\A t \in Task :
          (Due(t) /\ row'[t].exists /\ row'[t].enabled /\ row'[t].next # row[t].next)
             => row[t].next \in served[t]]_row

\* Every turn that a wake starts ends.  The scheduler awaits it, and nothing in the
\* code ends a turn that waits for a person: what follows assumes it.
WokenTurnsEnd == []<>(waking = NoWake)

\* A due task gets a run, or stops being due, even while a run of another task is
\* parked for ever (scheduler.py:78-81), if the turns that wakes start end.
DueRuns ==
    WokenTurnsEnd => \A t \in Task : Due(t) ~> (~Due(t) \/ t \in running)

\* A wake that is due is delivered, however long a scheduled run stays parked on an
\* approval and whatever restarts, unless its delivery fails, it is cancelled or the
\* session's automatic wakes go off: it is never marked as fired without.
WakesDelivered ==
    WokenTurnsEnd =>
        \A w \in Wake :
            w \in DueWakes ~> (delivered[w] > 0 \/ w \in undone \/ wake[w] = "cancelled" \/ ~auto)
=============================================================================
